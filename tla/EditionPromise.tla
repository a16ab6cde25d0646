--------------------------- MODULE EditionPromise ---------------------------
(***************************************************************************)
(* What the private factory promises of one work, whoever calls it and     *)
(* wherever it stops: versions of the text become settled, one of them is  *)
(* approved, once and for ever, and only that one is given out.            *)
(***************************************************************************)
CONSTANT Nothing

VARIABLES
  settled,      \* versions whose findings are decided, and applied if accepted
  approved,     \* the approved version, or Nothing
  released      \* versions that can be downloaded

promiseVars == <<settled, approved, released>>

PromiseInit == settled = {} /\ approved = Nothing /\ released = {}

\* The editors work on.
Settle ==
  /\ UNCHANGED <<approved, released>>
  /\ settled \subseteq settled'

\* The editor signs.
Approve ==
  /\ approved = Nothing
  /\ approved' \in settled
  /\ UNCHANGED <<settled, released>>

\* Files are written, or written anew; a torn one is no release.
Release ==
  /\ approved # Nothing
  /\ released' \subseteq {approved}
  /\ UNCHANGED <<settled, approved>>

PromiseNext == Settle \/ Approve \/ Release

PromiseSpec == PromiseInit /\ [][PromiseNext]_promiseVars

=============================================================================
