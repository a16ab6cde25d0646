--------------------------- MODULE PrivateFactory ---------------------------
(***************************************************************************)
(* PrivateEditorialFactory: review, prepare and publish over the stored    *)
(* events of one work, run by several processes on one database.           *)
(*                                                                         *)
(* A call is a process that reads the stream several times and hands one   *)
(* command after another to the handlers, each with the version the last   *)
(* one answered.  A read and a handled command are one step each (that a   *)
(* command is atomic is what CommandProtocol shows); between two of them   *)
(* the other processes go on.  A Work in hand is a length of the log.      *)
(*                                                                         *)
(* Of a manuscript only its flaws are kept, the places the correctors      *)
(* report; a corrected text may show others than it did.  A finding is a   *)
(* flaw with the manuscript_version it was seen at, since the id of a      *)
(* finding holds that version: a flaw that was not corrected comes back    *)
(* under a new id after a patch.                                           *)
(***************************************************************************)
EXTENDS Integers, FiniteSets, Sequences

CONSTANTS
  Desk,         \* the processes that call the factory
  Source,       \* texts of the manuscript, by hash
  Flaw,         \* what a corrector may report, numbered in reading order
  Flaws,        \* [Source -> [the corrected flaws -> the flaws the text then shows]]
  Actor,
  None

ASSUME FactoryAssumption ==
  /\ Flaw \subseteq Nat
  /\ \A s \in Source, c \in SUBSET Flaw : Flaws[s][c] \subseteq Flaw
  /\ None \notin Source

VARIABLES
  log,          \* the stream of the work: one event for each step of the factory
  approval,     \* the edition approval stored under the id of this work, or None
  run           \* [Desk -> the call in hand]

factoryVars == <<log, approval, run>>

Finding == Flaw \X Nat
Status == {"accepted", "rejected"}
Ingested(s) == [type |-> "ingested", source |-> s]
RecordedBy(f, a, v) == [type |-> "recorded", finding |-> f, by |-> a, expected |-> v]
DecidedBy(f, s, a) == [type |-> "decided", finding |-> f, status |-> s, by |-> a]
Patched(F) == [type |-> "patched", corrects |-> F]

OfType(t, v) == {i \in 1..v : log[i].type = t}

\* Work.manuscript_version.
Revision(v) == 1 + Cardinality(OfType("patched", v))

\* ReviewHistory.replay of the first v events.
Recorded(v) == {log[i].finding : i \in OfType("recorded", v)}
Decided(v) == {log[i].finding : i \in OfType("decided", v)}
DecisionIs(f, s, v) == \E i \in OfType("decided", v) : log[i].finding = f /\ log[i].status = s
Open(v) == Recorded(v) \ Decided(v)
Accepted(v) == {log[i].finding : i \in {j \in OfType("decided", v) : log[j].status = "accepted"}}

Corrected(v) == UNION {log[i].corrects : i \in OfType("patched", v)}

\* _analyze: what the correctors report on the text of version v.
Analysis(v) ==
  {<<x, Revision(v)>> : x \in Flaws[log[1].source][{f[1] : f \in Corrected(v)}]}

First(F) == CHOOSE f \in F : \A g \in F : f[1] <= g[1]

----------------------------------------------------------------------------
(* The call of a process *)

Idle == [pc |-> "idle", op |-> None, source |-> None, by |-> None, brought |-> <<>>,
         form |-> None, text |-> 0, work |-> 0, known |-> 0, left |-> {}]

Resting(d) == run[d].pc \in {"idle", "refused"}

Continue(d, r) == run' = [run EXCEPT ![d] = r]

\* An exception leaves the call; what was stored stays.
Refuse(d) ==
  /\ Continue(d, [Idle EXCEPT !.pc = "refused"])
  /\ UNCHANGED <<log, approval>>

\* A step that stores nothing.
Reads(d, r) == Continue(d, r) /\ UNCHANGED <<log, approval>>

Review(d, s, a) ==
  [Idle EXCEPT !.pc = "load", !.op = "review", !.source = s, !.by = a]
Prepare(d, s, a, decisions) ==
  [Review(d, s, a) EXCEPT !.op = "prepare", !.brought = decisions]
PublishWith(d, s, a, form) ==
  [Review(d, s, a) EXCEPT !.op = "publish", !.form = form]

\* The work of the whole stream, and its analysis.
Loaded(r) ==
  [r EXCEPT !.pc = IF r.op = "publish" THEN "check" ELSE "history",
            !.work = Len(log), !.text = Len(log)]

\* _load_or_ingest and _load_existing.
Load(d) ==
  /\ run[d].pc = "load"
  /\ LET r == run[d] IN
     \/ log = <<>> /\ r.op # "publish" /\ Reads(d, [r EXCEPT !.pc = "ingest"])
     \/ log = <<>> /\ r.op = "publish" /\ Refuse(d)
     \/ log # <<>> /\ log[1].source = r.source /\ Reads(d, Loaded(r))
     \/ log # <<>> /\ log[1].source # r.source /\ Refuse(d)

\* _ingest appends a first commit, which a stream that has one does not take.
Ingest(d) ==
  /\ run[d].pc = "ingest"
  /\ \/ /\ log = <<>>
        /\ log' = <<Ingested(run[d].source)>>
        /\ Continue(d, [run[d] EXCEPT !.pc = "ingested"])
        /\ UNCHANGED approval
     \/ log # <<>> /\ Refuse(d)

\* Work.replay(get_events) at the end of _ingest.
Reread(d) == run[d].pc = "ingested" /\ Reads(d, Loaded(run[d]))

----------------------------------------------------------------------------
(* _persist_findings *)

History(d) ==
  /\ run[d].pc = "history"
  /\ Reads(d, [run[d] EXCEPT !.pc = "record",
                             !.left = Analysis(run[d].text) \ Recorded(Len(log))])

\* One RecordReviewFindingCommand.  Its key names the finding: a command the
\* other process sent from the same version is answered from the stored commit.
Record(d) ==
  LET r == run[d]  f == First(r.left) IN
  /\ r.pc = "record" /\ r.left # {}
  /\ \/ \E i \in DOMAIN log :
          /\ log[i] = RecordedBy(f, r.by, r.work)
          /\ Reads(d, [r EXCEPT !.work = i, !.left = @ \ {f}])
     \/ /\ \A i \in DOMAIN log : log[i] # RecordedBy(f, r.by, r.work)
        /\ \/ f \in Recorded(Len(log))
           \/ r.work # Len(log)
           \/ f[2] # Revision(Len(log))
        /\ Refuse(d)
     \/ /\ f \notin Recorded(Len(log))
        /\ r.work = Len(log) /\ f[2] = Revision(Len(log))
        /\ log' = Append(log, RecordedBy(f, r.by, r.work))
        /\ Continue(d, [r EXCEPT !.work = Len(log) + 1, !.left = @ \ {f}])
        /\ UNCHANGED approval

\* The work is read back: a review has its result.
Reviewed(d) ==
  /\ run[d].pc = "record" /\ run[d].left = {}
  /\ Reads(d, [run[d] EXCEPT !.work = Len(log),
                             !.pc = IF run[d].op = "review" THEN "returned" ELSE "resolve"])

----------------------------------------------------------------------------
(* prepare: _resolve_decisions, _persist_decisions, _apply_accepted *)

\* Exactly the findings of this analysis, and then the history is read.
Resolve(d) ==
  /\ run[d].pc = "resolve"
  /\ LET r == run[d] IN
     \/ /\ DOMAIN r.brought = Analysis(r.text)
        /\ Reads(d, [r EXCEPT !.pc = "decide", !.known = Len(log), !.left = Analysis(r.text)])
     \/ DOMAIN r.brought # Analysis(r.text) /\ Refuse(d)

DecisionsBy(r, f) == DecidedBy(f, r.brought[f], r.by)

\* A stored decision is passed over whatever it says.
DecideOverAny(d) ==
  LET r == run[d]  f == First(r.left) IN
  /\ r.pc = "decide" /\ r.left # {}
  /\ IF f \in Decided(r.known) THEN Reads(d, [r EXCEPT !.left = @ \ {f}])
     ELSE IF f \in Decided(Len(log)) \/ r.work # Len(log) THEN Refuse(d)
     ELSE /\ log' = Append(log, DecisionsBy(r, f))
          /\ Continue(d, [r EXCEPT !.work = Len(log) + 1, !.left = @ \ {f}])
          /\ UNCHANGED approval

\* A decision made since the history was read is made once more.
DecideAgain(d) ==
  LET r == run[d]  f == First(r.left) IN
  /\ r.pc = "decide" /\ r.left # {}
  /\ IF f \in Decided(r.known) THEN Reads(d, [r EXCEPT !.left = @ \ {f}])
     ELSE /\ log' = Append(log, DecisionsBy(r, f))
          /\ Continue(d, [r EXCEPT !.work = Len(log) + 1, !.left = @ \ {f}])
          /\ UNCHANGED approval

\* One finding of _persist_decisions: a decision the history holds must be the
\* one that is brought; any other goes to the handler, whose command carries
\* the time of this call, so that a key used meanwhile is a key misused.
Decide(d) ==
  LET r == run[d]  f == First(r.left)
      known == \E i \in 1..r.known : log[i] = DecisionsBy(r, f)
      takes == /\ f \notin Decided(Len(log)) /\ f \in Recorded(Len(log))
               /\ r.work = Len(log) /\ f[2] = Revision(Len(log))
  IN
  /\ r.pc = "decide" /\ r.left # {}
  /\ \/ known /\ Reads(d, [r EXCEPT !.left = @ \ {f}])
     \/ ~known /\ ~takes /\ Refuse(d)
     \/ /\ ~known /\ takes
        /\ log' = Append(log, DecisionsBy(r, f))
        /\ Continue(d, [r EXCEPT !.work = Len(log) + 1, !.left = @ \ {f}])
        /\ UNCHANGED approval

AcceptedBy(r) == {f \in DOMAIN r.brought : r.brought[f] = "accepted"}

\* The work is read back; only accepted findings of its revision make a patch.
\* Corrections of one block may overlap: they go back to arbitration, and the
\* decisions that were stored stay.
Resolved(d) ==
  LET r == run[d]  A == AcceptedBy(r) IN
  /\ r.pc = "decide" /\ r.left = {}
  /\ \/ A = {} /\ Reads(d, [r EXCEPT !.pc = "returned", !.work = Len(log), !.known = 0])
     \/ /\ A # {} /\ \A f \in A : f[2] = Revision(Len(log))
        /\ Reads(d, [r EXCEPT !.pc = "patch", !.work = Len(log), !.known = 0])
     \/ /\ (\E f \in A : f[2] # Revision(Len(log))) \/ Cardinality(A) > 1
        /\ Refuse(d)

\* ApplyApprovedPatchCommand, under one key for every patch of the factory.
ApplyAccepted(d) ==
  LET r == run[d]
      takes == OfType("patched", Len(log)) = {} /\ r.work = Len(log)
  IN
  /\ r.pc = "patch"
  /\ \/ ~takes /\ Refuse(d)
     \/ /\ takes
        /\ log' = Append(log, Patched(AcceptedBy(r)))
        /\ Continue(d, [r EXCEPT !.pc = "reload"])
        /\ UNCHANGED approval

\* The version is counted instead of read.
PreparedAhead(d) ==
  /\ run[d].pc = "reload"
  /\ Reads(d, [run[d] EXCEPT !.pc = "returned", !.work = Len(log) + 1])

\* The version of the form is that of the work as it is read back.
Prepared(d) ==
  /\ run[d].pc = "reload"
  /\ Reads(d, [run[d] EXCEPT !.pc = "returned", !.work = Len(log)])

----------------------------------------------------------------------------
(* publish *)

\* EditionApprovalInput.approve: the form is about this very work.
Fits(form, v) == form.version = v /\ form.revision = Revision(v)

\* Open findings do not stop it.
CheckForm(d) ==
  /\ run[d].pc = "check"
  /\ LET r == run[d] IN
     IF Fits(r.form, r.work) THEN Reads(d, [r EXCEPT !.pc = "save"]) ELSE Refuse(d)

\* The history is read again, after the work.
Check(d) ==
  /\ run[d].pc = "check"
  /\ LET r == run[d]
         may == Open(Len(log)) = {} /\ Fits(r.form, r.work)
     IN \/ may /\ Reads(d, [r EXCEPT !.pc = "save"])
        \/ ~may /\ Refuse(d)

\* The stored approval is replaced.
SaveOver(d) ==
  /\ run[d].pc = "save"
  /\ approval' = run[d].form
  /\ Continue(d, [run[d] EXCEPT !.pc = "returned"])
  /\ UNCHANGED log

\* save_edition_approval; the projection and the renderers, which may raise,
\* come after it and change nothing.
Save(d) ==
  /\ run[d].pc = "save"
  /\ \/ /\ approval \in {None, run[d].form}
        /\ approval' = run[d].form
        /\ \/ Continue(d, [run[d] EXCEPT !.pc = "returned"])
           \/ Continue(d, [Idle EXCEPT !.pc = "refused"])
        /\ UNCHANGED log
     \/ approval \notin {None, run[d].form} /\ Refuse(d)

----------------------------------------------------------------------------

FactoryInit ==
  /\ log = <<>>
  /\ approval = None
  /\ run = [d \in Desk |-> Idle]

FactoryStep(d) ==
  \/ Load(d) \/ Ingest(d) \/ Reread(d)
  \/ History(d) \/ Record(d) \/ Reviewed(d)
  \/ Resolve(d) \/ Decide(d) \/ Resolved(d) \/ ApplyAccepted(d) \/ Prepared(d)
  \/ Check(d) \/ Save(d)

=============================================================================
