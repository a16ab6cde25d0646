----------------------------- MODULE Corrections -----------------------------
(***************************************************************************)
(* The passes that turn accepted findings into one Patch, the gate the     *)
(* Patch waits at, and its application, while other commands go on         *)
(* changing the work.                                                      *)
(*                                                                         *)
(* A text is a sequence of characters.  A finding is about a span of one   *)
(* block; what SequenceMatcher makes of its evidence and its proposal is   *)
(* given with it, as the edits that lead from the one to the other: each   *)
(* replaces the characters after position start up to position end.        *)
(***************************************************************************)
EXTENDS Integers, Sequences, FiniteSets, SequencesExt, Ordering

CONSTANTS
  Chapter,      \* blocks of the work, numbered in reading order
  Manuscript,   \* the texts it may have: functions from Chapter
  Round,        \* the accepted findings that are brought to the pass together
  Rewriting,    \* what another editor may make of a block
  None

VARIABLES
  work,         \* [text, version, revision] as it is stored
  seen,         \* the work the findings were made on
  round,        \* AcceptedFindingDecisions, in the order they are brought
  patch,        \* the proposed Patch, or None
  gate,         \* the status of its ApprovalGate, or None
  outcome       \* "open", "refused" or "applied"

correctionVars == <<work, seen, round, patch, gate, outcome>>

\* One opcode that is not "equal".
Edit(start, end, inserted) == [start |-> start, end |-> end, inserted |-> inserted]

\* A finding with its decision; about is the revision both were made at, accepted
\* tells whether the decision accepts this very finding, proposed whether it has its
\* span and one proposal, spread whether it is about other blocks too.
Item(block, start, end, evidence, edits, about, accepted) ==
  [block |-> block, start |-> start, end |-> end, evidence |-> evidence,
   edits |-> edits, about |-> about, accepted |-> accepted, proposed |-> TRUE, spread |-> FALSE]

\* Positions are inside the text, in order.  A round holds findings of the first
\* revision or of an earlier one; difflib finds finitely many edits.
Edits == {e \in [start : Nat, end : Nat, inserted : Seq(Nat)] : e.start <= e.end}
Items ==
  {item \in [block : Chapter, start : Nat, end : Nat, evidence : Seq(Nat), edits : SUBSET Edits,
             about : 0..1, accepted : BOOLEAN, proposed : BOOLEAN, spread : BOOLEAN] :
     \A e \in item.edits : item.start <= e.start /\ e.end <= item.end}

ASSUME CorrectionsAssumption ==
  /\ Manuscript \subseteq [Chapter -> Seq(Nat)]
  /\ Rewriting \subseteq Seq(Nat)
  /\ Round \subseteq Seq(Items)
  /\ \A r \in Round : IsFiniteSet(UNION {r[i].edits : i \in DOMAIN r})
  /\ None \notin {"pending", "approved", "rejected"}

Slice(text, start, end) == SubSeq(text, start + 1, end)

\* sorted(..., key=(start, end, inserted)); characters are numbers.
Alphabetical(s, t) ==
  \E n \in 1..Len(t) :
    /\ n <= Len(s) + 1 /\ \A m \in 1..(n-1) : s[m] = t[m]
    /\ n > Len(s) \/ s[n] < t[n]

ComesBefore(e, f) ==
  \/ e.start < f.start
  \/ e.start = f.start /\ e.end < f.end
  \/ e.start = f.start /\ e.end = f.end /\ Alphabetical(e.inserted, f.inserted)

Sorted(E) == SortedBy(E, {p \in E \X E : ComesBefore(p[1], p[2])})

Splice(text, e) == Slice(text, 0, e.start) \o e.inserted \o Slice(text, e.end, Len(text))

\* From the first edit to the last.
ForwardEdits(text, E) ==
  LET edits == Sorted(E)
      upTo[i \in 0..Len(edits)] == IF i = 0 THEN text ELSE Splice(upTo[i-1], edits[i])
  IN upTo[Len(edits)]

\* From the last edit to the first, so that positions stay what they were.
ApplyEdits(text, E) ==
  LET edits == Sorted(E)
      from[i \in 1..(Len(edits) + 1)] ==
        IF i > Len(edits) THEN text ELSE Splice(from[i+1], edits[i])
  IN from[1]

\* Only edits of the same place.
SamePlace(E) ==
  \E e, f \in E : e # f /\ e.start = f.start /\ e.end = f.end /\ e.start < e.end

\* Some edit starts before the end of the one before it.
Overlap(E) ==
  LET edits == Sorted(E)
  IN \E i \in 2..Len(edits) : edits[i].start < edits[i-1].end

\* Equal edits of two findings are one.
EditsOf(items, b) == UNION {items[i].edits : i \in {j \in DOMAIN items : items[j].block = b}}
TouchedBlocks(items) == {items[i].block : i \in DOMAIN items}

----------------------------------------------------------------------------

Refuse == outcome' = "refused" /\ UNCHANGED <<work, seen, round, patch, gate>>

\* The text of the evidence is still there, whatever else became of the work.
HoldsEvidence(item) ==
  /\ item.accepted /\ item.proposed
  /\ Slice(work.text[item.block], item.start, item.end) = item.evidence

\* The finding was accepted, has one proposal, and is about this revision and this
\* text.  (A block that was deleted since makes another revision.)
Holds(item) ==
  /\ item.accepted
  /\ item.about = work.revision
  /\ item.proposed
  /\ Slice(work.text[item.block], item.start, item.end) = item.evidence

\* Each block is corrected by itself; one that cannot be stops them all.
Corrected(items) == [b \in TouchedBlocks(items) |-> ApplyEdits(work.text[b], EditsOf(items, b))]

Propose(before, after) ==
  /\ patch' = [before |-> before, after |-> after, source |-> work.version]
  /\ gate' = "pending"
  /\ UNCHANGED <<work, seen, round, outcome>>

BlocksBefore(B) == [b \in B |-> work.text[b]]

\* ApprovedFindingCorrectionsPass.propose, and ApprovalGate.for_patch.  There is no
\* pass without findings.
ProposeCorrections ==
  LET B == TouchedBlocks(round)
      may == round # <<>> /\ \A i \in DOMAIN round : Holds(round[i])
  IN
  /\ outcome = "open" /\ patch = None
  /\ \/ ~may /\ Refuse
     \/ may /\ (\E b \in B : Overlap(EditsOf(round, b))) /\ Refuse
     \/ /\ may /\ ~(\E b \in B : Overlap(EditsOf(round, b)))
        /\ IF \E b \in B : Corrected(round)[b] = work.text[b]
           THEN Refuse
           ELSE Propose(BlocksBefore(B), Corrected(round))

\* FindingDrivenBlockEditPass.propose: one accepted finding about one block, and the
\* whole new text of the block.
ProposeFromFinding ==
  /\ outcome = "open" /\ patch = None /\ Len(round) = 1
  /\ \E text \in Rewriting :
       LET item == round[1]
           may == item.accepted /\ item.about = work.revision /\ ~item.spread
       IN
       \/ ~may /\ Refuse
       \/ may /\ work.text[item.block] = text /\ Refuse
       \/ /\ may /\ work.text[item.block] # text
          /\ Propose(BlocksBefore({item.block}), [b \in {item.block} |-> text])

\* DeterministicBlockEditPass.propose: no finding at all.
ProposeBlockEdit ==
  /\ outcome = "open" /\ patch = None /\ round = <<>>
  /\ \E b \in Chapter, text \in Rewriting :
       \/ work.text[b] = text /\ Refuse
       \/ work.text[b] # text /\ Propose(BlocksBefore({b}), [c \in {b} |-> text])

\* approve and reject: a gate that was resolved stays so.
DecideGate ==
  /\ gate = "pending"
  /\ gate' \in {"approved", "rejected"}
  /\ UNCHANGED <<work, seen, round, patch, outcome>>

\* ApplyApprovedPatchHandler: every operation, or none.
ApplyPatch ==
  /\ outcome = "open" /\ gate = "approved"
  /\ \/ /\ patch.source # work.version \/ \E b \in DOMAIN patch.before : work.text[b] # patch.before[b]
        /\ Refuse
     \/ /\ patch.source = work.version
        /\ \A b \in DOMAIN patch.before : work.text[b] = patch.before[b]
        /\ work' = [text |-> [b \in Chapter |-> IF b \in DOMAIN patch.after THEN patch.after[b]
                                                ELSE work.text[b]],
                    version |-> work.version + 1, revision |-> work.revision + 1]
        /\ outcome' = "applied"
        /\ UNCHANGED <<seen, round, patch, gate>>

\* Another editor edits a block, once.
EditBlock ==
  /\ outcome = "open" /\ work.revision = seen.revision
  /\ \E b \in Chapter, text \in Rewriting :
       work' = [work EXCEPT !.text[b] = text, !.version = @ + 1, !.revision = @ + 1]
  /\ UNCHANGED <<seen, round, patch, gate, outcome>>

\* An event that leaves the manuscript alone (a decision, a dependency), once.
Annotate ==
  /\ outcome = "open" /\ work.version = seen.version
  /\ work' = [work EXCEPT !.version = @ + 1]
  /\ UNCHANGED <<seen, round, patch, gate, outcome>>

CorrectionsInit ==
  /\ \E text \in Manuscript : work = [text |-> text, version |-> 1, revision |-> 1]
  /\ seen = work
  /\ round \in Round
  /\ \A i \in DOMAIN round :
       /\ round[i].end <= Len(work.text[round[i].block])
       /\ Slice(work.text[round[i].block], round[i].start, round[i].end) = round[i].evidence
  /\ patch = None /\ gate = None /\ outcome = "open"

CorrectionsNext ==
  \/ ProposeCorrections \/ ProposeFromFinding \/ ProposeBlockEdit
  \/ DecideGate \/ ApplyPatch
  \/ EditBlock \/ Annotate

CorrectionsSpec == CorrectionsInit /\ [][CorrectionsNext]_correctionVars

----------------------------------------------------------------------------
(* Properties *)

\* The text as a reader of the accepted edits would write it: every character stands
\* that no edit replaces, every insertion stands where its edit begins.
Written(text, E) ==
  LET at(p) ==
        FlattenSeq([i \in DOMAIN Sorted({e \in E : e.start = p}) |->
                      Sorted({e \in E : e.start = p})[i].inserted])
        kept(p) == IF p = Len(text) \/ \E e \in E : e.start <= p /\ p < e.end
                   THEN <<>> ELSE <<text[p + 1]>>
  IN FlattenSeq([p \in 1..(Len(text) + 1) |-> at(p - 1) \o kept(p - 1)])

\* Edits that replace a character in common, or insert inside what another replaces.
Meet(e, f) == e # f /\ e.start < f.end /\ f.start < e.end

FromFindings == patch # None /\ Len(round) > 1

\* A round of corrections has the text its edits describe, on the text that was
\* reviewed, whatever their number, order and positions: no correction moves
\* another, none is lost or done twice, and nothing else changes.
CorrectedAsAccepted ==
  FromFindings =>
    \A b \in Chapter :
      IF b \in DOMAIN patch.after
      THEN patch.after[b] = Written(seen.text[b], EditsOf(round, b))
      ELSE EditsOf(round, b) = {}

\* Accepted corrections that meet are never merged: they go back to the editor.
ArbitratedNotMerged ==
  FromFindings =>
    \A b \in Chapter : \A e, f \in EditsOf(round, b) : ~Meet(e, f)

\* What is applied was decided on the text it is applied to: between diagnosis,
\* proposal, approval and application nobody changed a character, and a patch made
\* from findings was applied for accepted ones alone.
AppliedToTheReviewedText ==
  [][outcome' = "applied" /\ outcome # "applied" =>
       /\ \A b \in DOMAIN patch.before : work.text[b] = patch.before[b]
       /\ round # <<>> => work.text = seen.text /\ \A i \in DOMAIN round : round[i].accepted
     ]_correctionVars

==============================================================================
