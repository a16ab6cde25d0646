---------------------------- MODULE FactoryProofs ----------------------------
(***************************************************************************)
(* What the runs check of the private factory and its desks, for any       *)
(* number of desks, sources, flaws, actors and scenarios.                  *)
(*                                                                         *)
(* The invariant says what a call in hand knows of the stored events, and  *)
(* that what it knows stays true while the log grows: a log only grows by  *)
(* one event at a time, and every fact a desk relies on is about a prefix  *)
(* of it, or is a fact that no later event takes back.                     *)
(***************************************************************************)
EXTENDS FactoryDesks, SequenceLemmas, FiniteSetTheorems, TLAPS

Event ==
  [type : {"ingested"}, source : Source]
  \cup [type : {"recorded"}, finding : Finding, by : Actor, expected : Nat]
  \cup [type : {"decided"}, finding : Finding, status : Status, by : Actor]
  \cup [type : {"patched"}, corrects : SUBSET Finding]

Form == [version : Nat, revision : Nat, stamp : Nat]
TemplateForm == [version : Nat, revision : Nat, approved : BOOLEAN]
Decisions == UNION {[F -> Status] : F \in SUBSET Finding}
List == [entries : (SUBSET Finding) \cup SUBSET (Finding \X Status)]
FileValue == List \cup TemplateForm \cup Nat \cup {None, Torn}

PC == {"idle", "refused", "load", "ingest", "ingested", "history", "record",
       "resolve", "decide", "patch", "reload", "check", "save", "returned"} \cup FileName

\* The places where a call has a stream before it, where it has a work in hand, and
\* where the factory has answered.
Started == PC \ {"idle", "refused", "load", "ingest"}
Located == Started \ {"ingested"}
Answered == {"returned"} \cup FileName

CallType ==
  [pc : PC, op : Operation \cup {None}, source : Source \cup {None}, by : Actor \cup {None},
   brought : Decisions, form : Form \cup {None}, text : Nat, work : Nat, known : Nat,
   left : SUBSET Finding]

\* What a list of findings, or of decisions, is.
LEMMA ListsAre ==
  ASSUME NEW S, S \in SUBSET Finding \/ S \in SUBSET (Finding \X Status)
  PROVE  [entries |-> S] \in List
<1> DEFINE X == SUBSET Finding
           Y == SUBSET (Finding \X Status)
<1>1. S \in X \cup Y
  OBVIOUS
<1> HIDE DEF X, Y
<1>2. [entries |-> S] \in [entries : X \cup Y]
  BY <1>1
<1>3. List = [entries : X \cup Y]
  BY DEF List, X, Y
<1> QED BY <1>2, <1>3

----------------------------------------------------------------------------
(* The invariant *)

\* What the correctors report on a text as it was ingested.
FirstFlaws(s) == Flaws[s][{}]

\* The stored events: the findings of the first round are flaws of the ingested
\* text, and it is patched once.
LogInv ==
  /\ log \in Seq(Event)
  /\ HistoryReplays
  /\ \A i \in OfType("recorded", Len(log)) :
       log[i].finding[2] = 1 => log[i].finding[1] \in FirstFlaws(log[1].source)
  /\ \A i, j \in OfType("patched", Len(log)) : i = j
  /\ PatchesApplyWhatWasAccepted

\* A form that a desk may have completed.
FormStands(f) ==
  /\ f \in Form
  /\ f.version \in 1..Len(log)
  /\ f.revision = Revision(f.version)
  /\ Unapplied(f.version) = {}

ApprovalInv ==
  approval # None => FormStands(approval) /\ Recorded(approval.version) \subseteq Decided(Len(log))

\* Where a call may be.
Placed(r) ==
  /\ r.pc \in Started => log # <<>>
  /\ r.pc \in Located => r.text \in 1..Len(log) /\ r.work \in 1..Len(log)
  /\ r.known \in 0..Len(log) /\ r.text \in 0..Len(log) /\ r.work \in 0..Len(log)
  /\ r.pc \notin {"idle", "refused"} => r.op \in Operation /\ r.source \in Source /\ r.by \in Actor
  /\ r.pc \in {"check", "save"} => r.op = "publish"
  /\ r.pc \in {"ingest", "ingested", "history", "record"} => r.op \in {"review", "prepare"}
  /\ r.pc \in {"resolve", "decide", "patch", "reload"} => r.op = "prepare"

\* What it has recorded.
Records(r) ==
  /\ r.pc = "record" => /\ r.left \subseteq Analysis(r.text)
                        /\ Analysis(r.text) \ r.left \subseteq Recorded(Len(log))
  /\ r.pc = "resolve" \/ (r.op = "review" /\ r.pc \in Answered) =>
       Analysis(r.text) \subseteq Recorded(Len(log))

\* What it has decided.
Decides(r) ==
  r.pc \in {"decide", "patch", "reload"} \/ (r.op = "prepare" /\ r.pc \in Answered) =>
    /\ DOMAIN r.brought = Analysis(r.text)
    /\ r.left \subseteq DOMAIN r.brought
    /\ r.pc # "decide" => r.left = {}
    /\ \A f \in DOMAIN r.brought \ r.left : DecisionIs(f, r.brought[f], Len(log))

\* What it has applied.
Applies(r) ==
  /\ r.pc = "patch" => \A f \in AcceptedBy(r) : f[2] = Revision(r.work)
  /\ r.pc = "reload" => OfType("patched", Len(log)) # {}
  /\ r.op = "prepare" /\ r.pc \in Answered => Unapplied(r.work) = {}

\* What it publishes.
Publishes(r) ==
  r.op = "publish" =>
    /\ r.pc # "idle" /\ r.pc # "refused" => FormStands(r.form)
    /\ r.pc = "save" => r.form.version = r.work /\ Recorded(r.work) \subseteq Decided(Len(log))
    /\ r.pc \in Answered => approval # None /\ approval.version = r.work

CallGood(r) == Placed(r) /\ Records(r) /\ Decides(r) /\ Applies(r) /\ Publishes(r)

\* The file that is written is one of the operation, and those before it are there.
WriteGood(d, r, F) ==
  r.pc \in FileName =>
    \E k \in DOMAIN FilesOf(d, r.op) :
      /\ r.pc = FilesOf(d, r.op)[k]
      /\ r.op = "publish" => \A j \in 1..(k-1) : F[FilesOf(d, r.op)[j]] # None

\* The files of a desk.
PapersGood(F) ==
  /\ F["findings"] \notin {None, Torn} => F["findings"].entries \subseteq Recorded(Len(log))
  /\ F["decisions"] \notin {None, Torn} =>
       \A e \in F["decisions"].entries : DecisionIs(e[1], e[2], Len(log))
  /\ F["template"] \notin {None, Torn} =>
       /\ F["template"] \in TemplateForm
       /\ F["template"].version \in 1..Len(log)
       /\ F["template"].revision = Revision(F["template"].version)
       /\ Unapplied(F["template"].version) = {}
       /\ F["template"].approved => approval # None /\ approval.version = F["template"].version
  /\ \A i \in 1..5 : F[Exports[i]] # None =>
       /\ approval # None /\ F[Exports[i]] \in {Torn, approval.version}
       /\ \A j \in 1..(i-1) : F[Exports[j]] # None

SignedGood(g) == g # None => FormStands(g)

DeskTypes ==
  /\ run \in [Desk -> CallType]
  /\ files \in [Desk -> [FileName -> FileValue]]
  /\ signed \in [Desk -> Form \cup {None}]
  /\ approval \in Form \cup {None}
  /\ clicks \in Nat /\ crashes \in Nat /\ scenario \in Scenario

DeskGood ==
  \A d \in Desk : /\ CallGood(run[d]) /\ WriteGood(d, run[d], files[d])
                  /\ PapersGood(files[d]) /\ SignedGood(signed[d])

FactoryInv == DeskTypes /\ LogInv /\ ApprovalInv /\ DeskGood

----------------------------------------------------------------------------
(* The stored events while the log grows *)

Grows == log' = log \/ \E e \in Event : log' = Append(log, e)

\* A grown log is one, and agrees with what it was.
LEMMA GrownLog ==
  ASSUME log \in Seq(Event), Grows
  PROVE  /\ log' \in Seq(Event) /\ Len(log) \in Nat /\ Len(log') \in Nat /\ Len(log) <= Len(log')
         /\ \A i \in 1..Len(log) : log'[i] = log[i]
BY DEF Grows

\* What was derived from a prefix stays what it is.
LEMMA PrefixStays ==
  ASSUME log \in Seq(Event), Grows
  PROVE  \A v \in 0..Len(log) :
           /\ \A t : OfType(t, v)' = OfType(t, v)
           /\ Revision(v)' = Revision(v)
           /\ Recorded(v)' = Recorded(v) /\ Decided(v)' = Decided(v)
           /\ Accepted(v)' = Accepted(v) /\ Corrected(v)' = Corrected(v)
           /\ Unapplied(v)' = Unapplied(v)
           /\ \A f, s : DecisionIs(f, s, v)' <=> DecisionIs(f, s, v)
<1> TAKE v \in 0..Len(log)
<1>1. Len(log) \in Nat /\ \A i \in 1..v : log'[i] = log[i]
  BY GrownLog
<1>2. \A t : OfType(t, v)' = OfType(t, v) /\ OfType(t, v) \subseteq 1..v
  BY <1>1 DEF OfType
<1>3. Revision(v)' = Revision(v)
  BY <1>2 DEF Revision
<1>4. Recorded(v)' = Recorded(v) /\ Decided(v)' = Decided(v)
  BY <1>1, <1>2 DEF Recorded, Decided
<1>5. Accepted(v)' = Accepted(v)
  BY <1>1, <1>2 DEF Accepted
<1>6. Corrected(v)' = Corrected(v)
  BY <1>1, <1>2 DEF Corrected
<1>7. Unapplied(v)' = Unapplied(v)
  BY <1>5, <1>6 DEF Unapplied
<1>8. \A f, s : DecisionIs(f, s, v)' <=> DecisionIs(f, s, v)
  BY <1>1, <1>2 DEF DecisionIs
<1> QED BY <1>2, <1>3, <1>4, <1>5, <1>6, <1>7, <1>8

\* The analysis of a version is that of the same text for ever.
LEMMA AnalysisStays ==
  ASSUME log \in Seq(Event), Grows, log # <<>>
  PROVE  /\ log'[1] = log[1]
         /\ \A v \in 0..Len(log) : Analysis(v)' = Analysis(v)
<1>1. log'[1] = log[1]
  BY GrownLog
<1>2. \A v \in 0..Len(log) : Revision(v)' = Revision(v) /\ Corrected(v)' = Corrected(v)
  BY PrefixStays
<1> QED BY <1>1, <1>2 DEF Analysis

\* What is recorded or decided stays so.
LEMMA NothingUndone ==
  ASSUME log \in Seq(Event), Grows
  PROVE  /\ Recorded(Len(log)) \subseteq Recorded(Len(log))'
         /\ Decided(Len(log)) \subseteq Decided(Len(log))'
         /\ \A f, s : DecisionIs(f, s, Len(log)) => DecisionIs(f, s, Len(log))'
         /\ \A t : OfType(t, Len(log)) \subseteq OfType(t, Len(log))'
<1>1. /\ Len(log) \in Nat /\ Len(log') \in Nat /\ Len(log) <= Len(log')
      /\ \A i \in 1..Len(log) : log'[i] = log[i]
  BY GrownLog
<1>2. \A t : OfType(t, Len(log)) \subseteq OfType(t, Len(log))' /\ OfType(t, Len(log)) \subseteq 1..Len(log)
  BY <1>1 DEF OfType
<1> QED BY <1>1, <1>2 DEF Recorded, Decided, DecisionIs

\* A prefix holds no more than the whole.
LEMMA PrefixHoldsLess ==
  ASSUME NEW w \in Nat, NEW v \in 0..w
  PROVE  Recorded(v) \subseteq Recorded(w) /\ Decided(v) \subseteq Decided(w)
<1>1. \A t : OfType(t, v) \subseteq OfType(t, w)
  BY DEF OfType
<1> QED BY <1>1 DEF Recorded, Decided

\* The types of what is derived.
LEMMA Derived ==
  ASSUME log \in Seq(Event), NEW v \in 0..Len(log)
  PROVE  /\ \A t : OfType(t, v) \subseteq 1..v
         /\ Revision(v) \in Nat \ {0}
         /\ Recorded(v) \subseteq Finding /\ Decided(v) \subseteq Finding
<1>1. v \in Nat /\ Len(log) \in Nat /\ \A t : OfType(t, v) \subseteq 1..v
  BY DEF OfType
<1>2. IsFiniteSet(OfType("patched", v))
  <2>1. IsFiniteSet(1..v)
    BY <1>1, FS_Interval
  <2> QED BY <1>1, <2>1, FS_Subset
<1>3. Revision(v) \in Nat \ {0}
  BY <1>2, FS_CardinalityType DEF Revision
<1>4. \A i \in 1..v : log[i] \in Event
  BY <1>1
<1>5. Recorded(v) \subseteq Finding
  BY <1>1, <1>4 DEF Recorded, OfType, Event
<1>6. Decided(v) \subseteq Finding
  BY <1>1, <1>4 DEF Decided, OfType, Event
<1> QED BY <1>1, <1>3, <1>5, <1>6

\* A text that was never patched has revision 1; one patched once has revision 2.
LEMMA RevisionIs ==
  ASSUME NEW v \in Nat
  PROVE  /\ OfType("patched", v) = {} => Revision(v) = 1
         /\ \A i : OfType("patched", v) = {i} => Revision(v) = 2
<1> DEFINE P == OfType("patched", v)
<1>1. Cardinality({}) = 0 /\ \A i : Cardinality({i}) = 1
  BY FS_EmptySet, FS_Singleton
<1>2. P = {} => Cardinality(P) = 0
  BY <1>1
<1>3. ASSUME NEW i, P = {i} PROVE Cardinality(P) = 1
  BY <1>1, <1>3, Zenon
<1>4. Revision(v) = 1 + Cardinality(P)
  BY DEF Revision
<1> HIDE DEF P
<1>5. P = {} => Revision(v) = 1
  BY <1>2, <1>4
<1>6. (\E i : P = {i}) => Revision(v) = 2
  BY <1>3, <1>4
<1> QED BY <1>5, <1>6, Zenon DEF P

\* One more event.
LEMMA Added ==
  ASSUME log \in Seq(Event), NEW e \in Event, log' = Append(log, e)
  PROVE  /\ Grows /\ log' \in Seq(Event) /\ Len(log) \in Nat /\ Len(log') = Len(log) + 1
         /\ log'[Len(log) + 1] = e /\ \A i \in 1..Len(log) : log'[i] = log[i]
         /\ \A t : OfType(t, Len(log))' =
                     OfType(t, Len(log)) \cup (IF e.type = t THEN {Len(log) + 1} ELSE {})
         /\ e.type # "patched" => Revision(Len(log))' = Revision(Len(log))
<1>1. /\ Grows /\ log' \in Seq(Event) /\ Len(log) \in Nat /\ Len(log') = Len(log) + 1
      /\ log'[Len(log) + 1] = e /\ \A i \in 1..Len(log) : log'[i] = log[i]
  BY DEF Grows
<1>2. \A t : OfType(t, Len(log))' =
               OfType(t, Len(log)) \cup (IF e.type = t THEN {Len(log) + 1} ELSE {})
  BY <1>1 DEF OfType
<1>3. e.type # "patched" => OfType("patched", Len(log))' = OfType("patched", Len(log))
  BY <1>2
<1>4. e.type # "patched" => Revision(Len(log))' = Revision(Len(log))
  BY <1>3 DEF Revision
<1> QED BY <1>1, <1>2, <1>4

\* The history replays with a finding that was not recorded, or a decision on one
\* that was not decided, of the text as it is.
LEMMA HistoryGrows ==
  ASSUME log \in Seq(Event), HistoryReplays, NEW e \in Event, log' = Append(log, e),
         e.type = "ingested" <=> log = <<>>,
         e.type = "recorded" => /\ e.finding \notin Recorded(Len(log))
                                /\ e.finding[2] = Revision(Len(log)),
         e.type = "decided" => /\ e.finding \in Recorded(Len(log)) \ Decided(Len(log))
                               /\ e.finding[2] = Revision(Len(log))
  PROVE  HistoryReplays'
<1>0. PICK n \in Nat : n = Len(log)
  OBVIOUS
<1>1. /\ Grows /\ log' \in Seq(Event) /\ n \in Nat /\ Len(log') = n + 1
      /\ log'[n+1] = e /\ \A i \in 1..n : log'[i] = log[i]
      /\ e.type # "patched" => Revision(n+1)' = Revision(n)
  <2>1. /\ Grows /\ log' \in Seq(Event) /\ Len(log') = n + 1
        /\ log'[n+1] = e /\ \A i \in 1..n : log'[i] = log[i]
        /\ e.type # "patched" => Revision(Len(log))' = Revision(Len(log))
    BY <1>0, Added
  <2> QED BY <1>0, <2>1
<1>2. \A v \in 0..n : /\ Recorded(v)' = Recorded(v) /\ Decided(v)' = Decided(v)
                      /\ Revision(v)' = Revision(v)
  BY <1>0, <1>1, PrefixStays
<1>3. DOMAIN log' = 1..(n+1) /\ DOMAIN log = 1..n
  BY <1>0, <1>1
<1> SUFFICES ASSUME NEW i \in 1..(n+1)
             PROVE  /\ log'[i].type = "ingested" <=> i = 1
                    /\ log'[i].type = "recorded" =>
                         log'[i].finding \notin Recorded(i - 1)' /\ log'[i].finding[2] = Revision(i)'
                    /\ log'[i].type = "decided" =>
                         /\ log'[i].finding \in Recorded(i - 1)' \ Decided(i - 1)'
                         /\ log'[i].finding[2] = Revision(i)'
  BY <1>3 DEF HistoryReplays
<1>4. CASE i \in 1..n
  <2>1. i - 1 \in 0..n /\ i \in 0..n
    BY <1>1, <1>4
  <2>2. log'[i] = log[i] /\ Revision(i)' = Revision(i)
        /\ Recorded(i-1)' = Recorded(i-1) /\ Decided(i-1)' = Decided(i-1)
    BY <1>1, <1>2, <1>4, <2>1
  <2> QED BY <1>3, <1>4, <2>2 DEF HistoryReplays
<1>5. CASE i = n + 1
  <2>1. i - 1 = n /\ n \in 0..n /\ (i = 1 <=> log = <<>>)
    BY <1>0, <1>1, <1>5
  <2>2. log'[i] = e /\ Recorded(i-1)' = Recorded(n) /\ Decided(i-1)' = Decided(n)
        /\ (e.type # "patched" => Revision(i)' = Revision(n))
    BY <1>1, <1>2, <1>5, <2>1
  <2> QED BY <1>0, <2>1, <2>2
<1> QED BY <1>1, <1>4, <1>5

\* A finding is decided once.
LEMMA DecidedOnce ==
  ASSUME log \in Seq(Event), HistoryReplays,
         NEW i \in OfType("decided", Len(log)), NEW j \in OfType("decided", Len(log)),
         log[i].finding = log[j].finding
  PROVE  i = j
<1>1. \A k, m \in OfType("decided", Len(log)) : k < m => log[k].finding # log[m].finding
  <2> TAKE k, m \in OfType("decided", Len(log))
  <2> HAVE k < m
  <2>1. k \in 1..Len(log) /\ m \in 1..Len(log) /\ Len(log) \in Nat
        /\ log[k].type = "decided" /\ log[m].type = "decided"
    BY DEF OfType
  <2>2. log[m].finding \notin Decided(m - 1)
    BY <2>1 DEF HistoryReplays
  <2>3. k \in OfType("decided", m - 1)
    BY <2>1 DEF OfType
  <2> QED BY <2>2, <2>3 DEF Decided
<1>2. i \in Nat /\ j \in Nat
  BY DEF OfType
<1> QED BY <1>1, <1>2

\* While the text was not patched, what was accepted is in the analysis of any
\* version of it.
LEMMA AcceptedIsAnalysed ==
  ASSUME LogInv, OfType("patched", Len(log)) = {}, NEW v \in 1..Len(log),
         NEW f \in Accepted(Len(log))
  PROVE  f \in Analysis(v) /\ f[2] = 1
<1> DEFINE n == Len(log)
<1>1. n \in Nat /\ log \in Seq(Event) /\ HistoryReplays
  BY DEF LogInv
<1>2. PICK j \in 1..n : log[j].type = "decided" /\ log[j].finding = f
  BY DEF Accepted, OfType
<1>3. f \in Recorded(j - 1) /\ f[2] = Revision(j)
  BY <1>1, <1>2 DEF HistoryReplays
<1>4. \A k \in 0..n : OfType("patched", k) = {}
  BY <1>1 DEF OfType
<1>5. Revision(j) = 1 /\ Revision(v) = 1
  BY <1>1, <1>4, RevisionIs
<1>6. PICK i \in 1..n : log[i].type = "recorded" /\ log[i].finding = f
  BY <1>1, <1>2, <1>3 DEF Recorded, OfType
<1>7. f \in Finding /\ f[1] \in FirstFlaws(log[1].source)
  <2>1. log[i] \in Event
    BY <1>1, <1>6
  <2>2. f \in Finding
    BY <1>6, <2>1 DEF Event
  <2>3. i \in OfType("recorded", n)
    BY <1>6 DEF OfType
  <2>4. f[2] = 1
    BY <1>3, <1>5
  <2> QED BY <1>6, <2>2, <2>3, <2>4 DEF LogInv
<1>8. {g[1] : g \in Corrected(v)} = {}
  BY <1>1, <1>4 DEF Corrected
<1>9. f = <<f[1], 1>>
  BY <1>3, <1>5, <1>7 DEF Finding
<1> QED BY <1>3, <1>5, <1>7, <1>8, <1>9 DEF Analysis, FirstFlaws

\* A patch leaves no accepted correction of the first text out, for good.
LEMMA PatchedIsApplied ==
  ASSUME LogInv, NEW v \in 1..Len(log), OfType("patched", v) # {}
  PROVE  Unapplied(v) = {}
<1> DEFINE n == Len(log)
<1>1. n \in Nat /\ log \in Seq(Event) /\ HistoryReplays
  BY DEF LogInv
<1>2. PICK i \in 1..v : log[i].type = "patched" /\ i \in OfType("patched", v)
  BY DEF OfType
<1>3. i \in OfType("patched", n) /\ log[i].corrects = {f \in Accepted(i) : f[2] = Revision(i - 1)}
  <2>1. i \in OfType("patched", n)
    BY <1>1, <1>2 DEF OfType
  <2> QED BY <2>1 DEF LogInv, PatchesApplyWhatWasAccepted
<1>4. \A k \in 0..n : OfType("patched", k) = IF k < i THEN {} ELSE {i}
  <2>1. \A k \in 1..n : log[k].type = "patched" <=> k = i
    BY <1>1, <1>2, <1>3 DEF LogInv, OfType
  <2> QED BY <1>1, <1>2, <2>1 DEF OfType
<1>5. Revision(i - 1) = 1
  BY <1>1, <1>2, <1>4, RevisionIs
<1> SUFFICES ASSUME NEW f \in Accepted(v), f[2] = 1 PROVE f \in Corrected(v)
  BY DEF Unapplied
<1>6. PICK j \in 1..v : /\ log[j].type = "decided" /\ log[j].status = "accepted"
                        /\ log[j].finding = f
  BY DEF Accepted, OfType
<1>7. Revision(j) = 1
  BY <1>1, <1>6 DEF HistoryReplays
<1>8. j < i
  <2>1. ~(j < i) => Revision(j) = 2
    <3>1. ~(j < i) => OfType("patched", j) = {i}
      BY <1>1, <1>4, <1>6
    <3>2. j \in Nat
      BY <1>6
    <3> QED BY <3>1, <3>2, RevisionIs, Zenon
  <2> QED BY <1>7, <2>1
<1>9. f \in Accepted(i)
  BY <1>2, <1>6, <1>8 DEF Accepted, OfType
<1>10. f \in log[i].corrects
  BY <1>3, <1>5, <1>9
<1> QED BY <1>2, <1>10 DEF Corrected

\* A round that rejected everything the analysis holds leaves nothing to apply.
LEMMA RejectedIsApplied ==
  ASSUME LogInv, NEW v \in 1..Len(log), NEW D, DOMAIN D = Analysis(v),
         \A f \in DOMAIN D : DecisionIs(f, D[f], Len(log)) /\ D[f] # "accepted"
  PROVE  Unapplied(Len(log)) = {}
<1>1. Len(log) \in 1..Len(log) /\ log \in Seq(Event) /\ HistoryReplays
  BY DEF LogInv
<1>2. CASE OfType("patched", Len(log)) # {}
  BY <1>1, <1>2, PatchedIsApplied
<1>3. CASE OfType("patched", Len(log)) = {}
  <2> SUFFICES ASSUME NEW f \in Accepted(Len(log)) PROVE FALSE
    BY DEF Unapplied
  <2>1. f \in DOMAIN D
    BY <1>3, AcceptedIsAnalysed
  <2>2. PICK j \in OfType("decided", Len(log)) : log[j].finding = f /\ log[j].status = D[f]
    BY <2>1 DEF DecisionIs
  <2>3. PICK k \in OfType("decided", Len(log)) : log[k].finding = f /\ log[k].status = "accepted"
    BY DEF Accepted
  <2>4. j = k
    BY <1>1, <2>2, <2>3, DecidedOnce
  <2> QED BY <2>1, <2>2, <2>3, <2>4
<1> QED BY <1>2, <1>3

----------------------------------------------------------------------------
(* What stays true of a desk while the others work *)

\* A form stays one that may be completed.
LEMMA FormStays ==
  ASSUME log \in Seq(Event), Grows, NEW f, FormStands(f)
  PROVE  FormStands(f)'
<1>1. f.version \in 1..Len(log) /\ f.version \in 0..Len(log) /\ Len(log) \in Nat
      /\ Len(log') \in Nat /\ Len(log) <= Len(log')
  BY GrownLog DEF FormStands
<1>2. Revision(f.version)' = Revision(f.version) /\ Unapplied(f.version)' = Unapplied(f.version)
  BY <1>1, PrefixStays
<1> QED BY <1>1, <1>2 DEF FormStands

\* What a call knows stays true.
LEMMA CallStays ==
  ASSUME log \in Seq(Event), Grows, approval' = approval \/ approval = None,
         NEW r \in CallType, CallGood(r)
  PROVE  CallGood(r)'
<1>1. /\ Len(log) \in Nat /\ Len(log') \in Nat /\ Len(log) <= Len(log')
      /\ log # <<>> => log' # <<>>
  BY GrownLog
<1>2. /\ Recorded(Len(log)) \subseteq Recorded(Len(log))'
      /\ Decided(Len(log)) \subseteq Decided(Len(log))'
      /\ \A f, s : DecisionIs(f, s, Len(log)) => DecisionIs(f, s, Len(log))'
      /\ OfType("patched", Len(log)) \subseteq OfType("patched", Len(log))'
  BY NothingUndone
<1>3. \A v \in 0..Len(log) : /\ Revision(v)' = Revision(v) /\ Recorded(v)' = Recorded(v)
                             /\ Unapplied(v)' = Unapplied(v)
  BY PrefixStays
<1>4. Placed(r) /\ Placed(r)'
  BY <1>1 DEF CallGood, Placed
<1>5. r.pc \in Located =>
        /\ r.work \in 0..Len(log) /\ Analysis(r.text)' = Analysis(r.text)
        /\ Revision(r.work)' = Revision(r.work) /\ Recorded(r.work)' = Recorded(r.work)
        /\ Unapplied(r.work)' = Unapplied(r.work)
  <2> HAVE r.pc \in Located
  <2>1. log # <<>> /\ r.text \in 0..Len(log) /\ r.work \in 0..Len(log)
    BY <1>4 DEF Placed, Located
  <2>2. Analysis(r.text)' = Analysis(r.text)
    BY <2>1, AnalysisStays
  <2> QED BY <1>3, <2>1, <2>2
<1>6. Records(r)'
  BY <1>2, <1>5 DEF CallGood, Records, Located, Started, Answered, PC, FileName
<1>7. Decides(r)'
  BY <1>2, <1>5 DEF CallGood, Decides, Located, Started, Answered, PC, FileName
<1>8. Applies(r)'
  BY <1>2, <1>5 DEF CallGood, Applies, Located, Started, Answered, PC, FileName
<1>9. Publishes(r)'
  BY <1>2, <1>5, FormStays DEF CallGood, Publishes, Located, Started, Answered, PC
<1> QED BY <1>4, <1>6, <1>7, <1>8, <1>9 DEF CallGood

\* What its files show stays true.
LEMMA PapersStay ==
  ASSUME log \in Seq(Event), Grows, approval' = approval \/ approval = None,
         NEW F, PapersGood(F)
  PROVE  PapersGood(F)'
<1>1. Len(log) \in Nat /\ Len(log') \in Nat /\ Len(log) <= Len(log')
  BY GrownLog
<1>2. /\ Recorded(Len(log)) \subseteq Recorded(Len(log))'
      /\ \A f, s : DecisionIs(f, s, Len(log)) => DecisionIs(f, s, Len(log))'
  BY NothingUndone
<1>3. \A v \in 1..Len(log) : Revision(v)' = Revision(v) /\ Unapplied(v)' = Unapplied(v)
  BY <1>1, PrefixStays
<1> QED BY <1>1, <1>2, <1>3 DEF PapersGood

\* The approved version stays settled.
LEMMA ApprovalStays ==
  ASSUME log \in Seq(Event), Grows, ApprovalInv, approval' = approval
  PROVE  ApprovalInv'
<1>1. CASE approval = None
  BY <1>1 DEF ApprovalInv
<1>2. CASE approval # None
  <2>1. FormStands(approval) /\ approval.version \in 0..Len(log)
    BY <1>2 DEF ApprovalInv, FormStands
  <2>2. FormStands(approval)'
    <3> PICK f : f = approval
      OBVIOUS
    <3>1. FormStands(f)'
      BY <2>1, FormStays
    <3> QED BY <3>1
  <2>3. Recorded(approval.version)' = Recorded(approval.version)
    BY <2>1, PrefixStays
  <2> QED BY <1>2, <2>2, <2>3, NothingUndone DEF ApprovalInv
<1> QED BY <1>1, <1>2

\* A step of the factory for one desk.
LEMMA StepKeeps ==
  ASSUME FactoryInv, NEW d \in Desk, NEW s \in CallType, Continue(d, s),
         s.pc \notin FileName, CallGood(s)',
         Grows, LogInv', ApprovalInv', approval' \in Form \cup {None},
         approval' = approval \/ approval = None,
         UNCHANGED <<files, signed, clicks, crashes, scenario>>
  PROVE  FactoryInv'
<1>1. log \in Seq(Event) /\ DeskTypes /\ DeskGood
  BY DEF FactoryInv, LogInv
<1>2. /\ run' \in [Desk -> CallType] /\ run'[d] = s
      /\ \A e \in Desk : e # d => run'[e] = run[e]
  BY <1>1 DEF DeskTypes, Continue
<1>3. DeskTypes'
  BY <1>1, <1>2 DEF DeskTypes
<1>4. ASSUME NEW e \in Desk
      PROVE  (CallGood(run[e]) /\ WriteGood(e, run[e], files[e])
              /\ PapersGood(files[e]) /\ SignedGood(signed[e]))'
  <2>1. PapersGood(files[e])'
    <3> PICK F : F = files[e]
      OBVIOUS
    <3>1. PapersGood(F)'
      BY <1>1, PapersStay DEF DeskGood
    <3> QED BY <3>1
  <2>2. SignedGood(signed[e])'
    <3> PICK f : f = signed[e]
      OBVIOUS
    <3>1. f # None => FormStands(f)'
      BY <1>1, FormStays DEF DeskGood, SignedGood
    <3> QED BY <3>1 DEF SignedGood
  <2>3. CASE e = d
    <3>1. CallGood(run[e])'
      BY <1>2, <2>3
    <3>2. WriteGood(e, run[e], files[e])'
      BY <1>2, <2>3 DEF WriteGood
    <3> QED BY <2>1, <2>2, <3>1, <3>2
  <2>4. CASE e # d
    <3> PICK r \in CallType : r = run[e]
      BY <1>1 DEF DeskTypes
    <3>1. CallGood(r)'
      BY <1>1, CallStays DEF DeskGood
    <3>2. WriteGood(e, run[e], files[e])
      BY <1>1 DEF DeskGood
    <3> QED BY <1>2, <2>1, <2>2, <2>4, <3>1, <3>2 DEF WriteGood
  <2> QED BY <2>3, <2>4
<1> QED BY <1>3, <1>4 DEF FactoryInv, DeskGood

\* A step that stores nothing.
LEMMA ReadKeeps ==
  ASSUME FactoryInv, NEW d \in Desk, NEW s \in CallType, Continue(d, s),
         s.pc \notin FileName, CallGood(s),
         UNCHANGED <<log, approval, files, signed, clicks, crashes, scenario>>
  PROVE  FactoryInv'
<1>1. log \in Seq(Event) /\ Grows /\ approval \in Form \cup {None}
  BY DEF FactoryInv, LogInv, Grows, DeskTypes
<1>2. CallGood(s)'
  BY <1>1, CallStays
<1>3. ApprovalInv'
  BY <1>1, ApprovalStays DEF FactoryInv
<1>4. LogInv'
  <2>1. \A t, v : OfType(t, v)' = OfType(t, v)
    BY DEF OfType
  <2>2. \A v : Revision(v)' = Revision(v) /\ Recorded(v)' = Recorded(v)
              /\ Decided(v)' = Decided(v) /\ Accepted(v)' = Accepted(v)
    BY <2>1 DEF Revision, Recorded, Decided, Accepted
  <2> QED BY <2>1, <2>2 DEF FactoryInv, LogInv, HistoryReplays, PatchesApplyWhatWasAccepted
<1> QED BY <1>1, <1>2, <1>3, <1>4, StepKeeps

----------------------------------------------------------------------------
(* The steps of the factory *)

\* The findings of an analysis are flaws at its revision; at the first one, those
\* of the ingested text.
LEMMA AnalysisIs ==
  ASSUME FactoryAssumption, LogInv, log # <<>>, NEW v \in 0..Len(log)
  PROVE  /\ Analysis(v) \subseteq Finding
         /\ \A f \in Analysis(v) :
              f[2] = Revision(v) /\ (Revision(v) = 1 => f[1] \in FirstFlaws(log[1].source))
<1> DEFINE C == {f[1] : f \in Corrected(v)}
<1>1. log[1] \in Event /\ log[1].type = "ingested" /\ log \in Seq(Event) /\ Len(log) \in Nat
  BY DEF LogInv, HistoryReplays
<1>2. log[1].source \in Source
  BY <1>1 DEF Event
<1>3. OfType("patched", v) \subseteq 1..v /\ Revision(v) \in Nat
  BY <1>1, Derived
<1>4. C \subseteq Flaw
  <2> SUFFICES ASSUME NEW f \in Corrected(v) PROVE f[1] \in Flaw
    OBVIOUS
  <2>1. PICK i \in OfType("patched", v) : f \in log[i].corrects
    BY DEF Corrected
  <2>2. log[i] \in Event /\ log[i].type = "patched"
    BY <1>1, <1>3 DEF OfType
  <2> QED BY <2>1, <2>2 DEF Event, Finding
<1>5. Flaws[log[1].source][C] \subseteq Flaw
  BY <1>2, <1>4 DEF FactoryAssumption
<1>6. Revision(v) = 1 => C = {}
  <2> HAVE Revision(v) = 1
  <2>1. IsFiniteSet(OfType("patched", v))
    <3>1. IsFiniteSet(1..v)
      BY <1>1, FS_Interval
    <3> QED BY <1>3, <3>1, FS_Subset
  <2>2. Cardinality(OfType("patched", v)) = 0
    BY <2>1, FS_CardinalityType DEF Revision
  <2>3. OfType("patched", v) = {}
    BY <2>1, <2>2, FS_EmptySet
  <2> QED BY <2>3 DEF Corrected
<1>7. Analysis(v) = {<<x, Revision(v)>> : x \in Flaws[log[1].source][C]}
  BY DEF Analysis
<1>8. \A c \in SUBSET Flaw : \A k \in Nat :
        {<<x, k>> : x \in Flaws[log[1].source][c]} \subseteq Finding
  BY <1>2 DEF FactoryAssumption, Finding
<1>9. Analysis(v) \subseteq Finding
  BY <1>3, <1>4, <1>7, <1>8
<1>10. ASSUME NEW f \in Analysis(v)
       PROVE  f[2] = Revision(v) /\ f[1] \in Flaws[log[1].source][C]
  BY <1>7, <1>10
<1>11. Revision(v) = 1 => Flaws[log[1].source][C] = FirstFlaws(log[1].source)
  BY <1>6 DEF FirstFlaws
<1> HIDE DEF C
<1> QED BY <1>9, <1>10, <1>11

\* There is a first finding.
LEMMA FirstIsIn ==
  ASSUME FactoryAssumption, NEW F \in SUBSET Finding, F # {} PROVE First(F) \in F
<1> DEFINE T == {f[1] : f \in F}
<1>1. T \subseteq Nat /\ T # {}
  BY DEF Finding, FactoryAssumption
<1>2. PICK x \in T : \A y \in T : x <= y
  BY <1>1, LeastNat
<1>3. PICK f \in F : f[1] = x
  BY <1>2
<1>4. \A g \in F : f[1] <= g[1]
  BY <1>2, <1>3
<1> QED BY <1>4 DEF First

\* A call that is over, and no decisions.
LEMMA IdleIs == /\ <<>> \in Decisions /\ DOMAIN <<>> = {}
                /\ Idle \in CallType /\ [Idle EXCEPT !.pc = "refused"] \in CallType
<1>1. <<>> \in [{} -> Status]
  OBVIOUS
<1>2. <<>> \in Decisions
  BY <1>1 DEF Decisions
<1> QED BY <1>2 DEF Idle, CallType, PC

\* A call that was refused.
LEMMA RefusedIs ==
  ASSUME Len(log) \in Nat, NEW s, s = [Idle EXCEPT !.pc = "refused"]
  PROVE  s \in CallType /\ s.pc = "refused" /\ CallGood(s)
<1>1. /\ s \in CallType /\ s.pc = "refused" /\ s.text = 0 /\ s.work = 0 /\ s.known = 0
      /\ s.op = None /\ s.left = {}
  BY IdleIs DEF Idle
<1>2. CallGood(s)
  BY <1>1 DEF CallGood, Placed, Records, Decides, Applies, Publishes, Started, Located,
     Answered, PC, FileName
<1> QED BY <1>1, <1>2

\* An exception.
LEMMA RefuseKeeps ==
  ASSUME FactoryInv, NEW d \in Desk, Refuse(d),
         UNCHANGED <<files, signed, clicks, crashes, scenario>>
  PROVE  FactoryInv'
<1>1. PICK s : s = [Idle EXCEPT !.pc = "refused"]
  OBVIOUS
<1>2. Len(log) \in Nat
  BY DEF FactoryInv, LogInv
<1>3. s \in CallType /\ s.pc = "refused" /\ CallGood(s)
  BY <1>1, <1>2, RefusedIs
<1>4. Continue(d, s) /\ UNCHANGED <<log, approval>>
  BY <1>1 DEF Refuse
<1> QED BY <1>3, <1>4, ReadKeeps DEF FileName

\* What a step starts from.
LEMMA AtStep ==
  ASSUME FactoryInv, NEW d \in Desk
  PROVE  /\ run[d] \in CallType /\ CallGood(run[d])
         /\ log \in Seq(Event) /\ Len(log) \in Nat /\ LogInv /\ ApprovalInv
         /\ log # <<>> => Len(log) \in 1..Len(log)
         /\ approval \in Form \cup {None}
         /\ run \in [Desk -> CallType]
BY DEF FactoryInv, DeskTypes, DeskGood, LogInv

\* The work is found, or is not there, or is of another text.
LEMMA LoadKeeps ==
  ASSUME FactoryInv, NEW d \in Desk, Load(d),
         UNCHANGED <<files, signed, clicks, crashes, scenario>>
  PROVE  FactoryInv'
<1> PICK r : r = run[d]
  OBVIOUS
<1>1. /\ r \in CallType /\ CallGood(r) /\ Len(log) \in Nat
      /\ log # <<>> => Len(log) \in 1..Len(log)
      /\ r.pc = "load" /\ r.op \in Operation /\ r.source \in Source /\ r.by \in Actor
  BY AtStep DEF Load, CallGood, Placed
<1>2. ASSUME log = <<>>, r.op # "publish", Reads(d, [r EXCEPT !.pc = "ingest"])
      PROVE  FactoryInv'
  <2>1. PICK s : s = [r EXCEPT !.pc = "ingest"]
    OBVIOUS
  <2>2. /\ s \in CallType /\ s.pc = "ingest" /\ s.op = r.op /\ s.source = r.source /\ s.by = r.by
        /\ s.text = r.text /\ s.work = r.work /\ s.known = r.known
    BY <1>1, <2>1 DEF CallType, PC
  <2>3. CallGood(s)
    BY <1>1, <1>2, <2>2 DEF CallGood, Placed, Records, Decides, Applies, Publishes, Started, Located,
       Answered, PC, FileName, Operation
  <2> QED BY <1>2, <2>1, <2>2, <2>3, ReadKeeps DEF Reads, FileName
<1>3. ASSUME log # <<>>, Reads(d, Loaded(r)) PROVE FactoryInv'
  <2>1. PICK s : s = Loaded(r)
    OBVIOUS
  <2>2. /\ s \in CallType /\ s.pc = (IF r.op = "publish" THEN "check" ELSE "history")
        /\ s.op = r.op /\ s.source = r.source /\ s.by = r.by /\ s.form = r.form
        /\ s.text = Len(log) /\ s.work = Len(log) /\ s.known = r.known
    BY <1>1, <2>1 DEF CallType, PC, Loaded
  <2>3. CallGood(s)
    BY <1>1, <1>3, <2>2 DEF CallGood, Placed, Records, Decides, Applies, Publishes, Started, Located,
       Answered, PC, FileName, Operation
  <2> QED BY <1>3, <2>1, <2>2, <2>3, ReadKeeps DEF Reads, FileName
<1> QED BY <1>2, <1>3, RefuseKeeps DEF Load

\* The first event, or the other process was first.
LEMMA IngestKeeps ==
  ASSUME FactoryInv, NEW d \in Desk, Ingest(d),
         UNCHANGED <<files, signed, clicks, crashes, scenario>>
  PROVE  FactoryInv'
<1> PICK r : r = run[d]
  OBVIOUS
<1>1. /\ r \in CallType /\ CallGood(r) /\ LogInv /\ log \in Seq(Event) /\ ApprovalInv
      /\ r.pc = "ingest" /\ r.op \in {"review", "prepare"} /\ r.source \in Source /\ r.by \in Actor
      /\ r.known \in 0..Len(log) /\ r.text \in 0..Len(log) /\ r.work \in 0..Len(log)
      /\ approval \in Form \cup {None}
  BY AtStep DEF Ingest, CallGood, Placed
<1>2. SUFFICES ASSUME log = <<>>, log' = <<Ingested(r.source)>>,
                      Continue(d, [r EXCEPT !.pc = "ingested"]), approval' = approval
               PROVE  FactoryInv'
  BY RefuseKeeps DEF Ingest
<1>3. PICK e : e = Ingested(r.source)
  OBVIOUS
<1>4. e \in Event /\ e.type = "ingested" /\ log' = Append(log, e)
  BY <1>1, <1>2, <1>3 DEF Event, Ingested
<1>5. Grows /\ log' \in Seq(Event) /\ Len(log) = 0 /\ Len(log') = 1 /\ log'[1] = e
  BY <1>1, <1>2, <1>4, Added
<1>6. LogInv'
  <2>1. HistoryReplays'
    BY <1>1, <1>2, <1>4, HistoryGrows DEF LogInv
  <2>2. \A t : t # "ingested" => OfType(t, Len(log))' = {}
    BY <1>4, <1>5 DEF OfType
  <2> QED BY <1>5, <2>1, <2>2 DEF LogInv, PatchesApplyWhatWasAccepted
<1>7. ApprovalInv'
  BY <1>1, <1>2, <1>5, ApprovalStays
<1>8. PICK s : s = [r EXCEPT !.pc = "ingested"]
  OBVIOUS
<1>9. /\ s \in CallType /\ s.pc = "ingested" /\ s.op = r.op /\ s.source = r.source /\ s.by = r.by
      /\ s.text = r.text /\ s.work = r.work /\ s.known = r.known
  BY <1>1, <1>8 DEF CallType, PC
<1>10. CallGood(s)'
  BY <1>1, <1>2, <1>5, <1>9 DEF CallGood, Placed, Records, Decides, Applies, Publishes, Started,
     Located, Answered, PC, FileName, Operation
<1> QED BY <1>1, <1>2, <1>5, <1>6, <1>7, <1>8, <1>9, <1>10, StepKeeps DEF FileName

\* The ingested work is read back.
LEMMA RereadKeeps ==
  ASSUME FactoryInv, NEW d \in Desk, Reread(d),
         UNCHANGED <<files, signed, clicks, crashes, scenario>>
  PROVE  FactoryInv'
<1> PICK r : r = run[d]
  OBVIOUS
<1>1. /\ r \in CallType /\ CallGood(r) /\ Len(log) \in Nat /\ log # <<>>
      /\ Len(log) \in 1..Len(log)
      /\ r.pc = "ingested" /\ r.op \in {"review", "prepare"} /\ r.source \in Source /\ r.by \in Actor
  BY AtStep DEF Reread, CallGood, Placed, Started, PC, FileName
<1>2. PICK s : s = Loaded(r)
  OBVIOUS
<1>3. /\ s \in CallType /\ s.pc = "history" /\ s.op = r.op /\ s.source = r.source /\ s.by = r.by
      /\ s.text = Len(log) /\ s.work = Len(log) /\ s.known = r.known
  <2>1. s = [r EXCEPT !.pc = "history", !.work = Len(log), !.text = Len(log)]
    BY <1>1, <1>2 DEF Loaded
  <2> QED BY <1>1, <2>1 DEF CallType, PC
<1>4. CallGood(s)
  BY <1>1, <1>3 DEF CallGood, Placed, Records, Decides, Applies, Publishes, Started, Located,
     Answered, PC, FileName, Operation
<1> QED BY <1>2, <1>3, <1>4, ReadKeeps DEF Reread, Reads, FileName

\* What is not recorded yet is left to record.
LEMMA HistoryKeeps ==
  ASSUME FactoryAssumption, FactoryInv, NEW d \in Desk, History(d),
         UNCHANGED <<files, signed, clicks, crashes, scenario>>
  PROVE  FactoryInv'
<1> PICK r : r = run[d]
  OBVIOUS
<1>1. /\ r \in CallType /\ CallGood(r) /\ Len(log) \in Nat /\ log # <<>> /\ LogInv
      /\ r.pc = "history" /\ r.op \in {"review", "prepare"} /\ r.source \in Source /\ r.by \in Actor
      /\ r.text \in 1..Len(log) /\ r.work \in 1..Len(log) /\ r.known \in 0..Len(log)
  BY AtStep DEF History, CallGood, Placed, Started, Located, PC, FileName
<1>2. PICK s : s = [r EXCEPT !.pc = "record", !.left = Analysis(r.text) \ Recorded(Len(log))]
  OBVIOUS
<1>3. Analysis(r.text) \subseteq Finding
  BY <1>1, AnalysisIs
<1>4. /\ s \in CallType /\ s.pc = "record" /\ s.op = r.op /\ s.source = r.source /\ s.by = r.by
      /\ s.text = r.text /\ s.work = r.work /\ s.known = r.known
      /\ s.left = Analysis(r.text) \ Recorded(Len(log))
  BY <1>1, <1>2, <1>3 DEF CallType, PC
<1>5. CallGood(s)
  BY <1>1, <1>4 DEF CallGood, Placed, Records, Decides, Applies, Publishes, Started, Located,
     Answered, PC, FileName, Operation
<1> QED BY <1>2, <1>4, <1>5, ReadKeeps DEF History, Reads, FileName

\* One more event that is not the first.
LEMMA LogGrows ==
  ASSUME LogInv, log # <<>>, NEW e \in Event, log' = Append(log, e), e.type # "ingested",
         e.type = "recorded" => /\ e.finding \notin Recorded(Len(log))
                                /\ e.finding[2] = 1 => e.finding[1] \in FirstFlaws(log[1].source)
                                /\ e.finding[2] = Revision(Len(log)),
         e.type = "decided" => /\ e.finding \in Recorded(Len(log)) \ Decided(Len(log))
                               /\ e.finding[2] = Revision(Len(log)),
         e.type = "patched" => /\ OfType("patched", Len(log)) = {}
                               /\ e.corrects = {f \in Accepted(Len(log)) : f[2] = Revision(Len(log))}
  PROVE  LogInv' /\ Grows /\ Len(log') = Len(log) + 1 /\ log' # <<>>
<1> PICK n \in Nat : n = Len(log)
  BY DEF LogInv
<1>1. /\ Grows /\ log' \in Seq(Event) /\ Len(log') = n + 1
      /\ log'[n + 1] = e /\ \A i \in 1..n : log'[i] = log[i]
      /\ \A t : OfType(t, Len(log))' = OfType(t, n) \cup (IF e.type = t THEN {n + 1} ELSE {})
  BY Added DEF LogInv
<1>2. HistoryReplays'
  BY HistoryGrows DEF LogInv
<1>3. 1 \in 1..n /\ log'[1] = log[1] /\ log' # <<>>
  BY <1>1
<1>4. \A t : OfType(t, n) \subseteq 1..n
  BY DEF OfType
<1>5. \A i \in OfType("recorded", Len(log))' :
        log'[i].finding[2] = 1 => log'[i].finding[1] \in FirstFlaws(log'[1].source)
  BY <1>1, <1>3, <1>4 DEF LogInv
<1>6. \A i, j \in OfType("patched", Len(log))' : i = j
  BY <1>1, <1>4 DEF LogInv
<1>7. PatchesApplyWhatWasAccepted'
  <2> SUFFICES ASSUME NEW i \in OfType("patched", Len(log))'
               PROVE  log'[i].corrects = {f \in Accepted(i)' : f[2] = Revision(i - 1)'}
    BY DEF PatchesApplyWhatWasAccepted
  <2>1. \A v \in 0..n : Accepted(v)' = Accepted(v) /\ Revision(v)' = Revision(v)
    BY <1>1, PrefixStays DEF LogInv
  <2>2. CASE i \in OfType("patched", n)
    <3>1. i \in 1..n /\ i - 1 \in 0..n /\ i \in 0..n
      BY <1>4, <2>2
    <3> QED BY <1>1, <2>1, <2>2, <3>1 DEF LogInv, PatchesApplyWhatWasAccepted
  <2>3. CASE e.type = "patched" /\ i = n + 1
    <3>1. i - 1 = n
      BY <2>3
    <3>2. Accepted(i)' = Accepted(n)
      <4>1. \A j \in OfType("decided", n) : log'[j] = log[j]
        BY <1>1, <1>4
      <4>2. OfType("decided", i)' = OfType("decided", n)
        BY <1>1, <2>3 DEF OfType
      <4>3. {j \in OfType("decided", n) : log'[j].status = "accepted"}
              = {j \in OfType("decided", n) : log[j].status = "accepted"}
        BY <4>1
      <4>4. Accepted(i)' = {log'[k].finding : k \in {j \in OfType("decided", n) : log'[j].status = "accepted"}}
        BY <4>2 DEF Accepted
      <4> DEFINE A == {j \in OfType("decided", n) : log[j].status = "accepted"}
      <4>5. Accepted(i)' = {log'[k].finding : k \in A} /\ Accepted(n) = {log[k].finding : k \in A}
        BY <4>3, <4>4 DEF Accepted
      <4>6. \A k \in A : log'[k] = log[k]
        BY <4>1
      <4> HIDE DEF A
      <4>7. {log'[k].finding : k \in A} = {log[k].finding : k \in A}
        BY <4>6
      <4> QED BY <4>5, <4>7
    <3> QED BY <1>1, <2>1, <2>3, <3>1, <3>2
  <2> QED BY <1>1, <2>2, <2>3
<1> QED BY <1>1, <1>2, <1>3, <1>5, <1>6, <1>7 DEF LogInv

\* A finding is recorded, or was by the same command, or is refused.
LEMMA RecordKeeps ==
  ASSUME FactoryAssumption, FactoryInv, NEW d \in Desk, Record(d),
         UNCHANGED <<files, signed, clicks, crashes, scenario>>
  PROVE  FactoryInv'
<1> PICK r : r = run[d]
  OBVIOUS
<1>1. /\ r \in CallType /\ CallGood(r) /\ Len(log) \in Nat /\ log # <<>> /\ LogInv /\ ApprovalInv
      /\ r.pc = "record" /\ r.op \in {"review", "prepare"} /\ r.source \in Source /\ r.by \in Actor
      /\ r.text \in 1..Len(log) /\ r.work \in 1..Len(log) /\ r.known \in 0..Len(log)
      /\ r.left \subseteq Analysis(r.text) /\ r.left # {}
      /\ Analysis(r.text) \ r.left \subseteq Recorded(Len(log))
      /\ log \in Seq(Event) /\ approval \in Form \cup {None}
  BY AtStep DEF Record, CallGood, Placed, Records, Started, Located, PC, FileName
<1>2. PICK f : f = First(r.left)
  OBVIOUS
<1>3. /\ f \in r.left /\ r.left \in SUBSET Finding /\ f \in Finding
      /\ f[2] = 1 => f[1] \in FirstFlaws(log[1].source)
  BY <1>1, <1>2, AnalysisIs, FirstIsIn
<1>4. ASSUME NEW i \in DOMAIN log, log[i] = RecordedBy(f, r.by, r.work),
             Reads(d, [r EXCEPT !.work = i, !.left = @ \ {f}])
      PROVE  FactoryInv'
  <2>1. PICK s : s = [r EXCEPT !.work = i, !.left = @ \ {f}]
    OBVIOUS
  <2>2. /\ s \in CallType /\ s.pc = "record" /\ s.op = r.op /\ s.source = r.source /\ s.by = r.by
        /\ s.text = r.text /\ s.work = i /\ s.known = r.known /\ s.left = r.left \ {f}
        /\ i \in 1..Len(log)
    <3>1. i \in 1..Len(log) /\ i \in Nat /\ r.left \ {f} \subseteq Finding
      BY <1>1, <1>3
    <3> QED BY <1>1, <2>1, <3>1 DEF CallType
  <2>3. f \in Recorded(Len(log))
    BY <1>1, <1>4 DEF Recorded, OfType, RecordedBy
  <2>4. CallGood(s)
    BY <1>1, <2>2, <2>3 DEF CallGood, Placed, Records, Decides, Applies, Publishes, Started, Located,
       Answered, PC, FileName, Operation
  <2> QED BY <1>4, <2>1, <2>2, <2>4, ReadKeeps DEF Reads, FileName
<1>5. ASSUME f \notin Recorded(Len(log)), r.work = Len(log), f[2] = Revision(Len(log)),
             log' = Append(log, RecordedBy(f, r.by, r.work)),
             Continue(d, [r EXCEPT !.work = Len(log) + 1, !.left = @ \ {f}]), approval' = approval
      PROVE  FactoryInv'
  <2>1. PICK e : e = RecordedBy(f, r.by, r.work)
    OBVIOUS
  <2>2. e \in Event /\ e.type = "recorded" /\ e.finding = f /\ log' = Append(log, e)
    BY <1>1, <1>3, <1>5, <2>1 DEF Event, RecordedBy
  <2>3. LogInv' /\ Grows /\ Len(log') = Len(log) + 1 /\ log' # <<>>
    BY <1>1, <1>3, <1>5, <2>2, LogGrows
  <2>4. PICK s : s = [r EXCEPT !.work = Len(log) + 1, !.left = @ \ {f}]
    OBVIOUS
  <2>5. /\ s \in CallType /\ s.pc = "record" /\ s.op = r.op /\ s.source = r.source /\ s.by = r.by
        /\ s.text = r.text /\ s.work = Len(log) + 1 /\ s.known = r.known /\ s.left = r.left \ {f}
    <3>1. Len(log) + 1 \in Nat /\ r.left \ {f} \subseteq Finding
      BY <1>1, <1>3
    <3> QED BY <1>1, <2>4, <3>1 DEF CallType
  <2>6. /\ Recorded(Len(log)) \cup {f} \subseteq Recorded(Len(log))'
        /\ Analysis(s.text)' = Analysis(s.text)
    <3>1. f \in Recorded(Len(log))'
      <4>1. Len(log') \in OfType("recorded", Len(log))' /\ log'[Len(log')] = e
        BY <1>1, <2>2, Added
      <4> QED BY <2>2, <4>1 DEF Recorded
    <3>2. Recorded(Len(log)) \subseteq Recorded(Len(log))'
      BY <1>1, <2>3, NothingUndone
    <3>3. s.text \in 0..Len(log)
      BY <1>1, <2>5
    <3> QED BY <1>1, <2>3, <3>1, <3>2, <3>3, AnalysisStays
  <2>7. CallGood(s)'
    BY <1>1, <2>3, <2>5, <2>6 DEF CallGood, Placed, Records, Decides, Applies, Publishes, Started,
       Located, Answered, PC, FileName, Operation
  <2>8. ApprovalInv'
    BY <1>1, <1>5, <2>3, ApprovalStays
  <2> QED BY <1>1, <1>5, <2>3, <2>4, <2>5, <2>7, <2>8, StepKeeps DEF FileName
<1> QED BY <1>2, <1>4, <1>5, RefuseKeeps DEF Record

\* Every finding of the analysis is recorded.
LEMMA ReviewedKeeps ==
  ASSUME FactoryInv, NEW d \in Desk, Reviewed(d),
         UNCHANGED <<files, signed, clicks, crashes, scenario>>
  PROVE  FactoryInv'
<1> PICK r : r = run[d]
  OBVIOUS
<1>1. /\ r \in CallType /\ CallGood(r) /\ Len(log) \in Nat /\ log # <<>>
      /\ Len(log) \in 1..Len(log)
      /\ r.pc = "record" /\ r.op \in {"review", "prepare"} /\ r.source \in Source /\ r.by \in Actor
      /\ r.text \in 1..Len(log) /\ r.known \in 0..Len(log) /\ r.left = {}
      /\ Analysis(r.text) \subseteq Recorded(Len(log))
  BY AtStep DEF Reviewed, CallGood, Placed, Records, Started, Located, PC, FileName
<1>2. PICK s : s = [r EXCEPT !.work = Len(log),
                             !.pc = IF r.op = "review" THEN "returned" ELSE "resolve"]
  OBVIOUS
<1>3. /\ s \in CallType /\ s.pc = (IF r.op = "review" THEN "returned" ELSE "resolve")
      /\ s.op = r.op /\ s.source = r.source /\ s.by = r.by
      /\ s.text = r.text /\ s.work = Len(log) /\ s.known = r.known /\ s.left = {}
  BY <1>1, <1>2 DEF CallType, PC
<1>4. CallGood(s)
  BY <1>1, <1>3 DEF CallGood, Placed, Records, Decides, Applies, Publishes, Started, Located,
     Answered, PC, FileName, Operation
<1>5. s.pc \notin FileName
  BY <1>3 DEF FileName
<1> QED BY <1>2, <1>3, <1>4, <1>5, ReadKeeps DEF Reviewed, Reads

\* The decisions brought are about the findings of the analysis.
LEMMA ResolveKeeps ==
  ASSUME FactoryAssumption, FactoryInv, NEW d \in Desk, Resolve(d),
         UNCHANGED <<files, signed, clicks, crashes, scenario>>
  PROVE  FactoryInv'
<1> PICK r : r = run[d]
  OBVIOUS
<1>1. /\ r \in CallType /\ CallGood(r) /\ Len(log) \in Nat /\ log # <<>> /\ LogInv
      /\ r.pc = "resolve" /\ r.op = "prepare" /\ r.source \in Source /\ r.by \in Actor
      /\ r.text \in 1..Len(log) /\ r.work \in 1..Len(log)
  BY AtStep DEF Resolve, CallGood, Placed, Started, Located, PC, FileName
<1>2. SUFFICES ASSUME DOMAIN r.brought = Analysis(r.text),
                      Reads(d, [r EXCEPT !.pc = "decide", !.known = Len(log), !.left = Analysis(r.text)])
               PROVE  FactoryInv'
  BY RefuseKeeps DEF Resolve
<1>3. Analysis(r.text) \subseteq Finding
  BY <1>1, AnalysisIs
<1>4. PICK s : s = [r EXCEPT !.pc = "decide", !.known = Len(log), !.left = Analysis(r.text)]
  OBVIOUS
<1>5. /\ s \in CallType /\ s.pc = "decide" /\ s.op = r.op /\ s.source = r.source /\ s.by = r.by
      /\ s.text = r.text /\ s.work = r.work /\ s.known = Len(log) /\ s.left = Analysis(r.text)
      /\ s.brought = r.brought
  BY <1>1, <1>3, <1>4 DEF CallType, PC
<1>6. CallGood(s)
  BY <1>1, <1>2, <1>5 DEF CallGood, Placed, Records, Decides, Applies, Publishes, Started, Located,
     Answered, PC, FileName, Operation
<1> QED BY <1>2, <1>4, <1>5, <1>6, ReadKeeps DEF Reads, FileName

\* A decision is stored, or was, or is refused.
LEMMA DecideKeeps ==
  ASSUME FactoryAssumption, FactoryInv, NEW d \in Desk, Decide(d),
         UNCHANGED <<files, signed, clicks, crashes, scenario>>
  PROVE  FactoryInv'
<1> PICK r : r = run[d]
  OBVIOUS
<1>1. /\ r \in CallType /\ CallGood(r) /\ Len(log) \in Nat /\ log # <<>> /\ LogInv /\ ApprovalInv
      /\ r.pc = "decide" /\ r.op = "prepare" /\ r.source \in Source /\ r.by \in Actor
      /\ r.text \in 1..Len(log) /\ r.work \in 1..Len(log) /\ r.known \in 0..Len(log)
      /\ r.left # {} /\ r.left \subseteq DOMAIN r.brought /\ DOMAIN r.brought = Analysis(r.text)
      /\ \A f \in DOMAIN r.brought \ r.left : DecisionIs(f, r.brought[f], Len(log))
      /\ log \in Seq(Event) /\ approval \in Form \cup {None}
  BY AtStep DEF Decide, CallGood, Placed, Decides, Started, Located, PC, FileName
<1>2. PICK f : f = First(r.left)
  OBVIOUS
<1>3. f \in r.left /\ r.left \in SUBSET Finding /\ f \in Finding
  BY <1>1, <1>2, AnalysisIs, FirstIsIn
<1>4. ASSUME NEW i \in 1..r.known, log[i] = DecisionsBy(r, f),
             Reads(d, [r EXCEPT !.left = @ \ {f}])
      PROVE  FactoryInv'
  <2>1. PICK s : s = [r EXCEPT !.left = @ \ {f}]
    OBVIOUS
  <2>2. /\ s \in CallType /\ s.pc = "decide" /\ s.op = r.op /\ s.source = r.source /\ s.by = r.by
        /\ s.text = r.text /\ s.work = r.work /\ s.known = r.known /\ s.left = r.left \ {f}
        /\ s.brought = r.brought
    <3>1. r.left \ {f} \subseteq Finding
      BY <1>3
    <3> QED BY <1>1, <2>1, <3>1 DEF CallType
  <2>3. DecisionIs(f, r.brought[f], Len(log))
    <3>1. i \in 1..Len(log) /\ log[i].type = "decided" /\ log[i].finding = f
          /\ log[i].status = r.brought[f]
      BY <1>1, <1>4 DEF DecisionsBy, DecidedBy
    <3> QED BY <3>1 DEF DecisionIs, OfType
  <2>4. \A g \in DOMAIN s.brought \ s.left : DecisionIs(g, s.brought[g], Len(log))
    BY <1>1, <2>2, <2>3
  <2>5. CallGood(s)
    BY <1>1, <2>2, <2>4 DEF CallGood, Placed, Records, Decides, Applies, Publishes, Started, Located,
       Answered, PC, FileName, Operation
  <2> QED BY <1>4, <2>1, <2>2, <2>5, ReadKeeps DEF Reads, FileName
<1>5. ASSUME f \notin Decided(Len(log)), f \in Recorded(Len(log)),
             r.work = Len(log), f[2] = Revision(Len(log)),
             log' = Append(log, DecisionsBy(r, f)),
             Continue(d, [r EXCEPT !.work = Len(log) + 1, !.left = @ \ {f}]), approval' = approval
      PROVE  FactoryInv'
  <2>1. PICK e : e = DecisionsBy(r, f)
    OBVIOUS
  <2>2. r.brought[f] \in Status
    BY <1>1, <1>3 DEF CallType, Decisions
  <2>3. /\ e \in Event /\ e.type = "decided" /\ e.finding = f /\ e.status = r.brought[f]
        /\ log' = Append(log, e)
    BY <1>1, <1>3, <1>5, <2>1, <2>2 DEF Event, DecidedBy, DecisionsBy
  <2>4. LogInv' /\ Grows /\ Len(log') = Len(log) + 1 /\ log' # <<>>
    BY <1>1, <1>3, <1>5, <2>3, LogGrows
  <2>5. PICK s : s = [r EXCEPT !.work = Len(log) + 1, !.left = @ \ {f}]
    OBVIOUS
  <2>6. /\ s \in CallType /\ s.pc = "decide" /\ s.op = r.op /\ s.source = r.source /\ s.by = r.by
        /\ s.text = r.text /\ s.work = Len(log) + 1 /\ s.known = r.known /\ s.left = r.left \ {f}
        /\ s.brought = r.brought
    <3>1. Len(log) + 1 \in Nat /\ r.left \ {f} \subseteq Finding
      BY <1>1, <1>3
    <3> QED BY <1>1, <2>5, <3>1 DEF CallType
  <2>7. DecisionIs(f, r.brought[f], Len(log))'
    <3>1. Len(log') \in OfType("decided", Len(log))' /\ log'[Len(log')] = e
      BY <1>1, <2>3, Added
    <3> QED BY <2>3, <3>1 DEF DecisionIs
  <2>8. \A g \in DOMAIN s.brought \ s.left : DecisionIs(g, s.brought[g], Len(log))'
    BY <1>1, <2>4, <2>6, <2>7, NothingUndone
  <2>9. Analysis(s.text)' = Analysis(s.text)
    <3>1. s.text \in 0..Len(log)
      BY <1>1, <2>6
    <3> QED BY <1>1, <2>4, <3>1, AnalysisStays
  <2>10. CallGood(s)'
    BY <1>1, <2>4, <2>6, <2>8, <2>9 DEF CallGood, Placed, Records, Decides, Applies, Publishes,
       Started, Located, Answered, PC, FileName, Operation
  <2>11. ApprovalInv'
    BY <1>1, <1>5, <2>4, ApprovalStays
  <2> QED BY <1>1, <1>5, <2>4, <2>5, <2>6, <2>10, <2>11, StepKeeps DEF FileName
<1> QED BY <1>2, <1>4, <1>5, RefuseKeeps DEF Decide

\* Every finding is decided as brought; without an acceptance the text stays.
LEMMA ResolvedKeeps ==
  ASSUME FactoryInv, NEW d \in Desk, Resolved(d),
         UNCHANGED <<files, signed, clicks, crashes, scenario>>
  PROVE  FactoryInv'
<1> PICK r : r = run[d]
  OBVIOUS
<1>1. /\ r \in CallType /\ CallGood(r) /\ Len(log) \in Nat /\ log # <<>> /\ LogInv
      /\ Len(log) \in 1..Len(log)
      /\ r.pc = "decide" /\ r.op = "prepare" /\ r.source \in Source /\ r.by \in Actor
      /\ r.text \in 1..Len(log) /\ r.left = {} /\ DOMAIN r.brought = Analysis(r.text)
      /\ \A f \in DOMAIN r.brought : DecisionIs(f, r.brought[f], Len(log))
  BY AtStep DEF Resolved, CallGood, Placed, Decides, Started, Located, PC, FileName
<1>2. ASSUME AcceptedBy(r) = {},
             Reads(d, [r EXCEPT !.pc = "returned", !.work = Len(log), !.known = 0])
      PROVE  FactoryInv'
  <2>1. PICK s : s = [r EXCEPT !.pc = "returned", !.work = Len(log), !.known = 0]
    OBVIOUS
  <2>2. /\ s \in CallType /\ s.pc = "returned" /\ s.op = r.op /\ s.source = r.source /\ s.by = r.by
        /\ s.text = r.text /\ s.work = Len(log) /\ s.known = 0 /\ s.left = {}
        /\ s.brought = r.brought
    BY <1>1, <2>1 DEF CallType, PC
  <2>3. Unapplied(Len(log)) = {}
    BY <1>1, <1>2, RejectedIsApplied DEF AcceptedBy
  <2>4. CallGood(s)
    BY <1>1, <2>2, <2>3 DEF CallGood, Placed, Records, Decides, Applies, Publishes, Started, Located,
       Answered, PC, FileName, Operation
  <2> QED BY <1>2, <2>1, <2>2, <2>4, ReadKeeps DEF Reads, FileName
<1>3. ASSUME \A f \in AcceptedBy(r) : f[2] = Revision(Len(log)),
             Reads(d, [r EXCEPT !.pc = "patch", !.work = Len(log), !.known = 0])
      PROVE  FactoryInv'
  <2>1. PICK s : s = [r EXCEPT !.pc = "patch", !.work = Len(log), !.known = 0]
    OBVIOUS
  <2>2. /\ s \in CallType /\ s.pc = "patch" /\ s.op = r.op /\ s.source = r.source /\ s.by = r.by
        /\ s.text = r.text /\ s.work = Len(log) /\ s.known = 0 /\ s.left = {}
        /\ s.brought = r.brought
    BY <1>1, <2>1 DEF CallType, PC
  <2>3. \A f \in AcceptedBy(s) : f[2] = Revision(s.work)
    BY <1>3, <2>2 DEF AcceptedBy
  <2>4. CallGood(s)
    BY <1>1, <2>2, <2>3 DEF CallGood, Placed, Records, Decides, Applies, Publishes, Started, Located,
       Answered, PC, FileName, Operation
  <2> QED BY <1>3, <2>1, <2>2, <2>4, ReadKeeps DEF Reads, FileName
<1> QED BY <1>2, <1>3, RefuseKeeps DEF Resolved

\* The one patch: what was accepted on this text is what it corrects.
LEMMA ApplyAcceptedKeeps ==
  ASSUME FactoryAssumption, FactoryInv, NEW d \in Desk, ApplyAccepted(d),
         UNCHANGED <<files, signed, clicks, crashes, scenario>>
  PROVE  FactoryInv'
<1> PICK r : r = run[d]
  OBVIOUS
<1>1. /\ r \in CallType /\ CallGood(r) /\ Len(log) \in Nat /\ log # <<>> /\ LogInv /\ ApprovalInv
      /\ r.pc = "patch" /\ r.op = "prepare" /\ r.source \in Source /\ r.by \in Actor
      /\ r.text \in 1..Len(log) /\ r.work \in 1..Len(log) /\ r.known \in 0..Len(log)
      /\ r.left = {} /\ DOMAIN r.brought = Analysis(r.text)
      /\ \A f \in DOMAIN r.brought : DecisionIs(f, r.brought[f], Len(log))
      /\ \A f \in AcceptedBy(r) : f[2] = Revision(r.work)
      /\ log \in Seq(Event) /\ approval \in Form \cup {None} /\ HistoryReplays
  BY AtStep DEF ApplyAccepted, CallGood, Placed, Decides, Applies, Started, Located, PC, FileName, LogInv
<1>2. SUFFICES ASSUME OfType("patched", Len(log)) = {}, r.work = Len(log),
                      log' = Append(log, Patched(AcceptedBy(r))),
                      Continue(d, [r EXCEPT !.pc = "reload"]), approval' = approval
               PROVE  FactoryInv'
  BY RefuseKeeps DEF ApplyAccepted
<1>3. PICK e : e = Patched(AcceptedBy(r))
  OBVIOUS
<1>4. AcceptedBy(r) \subseteq Finding
  BY <1>1, AnalysisIs DEF AcceptedBy
<1>5. e \in Event /\ e.type = "patched" /\ e.corrects = AcceptedBy(r) /\ log' = Append(log, e)
  BY <1>2, <1>3, <1>4 DEF Event, Patched
<1>6. AcceptedBy(r) = {f \in Accepted(Len(log)) : f[2] = Revision(Len(log))}
  <2>1. ASSUME NEW f \in AcceptedBy(r) PROVE f \in Accepted(Len(log)) /\ f[2] = Revision(Len(log))
    BY <1>1, <1>2 DEF AcceptedBy, DecisionIs, Accepted
  <2>2. ASSUME NEW f \in Accepted(Len(log)) PROVE f \in AcceptedBy(r)
    <3>1. f \in DOMAIN r.brought
      BY <1>1, <1>2, AcceptedIsAnalysed
    <3>2. PICK j \in OfType("decided", Len(log)) : log[j].finding = f /\ log[j].status = r.brought[f]
      BY <1>1, <3>1 DEF DecisionIs
    <3>3. PICK k \in OfType("decided", Len(log)) : log[k].finding = f /\ log[k].status = "accepted"
      BY DEF Accepted
    <3>4. j = k
      BY <1>1, <3>2, <3>3, DecidedOnce
    <3> QED BY <3>1, <3>2, <3>3, <3>4 DEF AcceptedBy
  <2> QED BY <2>1, <2>2
<1>7. LogInv' /\ Grows /\ Len(log') = Len(log) + 1 /\ log' # <<>>
  BY <1>1, <1>2, <1>5, <1>6, LogGrows
<1>8. OfType("patched", Len(log))' # {}
  BY <1>1, <1>5, Added
<1>9. PICK s : s = [r EXCEPT !.pc = "reload"]
  OBVIOUS
<1>10. /\ s \in CallType /\ s.pc = "reload" /\ s.op = r.op /\ s.source = r.source /\ s.by = r.by
       /\ s.text = r.text /\ s.work = r.work /\ s.known = r.known /\ s.left = {}
       /\ s.brought = r.brought
  BY <1>1, <1>9 DEF CallType, PC
<1>11. \A f \in DOMAIN s.brought : DecisionIs(f, s.brought[f], Len(log))'
  BY <1>1, <1>7, <1>10, NothingUndone
<1>12. Analysis(s.text)' = Analysis(s.text)
  <2>1. s.text \in 0..Len(log)
    BY <1>1, <1>10
  <2> QED BY <1>1, <1>7, <2>1, AnalysisStays
<1>13. CallGood(s)'
  BY <1>1, <1>7, <1>8, <1>10, <1>11, <1>12 DEF CallGood, Placed, Records, Decides, Applies,
     Publishes, Started, Located, Answered, PC, FileName, Operation
<1>14. ApprovalInv'
  BY <1>1, <1>2, <1>7, ApprovalStays
<1> QED BY <1>1, <1>2, <1>7, <1>9, <1>10, <1>13, <1>14, StepKeeps DEF FileName

\* The patched work is read back.
LEMMA PreparedKeeps ==
  ASSUME FactoryInv, NEW d \in Desk, Prepared(d),
         UNCHANGED <<files, signed, clicks, crashes, scenario>>
  PROVE  FactoryInv'
<1> PICK r : r = run[d]
  OBVIOUS
<1>1. /\ r \in CallType /\ CallGood(r) /\ Len(log) \in Nat /\ log # <<>> /\ LogInv
      /\ Len(log) \in 1..Len(log)
      /\ r.pc = "reload" /\ r.op = "prepare" /\ r.source \in Source /\ r.by \in Actor
      /\ r.text \in 1..Len(log) /\ r.known \in 0..Len(log) /\ r.left = {}
      /\ DOMAIN r.brought = Analysis(r.text)
      /\ \A f \in DOMAIN r.brought : DecisionIs(f, r.brought[f], Len(log))
      /\ OfType("patched", Len(log)) # {}
  BY AtStep DEF Prepared, CallGood, Placed, Decides, Applies, Started, Located, PC, FileName
<1>2. PICK s : s = [r EXCEPT !.pc = "returned", !.work = Len(log)]
  OBVIOUS
<1>3. /\ s \in CallType /\ s.pc = "returned" /\ s.op = r.op /\ s.source = r.source /\ s.by = r.by
      /\ s.text = r.text /\ s.work = Len(log) /\ s.known = r.known /\ s.left = {}
      /\ s.brought = r.brought
  BY <1>1, <1>2 DEF CallType, PC
<1>4. Unapplied(Len(log)) = {}
  BY <1>1, PatchedIsApplied
<1>5. CallGood(s)
  BY <1>1, <1>3, <1>4 DEF CallGood, Placed, Records, Decides, Applies, Publishes, Started, Located,
     Answered, PC, FileName, Operation
<1> QED BY <1>2, <1>3, <1>5, ReadKeeps DEF Prepared, Reads, FileName

\* The form fits the work in hand, and nothing is open.
LEMMA CheckKeeps ==
  ASSUME FactoryInv, NEW d \in Desk, Check(d),
         UNCHANGED <<files, signed, clicks, crashes, scenario>>
  PROVE  FactoryInv'
<1> PICK r : r = run[d]
  OBVIOUS
<1>1. /\ r \in CallType /\ CallGood(r) /\ Len(log) \in Nat /\ log # <<>>
      /\ r.pc = "check" /\ r.op = "publish" /\ r.source \in Source /\ r.by \in Actor
      /\ r.text \in 1..Len(log) /\ r.work \in 1..Len(log) /\ r.known \in 0..Len(log)
      /\ FormStands(r.form)
  BY AtStep DEF Check, CallGood, Placed, Publishes, Started, Located, PC, FileName
<1>2. SUFFICES ASSUME Open(Len(log)) = {}, Fits(r.form, r.work), Reads(d, [r EXCEPT !.pc = "save"])
               PROVE  FactoryInv'
  BY RefuseKeeps DEF Check
<1>3. PICK s : s = [r EXCEPT !.pc = "save"]
  OBVIOUS
<1>4. /\ s \in CallType /\ s.pc = "save" /\ s.op = r.op /\ s.source = r.source /\ s.by = r.by
      /\ s.text = r.text /\ s.work = r.work /\ s.known = r.known /\ s.form = r.form
  BY <1>1, <1>3 DEF CallType, PC
<1>5. s.form.version = s.work /\ Recorded(s.work) \subseteq Decided(Len(log))
  <2>1. s.work \in 0..Len(log)
    BY <1>1, <1>4
  <2>2. Recorded(s.work) \subseteq Recorded(Len(log))
    BY <1>1, <2>1, PrefixHoldsLess
  <2> QED BY <1>2, <1>4, <2>2 DEF Open, Fits
<1>6. CallGood(s)
  BY <1>1, <1>4, <1>5 DEF CallGood, Placed, Records, Decides, Applies, Publishes, Started, Located,
     Answered, PC, FileName, Operation
<1> QED BY <1>2, <1>3, <1>4, <1>6, ReadKeeps DEF Reads, FileName

\* The approval is stored, unless another one is.
LEMMA SaveKeeps ==
  ASSUME FactoryInv, NEW d \in Desk, Save(d), NoneAssumption,
         UNCHANGED <<files, signed, clicks, crashes, scenario>>
  PROVE  FactoryInv'
<1> PICK r : r = run[d]
  OBVIOUS
<1>1. /\ r \in CallType /\ CallGood(r) /\ Len(log) \in Nat /\ log # <<>> /\ LogInv
      /\ r.pc = "save" /\ r.op = "publish" /\ r.source \in Source /\ r.by \in Actor
      /\ r.text \in 1..Len(log) /\ r.work \in 1..Len(log) /\ r.known \in 0..Len(log)
      /\ FormStands(r.form) /\ r.form.version = r.work
      /\ Recorded(r.work) \subseteq Decided(Len(log))
      /\ log \in Seq(Event)
  BY AtStep DEF Save, CallGood, Placed, Publishes, Started, Located, PC, FileName
<1>2. SUFFICES ASSUME approval \in {None, r.form}, approval' = r.form, UNCHANGED log,
                      \/ Continue(d, [r EXCEPT !.pc = "returned"])
                      \/ Continue(d, [Idle EXCEPT !.pc = "refused"])
               PROVE  FactoryInv'
  BY RefuseKeeps DEF Save
<1>3. Grows /\ r.form \in Form /\ r.form # None
  BY <1>1, <1>2 DEF Grows, FormStands, Form, NoneAssumption
<1>4. \A v : /\ Recorded(v)' = Recorded(v) /\ Decided(v)' = Decided(v) /\ Revision(v)' = Revision(v)
             /\ Accepted(v)' = Accepted(v) /\ Unapplied(v)' = Unapplied(v)
             /\ \A t : OfType(t, v)' = OfType(t, v)
  <2>1. \A t, v : OfType(t, v)' = OfType(t, v)
    BY <1>2 DEF OfType
  <2>2. \A v : /\ Recorded(v)' = Recorded(v) /\ Decided(v)' = Decided(v) /\ Revision(v)' = Revision(v)
               /\ Accepted(v)' = Accepted(v) /\ Corrected(v)' = Corrected(v)
    BY <1>2, <2>1 DEF Recorded, Decided, Revision, Accepted, Corrected
  <2> QED BY <2>1, <2>2 DEF Unapplied
<1>5. LogInv'
  BY <1>1, <1>2, <1>4 DEF LogInv, HistoryReplays, PatchesApplyWhatWasAccepted
<1>6. FormStands(r.form)'
  BY <1>1, <1>3, FormStays
<1>7. ApprovalInv'
  BY <1>1, <1>2, <1>4, <1>6 DEF ApprovalInv
<1>8. ASSUME Continue(d, [r EXCEPT !.pc = "returned"]) PROVE FactoryInv'
  <2>1. PICK s : s = [r EXCEPT !.pc = "returned"]
    OBVIOUS
  <2>2. /\ s \in CallType /\ s.pc = "returned" /\ s.op = r.op /\ s.source = r.source /\ s.by = r.by
        /\ s.text = r.text /\ s.work = r.work /\ s.known = r.known /\ s.form = r.form
    BY <1>1, <2>1 DEF CallType, PC
  <2>3. CallGood(s)'
    BY <1>1, <1>2, <1>3, <1>6, <2>2 DEF CallGood, Placed, Records, Decides, Applies, Publishes,
       Started, Located, Answered, PC, FileName, Operation
  <2> QED BY <1>2, <1>3, <1>5, <1>7, <1>8, <2>1, <2>2, <2>3, StepKeeps DEF FileName
<1>9. ASSUME Continue(d, [Idle EXCEPT !.pc = "refused"]) PROVE FactoryInv'
  <2>1. PICK s : s = [Idle EXCEPT !.pc = "refused"]
    OBVIOUS
  <2>2. s \in CallType /\ CallGood(s) /\ s.pc = "refused"
    BY <1>1, <2>1, RefusedIs
  <2>3. CallGood(s)'
    BY <1>1, <1>2, <1>3, <2>2, CallStays
  <2> QED BY <1>2, <1>3, <1>5, <1>7, <1>9, <2>1, <2>2, <2>3, StepKeeps DEF FileName
<1> QED BY <1>2, <1>8, <1>9

\* The whole factory.
LEMMA FactoryKeeps ==
  ASSUME FactoryAssumption, NoneAssumption, FactoryInv, NEW d \in Desk, Factory(d)
  PROVE  FactoryInv'
BY LoadKeeps, IngestKeeps, RereadKeeps, HistoryKeeps, RecordKeeps, ReviewedKeeps, ResolveKeeps,
   DecideKeeps, ResolvedKeeps, ApplyAcceptedKeeps, PreparedKeeps, CheckKeeps, SaveKeeps
   DEF Factory, FactoryStep

----------------------------------------------------------------------------
(* The steps of the desks *)

\* The files of each operation.
LEMMA FilesAre ==
  ASSUME NEW d \in Desk
  PROVE  /\ FilesOf(d, "review") = <<"findings">>
         /\ FilesOf(d, "prepare") = IF d \in Console THEN <<"template", "decisions">> ELSE <<"template">>
         /\ FilesOf(d, "publish") \in Seq(FileName)
         /\ Len(FilesOf(d, "publish")) = IF d \in Console THEN 6 ELSE 5
         /\ \A i \in 1..5 : FilesOf(d, "publish")[i] = Exports[i]
         /\ d \in Console => FilesOf(d, "publish")[6] = "template"
<1>1. Exports \in Seq(FileName) /\ Len(Exports) = 5 /\ "template" \in FileName
  BY DEF Exports, FileName
<1>2. /\ Append(Exports, "template") \in Seq(FileName) /\ Len(Append(Exports, "template")) = 6
      /\ \A i \in 1..5 : Append(Exports, "template")[i] = Exports[i]
      /\ Append(Exports, "template")[6] = "template"
  <2>1. \A x \in Seq(FileName), y \in FileName :
          /\ Append(x, y) \in Seq(FileName) /\ Len(Append(x, y)) = Len(x) + 1
          /\ \A i \in 1..Len(x) : Append(x, y)[i] = x[i]
          /\ Append(x, y)[Len(x) + 1] = y
    OBVIOUS
  <2> DEFINE A == Append(Exports, "template")
  <2>2. /\ A \in Seq(FileName) /\ Len(A) = Len(Exports) + 1
        /\ \A i \in 1..Len(Exports) : A[i] = Exports[i]
        /\ A[Len(Exports) + 1] = "template"
    BY <1>1, <2>1, Zenon
  <2> HIDE DEF A
  <2>3. A \in Seq(FileName) /\ Len(A) = 6 /\ A[6] = "template" /\ \A i \in 1..5 : A[i] = Exports[i]
    BY <1>1, <2>2
  <2> QED BY <2>3 DEF A
<1>3. FilesOf(d, "publish") = IF d \in Console THEN Append(Exports, "template") ELSE Exports
  BY DEF FilesOf
<1>4. /\ FilesOf(d, "review") = <<"findings">>
      /\ FilesOf(d, "prepare") = IF d \in Console THEN <<"template", "decisions">> ELSE <<"template">>
  BY DEF FilesOf
<1> QED BY <1>1, <1>2, <1>3, <1>4

\* The exports are five files.
LEMMA ExportsAre ==
  /\ \A i \in 1..5 : Exports[i] \in FileName \ {"findings", "template", "decisions"}
  /\ \A i, j \in 1..5 : Exports[i] = Exports[j] => i = j
BY DEF Exports, FileName

\* They are different files.
LEMMA FilesDiffer ==
  ASSUME NEW d \in Desk, NEW op \in Operation
  PROVE  /\ DOMAIN FilesOf(d, op) = 1..Len(FilesOf(d, op)) /\ Len(FilesOf(d, op)) \in Nat
         /\ 1 \in DOMAIN FilesOf(d, op) /\ Head(FilesOf(d, op)) = FilesOf(d, op)[1]
         /\ \A i \in DOMAIN FilesOf(d, op) : FilesOf(d, op)[i] \in FileName
         /\ \A i, j \in DOMAIN FilesOf(d, op) : FilesOf(d, op)[i] = FilesOf(d, op)[j] => i = j
<1>1. CASE op = "review"
  BY <1>1, FilesAre DEF FileName
<1>2. CASE op = "prepare"
  BY <1>2, FilesAre DEF FileName
<1>3. CASE op = "publish"
  <2>1. \A i \in DOMAIN FilesOf(d, op) : i \in 1..5 \/ (i = 6 /\ FilesOf(d, op)[6] = "template")
    BY <1>3, FilesAre
  <2> QED BY <1>3, <2>1, FilesAre, ExportsAre
<1> QED BY <1>1, <1>2, <1>3 DEF Operation

\* What is written after a file.
LEMMA AfterIs ==
  ASSUME NEW d \in Desk, NEW r, r.op \in Operation,
         NEW k \in DOMAIN FilesOf(d, r.op), FilesOf(d, r.op)[k] = r.pc
  PROVE  After(d, r) = IF k = Len(FilesOf(d, r.op)) THEN Idle
                       ELSE [r EXCEPT !.pc = FilesOf(d, r.op)[k + 1]]
<1>1. \A j \in DOMAIN FilesOf(d, r.op) : FilesOf(d, r.op)[j] = r.pc <=> j = k
  BY FilesDiffer
<1>2. (CHOOSE j \in DOMAIN FilesOf(d, r.op) : FilesOf(d, r.op)[j] = r.pc) = k
  BY <1>1
<1> QED BY <1>2 DEF After

\* A step of one desk that leaves the stored work alone.
LEMMA DeskStepKeeps ==
  ASSUME FactoryInv, NEW d \in Desk, UNCHANGED <<log, approval, scenario>>,
         NEW s \in CallType, run' = [run EXCEPT ![d] = s], CallGood(s),
         NEW F \in [FileName -> FileValue], files' = [files EXCEPT ![d] = F], PapersGood(F),
         NEW g \in Form \cup {None}, signed' = [signed EXCEPT ![d] = g], SignedGood(g),
         WriteGood(d, s, F), clicks' \in Nat, crashes' \in Nat
  PROVE  FactoryInv'
<1>1. log \in Seq(Event) /\ DeskTypes /\ DeskGood /\ Grows
  BY DEF FactoryInv, LogInv, Grows
<1>2. /\ run' \in [Desk -> CallType] /\ run'[d] = s
      /\ \A e \in Desk : e # d => run'[e] = run[e]
  BY <1>1 DEF DeskTypes
<1>3. /\ files' \in [Desk -> [FileName -> FileValue]] /\ files'[d] = F
      /\ \A e \in Desk : e # d => files'[e] = files[e]
  BY <1>1 DEF DeskTypes
<1>4. /\ signed' \in [Desk -> Form \cup {None}] /\ signed'[d] = g
      /\ \A e \in Desk : e # d => signed'[e] = signed[e]
  BY <1>1 DEF DeskTypes
<1>5. DeskTypes'
  BY <1>1, <1>2, <1>3, <1>4 DEF DeskTypes
<1>6. ASSUME NEW e \in Desk, NEW r \in CallType, NEW G, NEW h,
             CallGood(r), WriteGood(e, r, G), PapersGood(G), SignedGood(h)
      PROVE  CallGood(r)' /\ WriteGood(e, r, G)' /\ PapersGood(G)' /\ SignedGood(h)'
  BY <1>1, <1>6, CallStays, PapersStay, FormStays DEF SignedGood
<1>7. ASSUME NEW e \in Desk
      PROVE  (CallGood(run[e]) /\ WriteGood(e, run[e], files[e])
              /\ PapersGood(files[e]) /\ SignedGood(signed[e]))'
  <2>1. CASE e = d
    BY <1>2, <1>3, <1>4, <1>6, <2>1
  <2>2. CASE e # d
    <3> PICK r \in CallType : r = run[e]
      BY <1>1 DEF DeskTypes
    <3> PICK G : G = files[e]
      OBVIOUS
    <3> PICK h : h = signed[e]
      OBVIOUS
    <3>1. CallGood(r)' /\ WriteGood(e, r, G)' /\ PapersGood(G)' /\ SignedGood(h)'
      BY <1>1, <1>6 DEF DeskGood
    <3>2. run'[e] = r /\ files'[e] = G /\ signed'[e] = h
      BY <1>2, <1>3, <1>4, <2>2
    <3> QED BY <3>1, <3>2
  <2> QED BY <2>1, <2>2
<1>8. LogInv'
  <2>1. \A t, v : OfType(t, v)' = OfType(t, v)
    BY DEF OfType
  <2>2. \A v : Revision(v)' = Revision(v) /\ Recorded(v)' = Recorded(v)
              /\ Decided(v)' = Decided(v) /\ Accepted(v)' = Accepted(v)
    BY <2>1 DEF Revision, Recorded, Decided, Accepted
  <2> QED BY <2>1, <2>2 DEF FactoryInv, LogInv, HistoryReplays, PatchesApplyWhatWasAccepted
<1>9. ApprovalInv'
  BY <1>1, ApprovalStays DEF FactoryInv
<1> QED BY <1>5, <1>7, <1>8, <1>9 DEF FactoryInv, DeskGood

\* What a desk starts from.
LEMMA AtDesk ==
  ASSUME FactoryInv, NEW d \in Desk
  PROVE  /\ run[d] \in CallType /\ CallGood(run[d]) /\ WriteGood(d, run[d], files[d])
         /\ files[d] \in [FileName -> FileValue] /\ PapersGood(files[d])
         /\ signed[d] \in Form \cup {None} /\ SignedGood(signed[d])
         /\ run = [run EXCEPT ![d] = run[d]] /\ files = [files EXCEPT ![d] = files[d]]
         /\ signed = [signed EXCEPT ![d] = signed[d]]
         /\ clicks \in Nat /\ crashes \in Nat
         /\ Len(log) \in Nat /\ log \in Seq(Event) /\ LogInv /\ ApprovalInv
BY DEF FactoryInv, DeskTypes, DeskGood, LogInv

\* The people and the texts of a scenario.
LEMMA ScenarioIs ==
  ASSUME DeskAssumption, FactoryInv, NEW d \in Desk
  PROVE  /\ scenario.manuscript[d] \subseteq Source /\ scenario.operator[d] \subseteq Actor
         /\ scenario.duties[d] \subseteq Operation
<1>1. scenario \in [manuscript : [Desk -> SUBSET Source], expected : [Desk -> Source \cup {None}],
                    operator : [Desk -> SUBSET Actor], duties : [Desk -> SUBSET Operation],
                    clicks : Nat, crashes : Nat]
  BY DEF DeskAssumption, FactoryInv, DeskTypes
<1> QED BY <1>1

\* A call that begins.
LEMMA CallBegins ==
  ASSUME Len(log) \in Nat, NEW c \in CallType, c.pc = "load", c.op \in Operation,
         c.source \in Source, c.by \in Actor, c.text = 0, c.work = 0, c.known = 0,
         c.op = "publish" => FormStands(c.form)
  PROVE  CallGood(c) /\ \A d, F : WriteGood(d, c, F)
BY DEF CallGood, Placed, Records, Decides, Applies, Publishes, Started, Located, Answered, PC,
   FileName, WriteGood, Operation

\* The calls of the desks, as they begin.
LEMMA ReviewIs ==
  ASSUME NEW d, NEW s \in Source, NEW a \in Actor, NEW c, c = Review(d, s, a)
  PROVE  /\ c \in CallType /\ c.pc = "load" /\ c.op = "review" /\ c.source = s /\ c.by = a
         /\ c.text = 0 /\ c.work = 0 /\ c.known = 0
<1>1. PICK i \in CallType : i = Idle
  BY IdleIs
<1>2. i.text = 0 /\ i.work = 0 /\ i.known = 0
  BY <1>1 DEF Idle
<1>3. c = [i EXCEPT !.pc = "load", !.op = "review", !.source = s, !.by = a]
  BY <1>1 DEF Review
<1> QED BY <1>2, <1>3 DEF CallType, PC, Operation

\* With the decisions that are brought.
LEMMA PrepareIs ==
  ASSUME NEW d, NEW s \in Source, NEW a \in Actor, NEW D \in Decisions, NEW c, c = Prepare(d, s, a, D)
  PROVE  /\ c \in CallType /\ c.pc = "load" /\ c.op = "prepare" /\ c.source = s /\ c.by = a
         /\ c.text = 0 /\ c.work = 0 /\ c.known = 0
<1>1. PICK r : r = Review(d, s, a)
  OBVIOUS
<1>2. /\ r \in CallType /\ r.pc = "load" /\ r.source = s /\ r.by = a
      /\ r.text = 0 /\ r.work = 0 /\ r.known = 0
  BY <1>1, ReviewIs
<1>3. c = [r EXCEPT !.op = "prepare", !.brought = D]
  BY <1>1 DEF Prepare
<1> QED BY <1>2, <1>3 DEF CallType, PC, Operation

\* With the completed form.
LEMMA PublishIs ==
  ASSUME NEW d, NEW s \in Source, NEW a \in Actor, NEW f \in Form, NEW c, c = PublishWith(d, s, a, f)
  PROVE  /\ c \in CallType /\ c.pc = "load" /\ c.op = "publish" /\ c.source = s /\ c.by = a
         /\ c.text = 0 /\ c.work = 0 /\ c.known = 0 /\ c.form = f
<1>1. PICK r : r = Review(d, s, a)
  OBVIOUS
<1>2. /\ r \in CallType /\ r.pc = "load" /\ r.source = s /\ r.by = a
      /\ r.text = 0 /\ r.work = 0 /\ r.known = 0
  BY <1>1, ReviewIs
<1>3. c = [r EXCEPT !.op = "publish", !.form = f]
  BY <1>1 DEF PublishWith
<1> QED BY <1>2, <1>3 DEF CallType, PC, Operation

\* A completed form names the version of the template.
LEMMA CompletedIs ==
  ASSUME FactoryInv, NEW d \in Desk, Whole(d, "template")
  PROVE  CompletedForm(d) \in Form /\ FormStands(CompletedForm(d))
<1>1. /\ files[d]["template"] \in TemplateForm
      /\ files[d]["template"].version \in 1..Len(log)
      /\ files[d]["template"].revision = Revision(files[d]["template"].version)
      /\ Unapplied(files[d]["template"].version) = {}
      /\ clicks \in Nat
  BY AtDesk DEF PapersGood, Whole
<1>2. CompletedForm(d) \in Form /\ CompletedForm(d).version = files[d]["template"].version
      /\ CompletedForm(d).revision = files[d]["template"].revision
  BY <1>1 DEF CompletedForm, Form, TemplateForm
<1> QED BY <1>1, <1>2 DEF FormStands

\* A review is asked for.
LEMMA StartReviewKeeps ==
  ASSUME DeskAssumption, FactoryInv, NEW d \in Desk, StartReview(d) PROVE FactoryInv'
<1>1. PICK s \in scenario.manuscript[d], a \in scenario.operator[d] : Continue(d, Review(d, s, a))
  BY DEF StartReview, Starts
<1>2. s \in Source /\ a \in Actor
  BY ScenarioIs
<1>3. PICK c : c = Review(d, s, a)
  OBVIOUS
<1>5. /\ c \in CallType /\ c.op = "review" /\ c.pc = "load" /\ c.source = s /\ c.by = a
      /\ c.text = 0 /\ c.work = 0 /\ c.known = 0
  BY <1>2, <1>3, ReviewIs
<1>6. CallGood(c) /\ WriteGood(d, c, files[d])
  BY <1>2, <1>5, AtDesk, CallBegins DEF Operation
<1>7. /\ UNCHANGED <<log, approval, files, signed, clicks, crashes, scenario>>
      /\ run' = [run EXCEPT ![d] = c]
  BY <1>1, <1>3 DEF StartReview, Starts, Continue
<1> QED BY <1>5, <1>6, <1>7, AtDesk, DeskStepKeeps

\* Decisions on the findings on file are brought.
LEMMA StartPrepareKeeps ==
  ASSUME DeskAssumption, FactoryInv, NEW d \in Desk, StartPrepare(d) PROVE FactoryInv'
<1>1. PICK D \in [files[d].findings.entries -> Status], s \in scenario.manuscript[d], a \in scenario.operator[d] :
        Continue(d, Prepare(d, s, a, D))
  BY DEF StartPrepare, Starts
<1>2. s \in Source /\ a \in Actor
  BY ScenarioIs
<1>3. D \in Decisions
  <2>1. files[d]["findings"].entries \subseteq Recorded(Len(log))
    BY AtDesk DEF StartPrepare, Whole, PapersGood
  <2>2. Len(log) \in 0..Len(log)
    BY AtDesk
  <2>3. files[d]["findings"].entries \subseteq Finding
    BY <2>1, <2>2, AtDesk, Derived
  <2> QED BY <1>1, <2>3 DEF Decisions
<1>4. PICK c : c = Prepare(d, s, a, D)
  OBVIOUS
<1>6. /\ c \in CallType /\ c.op = "prepare" /\ c.pc = "load" /\ c.source = s /\ c.by = a
      /\ c.text = 0 /\ c.work = 0 /\ c.known = 0
  BY <1>2, <1>3, <1>4, PrepareIs
<1>7. CallGood(c) /\ WriteGood(d, c, files[d])
  BY <1>2, <1>6, AtDesk, CallBegins DEF Operation
<1>8. /\ UNCHANGED <<log, approval, files, signed, clicks, crashes, scenario>>
      /\ run' = [run EXCEPT ![d] = c]
  BY <1>1, <1>4 DEF StartPrepare, Starts, Continue
<1> QED BY <1>6, <1>7, <1>8, AtDesk, DeskStepKeeps

\* A completed form is brought.
LEMMA PublishStarts ==
  ASSUME DeskAssumption, FactoryInv, NEW d \in Desk, NEW f \in Form, FormStands(f),
         NEW s \in scenario.manuscript[d], NEW a \in scenario.operator[d],
         Continue(d, PublishWith(d, s, a, f)), clicks' \in Nat,
         UNCHANGED <<log, approval, files, signed, crashes, scenario>>
  PROVE  FactoryInv'
<1>1. s \in Source /\ a \in Actor
  BY ScenarioIs
<1>2. PICK c : c = PublishWith(d, s, a, f)
  OBVIOUS
<1>3. /\ c \in CallType /\ c.op = "publish" /\ c.pc = "load" /\ c.source = s /\ c.by = a
      /\ c.text = 0 /\ c.work = 0 /\ c.known = 0 /\ c.form = f
  BY <1>1, <1>2, PublishIs
<1>4. CallGood(c) /\ WriteGood(d, c, files[d])
  BY <1>1, <1>3, AtDesk, CallBegins DEF Operation
<1>5. run' = [run EXCEPT ![d] = c]
  BY <1>2 DEF Continue
<1> QED BY <1>3, <1>4, <1>5, AtDesk, DeskStepKeeps

\* The console completes the form it shows.
LEMMA SignAndPublishKeeps ==
  ASSUME DeskAssumption, FactoryInv, NEW d \in Desk, SignAndPublish(d) PROVE FactoryInv'
<1>1. PICK f : f = CompletedForm(d)
  OBVIOUS
<1>2. f \in Form /\ FormStands(f)
  BY <1>1, CompletedIs DEF SignAndPublish, MaySign
<1>3. PICK s \in scenario.manuscript[d], a \in scenario.operator[d] : Continue(d, PublishWith(d, s, a, f))
  BY <1>1 DEF SignAndPublish, Starts
<1>4. clicks' \in Nat /\ UNCHANGED <<log, approval, files, signed, crashes, scenario>>
  BY AtDesk DEF SignAndPublish, MaySign, Starts
<1> QED BY <1>2, <1>3, <1>4, PublishStarts

\* The command line is given the form that was signed.
LEMMA StartPublishKeeps ==
  ASSUME DeskAssumption, FactoryInv, NEW d \in Desk, StartPublish(d) PROVE FactoryInv'
<1>1. PICK f : f = signed[d]
  OBVIOUS
<1>2. f \in Form /\ FormStands(f)
  BY <1>1, AtDesk DEF StartPublish, SignedGood
<1>3. PICK s \in scenario.manuscript[d], a \in scenario.operator[d] : Continue(d, PublishWith(d, s, a, f))
  BY <1>1 DEF StartPublish, Starts
<1>4. clicks' \in Nat /\ UNCHANGED <<log, approval, files, signed, crashes, scenario>>
  BY AtDesk DEF StartPublish, Starts
<1> QED BY <1>2, <1>3, <1>4, PublishStarts

\* A form is completed.
LEMMA SignKeeps ==
  ASSUME FactoryInv, NEW d \in Desk, Sign(d) PROVE FactoryInv'
<1>1. PICK g : g = CompletedForm(d)
  OBVIOUS
<1>2. g \in Form \cup {None} /\ SignedGood(g)
  BY <1>1, CompletedIs DEF Sign, MaySign, SignedGood
<1>3. /\ clicks' \in Nat /\ signed' = [signed EXCEPT ![d] = g]
      /\ UNCHANGED <<log, approval, run, files, crashes, scenario>>
  BY <1>1, AtDesk DEF Sign, MaySign
<1> QED BY <1>2, <1>3, AtDesk, DeskStepKeeps

\* A call that is at one of its files.
LEMMA AtFile ==
  ASSUME FactoryAssumption, FactoryInv, NEW d \in Desk, NEW r, r = run[d], r.pc \in Answered
  PROVE  /\ r \in CallType /\ CallGood(r) /\ r.op \in Operation /\ r.source \in Source /\ r.by \in Actor
         /\ r.text \in 1..Len(log) /\ r.work \in 1..Len(log) /\ r.work \in Nat /\ Len(log) \in Nat
         /\ log # <<>> /\ LogInv /\ ApprovalInv
         /\ Analysis(r.text) \subseteq Finding
         /\ r.op = "review" => Analysis(r.text) \subseteq Recorded(Len(log))
         /\ r.op = "prepare" =>
              /\ \A f \in DOMAIN r.brought : DecisionIs(f, r.brought[f], Len(log))
              /\ Unapplied(r.work) = {}
         /\ r.op = "publish" => approval # None /\ approval.version = r.work
<1>1. /\ r \in CallType /\ CallGood(r) /\ Len(log) \in Nat /\ LogInv /\ ApprovalInv
  BY AtStep
<1>2. /\ r.op \in Operation /\ r.source \in Source /\ r.by \in Actor
      /\ r.text \in 1..Len(log) /\ r.work \in 1..Len(log) /\ log # <<>>
  BY <1>1 DEF CallGood, Placed, Started, Located, Answered, PC, FileName
<1>3. Analysis(r.text) \subseteq Finding
  BY <1>1, <1>2, AnalysisIs
<1>4. r.pc # "decide"
  BY DEF Answered, FileName
<1> QED BY <1>1, <1>2, <1>3, <1>4 DEF CallGood, Records, Decides, Applies, Publishes

\* The next place of a call that has been answered is as good as this one.
LEMMA NextFile ==
  ASSUME FactoryAssumption, FactoryInv, NEW d \in Desk, NEW r, r = run[d], r.pc \in Answered,
         NEW n \in FileName, NEW s, s = [r EXCEPT !.pc = n]
  PROVE  s \in CallType /\ CallGood(s) /\ s.pc = n /\ s.op = r.op
<1>1. /\ s \in CallType /\ s.pc = n /\ s.op = r.op /\ s.source = r.source /\ s.by = r.by
      /\ s.text = r.text /\ s.work = r.work /\ s.known = r.known /\ s.left = r.left
      /\ s.brought = r.brought /\ s.form = r.form
  BY AtFile DEF CallType, PC
<1>2. /\ Placed(r) /\ Records(r) /\ Decides(r) /\ Applies(r) /\ Publishes(r)
      /\ r.op \in Operation
  BY AtFile DEF CallGood
<1>3. r.pc \notin {"idle", "refused", "decide", "patch", "reload", "check", "save"}
  BY DEF Answered, FileName
<1>4. Placed(s)
  BY <1>1, <1>2, AtFile DEF Placed, Started, Located, Answered, PC, FileName
<1>5. Records(s)
  BY <1>1, <1>2 DEF Records, Answered, FileName
<1>6. Decides(s)
  BY <1>1, <1>2, <1>3 DEF Decides, Answered, FileName
<1>7. Applies(s)
  BY <1>1, <1>2 DEF Applies, Answered, FileName
<1>8. Publishes(s)
  BY <1>1, <1>2, <1>3 DEF Publishes, Answered, FileName
<1> QED BY <1>1, <1>4, <1>5, <1>6, <1>7, <1>8 DEF CallGood

\* The answer of the factory is taken.
LEMMA TakeAnswerKeeps ==
  ASSUME FactoryAssumption, FactoryInv, NEW d \in Desk, TakeAnswer(d) PROVE FactoryInv'
<1> PICK r : r = run[d]
  OBVIOUS
<1>1. r.pc = "returned" /\ r.pc \in Answered
  BY DEF TakeAnswer, Answered
<1>2. r.source \in Source /\ r.by \in Actor /\ r.op \in Operation
  BY <1>1, AtFile
<1>3. UNCHANGED <<log, approval, files, signed, clicks, crashes, scenario>>
  BY DEF TakeAnswer
<1>4. ASSUME Continue(d, [Idle EXCEPT !.pc = "refused"]) PROVE FactoryInv'
  BY <1>3, <1>4, RefuseKeeps DEF Refuse
<1>5. ASSUME Continue(d, Prepare(d, r.source, r.by, <<>>)) PROVE FactoryInv'
  <2>1. PICK c : c = Prepare(d, r.source, r.by, <<>>)
    OBVIOUS
  <2>2. <<>> \in Decisions
    BY IdleIs
  <2>3. /\ c \in CallType /\ c.pc = "load" /\ c.op = "prepare" /\ c.source \in Source /\ c.by \in Actor
        /\ c.text = 0 /\ c.work = 0 /\ c.known = 0
    BY <1>2, <2>1, <2>2, PrepareIs
  <2>4. CallGood(c) /\ WriteGood(d, c, files[d])
    BY <2>3, AtDesk, CallBegins DEF Operation
  <2>5. run' = [run EXCEPT ![d] = c]
    BY <1>5, <2>1 DEF Continue
  <2> QED BY <1>3, <2>3, <2>4, <2>5, AtDesk, DeskStepKeeps
<1>6. ASSUME Continue(d, [r EXCEPT !.pc = Head(FilesOf(d, r.op))]) PROVE FactoryInv'
  <2>1. PICK n : n = Head(FilesOf(d, r.op))
    OBVIOUS
  <2>2. n \in FileName /\ 1 \in DOMAIN FilesOf(d, r.op) /\ n = FilesOf(d, r.op)[1]
    BY <1>2, <2>1, FilesDiffer
  <2>3. PICK s : s = [r EXCEPT !.pc = n]
    OBVIOUS
  <2>4. s \in CallType /\ CallGood(s) /\ s.pc = n /\ s.op = r.op
    BY <1>1, <2>2, <2>3, NextFile
  <2>5. WriteGood(d, s, files[d])
    BY <2>2, <2>4 DEF WriteGood
  <2>6. run' = [run EXCEPT ![d] = s]
    BY <1>6, <2>1, <2>3 DEF Continue
  <2> QED BY <1>3, <2>4, <2>5, <2>6, AtDesk, DeskStepKeeps
<1> QED BY <1>4, <1>5, <1>6 DEF TakeAnswer

\* Which files an operation writes.
LEMMA FileIs ==
  ASSUME NEW d \in Desk, NEW op \in Operation, NEW k \in DOMAIN FilesOf(d, op)
  PROVE  /\ FilesOf(d, op)[k] = "findings" => op = "review"
         /\ FilesOf(d, op)[k] = "decisions" => op = "prepare"
         /\ FilesOf(d, op)[k] = "template" => op \in {"prepare", "publish"}
         /\ \A i \in 1..5 : FilesOf(d, op)[k] = Exports[i] =>
              /\ op = "publish" /\ i = k
              /\ \A j \in 1..5 : FilesOf(d, op)[j] = Exports[j]
<1>1. CASE op = "review"
  BY <1>1, FilesAre, ExportsAre
<1>2. CASE op = "prepare"
  BY <1>2, FilesAre, ExportsAre
<1>3. CASE op = "publish"
  <2>1. k \in 1..5 \/ (k = 6 /\ FilesOf(d, op)[6] = "template")
    BY <1>3, FilesAre
  <2>2. \A j \in 1..5 : FilesOf(d, op)[j] = Exports[j]
    BY <1>3, FilesAre
  <2> QED BY <1>3, <2>1, <2>2, ExportsAre
<1> QED BY <1>1, <1>2, <1>3 DEF Operation

\* What a file holds once it has been written, or torn.
LEMMA FileLands ==
  ASSUME FactoryAssumption, DeskAssumption, NoneAssumption, FactoryInv, NEW d \in Desk,
         NEW r, r = run[d], NEW n \in FileName, n = r.pc,
         NEW c, c \in {Content(r, n), Torn},
         NEW F \in [FileName -> FileValue \cup {c}],
         F[n] = c, \A m \in FileName \ {n} : F[m] = files[d][m]
  PROVE  /\ F \in [FileName -> FileValue] /\ PapersGood(F)
         /\ r.op = "publish" => \A m \in FileName \ {"template"} : F[m] # None \/ (m # n /\ files[d][m] = None)
<1>1. /\ r \in CallType /\ CallGood(r) /\ r.op \in Operation
      /\ r.text \in 1..Len(log) /\ r.work \in 1..Len(log) /\ r.work \in Nat /\ Len(log) \in Nat
      /\ log \in Seq(Event) /\ ApprovalInv
      /\ Analysis(r.text) \subseteq Finding
      /\ r.op = "review" => Analysis(r.text) \subseteq Recorded(Len(log))
      /\ r.op = "prepare" =>
           /\ \A f \in DOMAIN r.brought : DecisionIs(f, r.brought[f], Len(log))
           /\ Unapplied(r.work) = {}
      /\ r.op = "publish" => approval # None /\ approval.version = r.work
  BY AtFile DEF Answered, LogInv
<1>2. /\ files[d] \in [FileName -> FileValue] /\ PapersGood(files[d])
      /\ WriteGood(d, r, files[d])
  BY AtDesk
<1>3. PICK k \in DOMAIN FilesOf(d, r.op) :
        /\ n = FilesOf(d, r.op)[k]
        /\ r.op = "publish" => \A j \in 1..(k-1) : files[d][FilesOf(d, r.op)[j]] # None
  BY <1>2 DEF WriteGood
<1>4. /\ n = "findings" => r.op = "review"
      /\ n = "decisions" => r.op = "prepare"
      /\ n = "template" => r.op \in {"prepare", "publish"}
      /\ \A i \in 1..5 : n = Exports[i] =>
           /\ r.op = "publish" /\ i = k
           /\ \A j \in 1..5 : FilesOf(d, r.op)[j] = Exports[j]
  BY <1>1, <1>3, FileIs
<1>5. F[n] = c /\ \A m \in FileName \ {n} : F[m] = files[d][m]
  BY <1>2
<1>6. PICK t : t = [version |-> r.work, revision |-> Revision(r.work), approved |-> r.op = "publish"]
  OBVIOUS
<1>7. Revision(r.work) \in Nat
  BY <1>1, Derived
<1>8. t \in TemplateForm
  BY <1>1, <1>6, <1>7 DEF TemplateForm
<1> PICK found : found = [entries |-> Analysis(r.text)]
  OBVIOUS
<1> PICK decided : decided = [entries |-> {<<f, r.brought[f]>> : f \in DOMAIN r.brought}]
  OBVIOUS
<1>9. Content(r, n) = IF n = "findings" THEN found
                      ELSE IF n = "template" THEN t
                      ELSE IF n = "decisions" THEN decided ELSE r.work
  <2>1. CASE n = "findings"
    BY <2>1 DEF Content
  <2>2. CASE n = "template"
    <3>1. Content(r, n) = IF r.op = "prepare" THEN Template(r.work)
                          ELSE [Template(r.work) EXCEPT !.approved = TRUE]
      BY <2>2 DEF Content
    <3>2. CASE r.op = "prepare"
      <4>1. (r.op = "publish") = FALSE
        BY <3>2
      <4> QED BY <1>6, <2>2, <3>1, <3>2, <4>1 DEF Template
    <3>3. CASE r.op = "publish"
      <4>1. (r.op = "publish") = TRUE
        BY <3>3
      <4> QED BY <1>6, <2>2, <3>1, <3>3, <4>1 DEF Template
    <3> QED BY <1>4, <2>2, <3>2, <3>3
  <2>3. CASE n \notin {"findings", "template"}
    BY <2>3 DEF Content
  <2> QED BY <2>1, <2>2, <2>3
<1>10. c \in FileValue
  <2>1. ASSUME NEW x, x \in List \/ x \in TemplateForm \/ x \in Nat \/ x = Torn
        PROVE  x \in FileValue
    BY <2>1, Zenon DEF FileValue
  <2>2. found \in List
    BY <1>1, ListsAre
  <2>3. decided \in List
    <3>1. r.brought \in Decisions
      BY <1>1 DEF CallType
    <3>2. PICK G \in SUBSET Finding : r.brought \in [G -> Status]
      BY <3>1 DEF Decisions
    <3>3. PICK D : D = {<<f, r.brought[f]>> : f \in DOMAIN r.brought}
      OBVIOUS
    <3>4. D \in SUBSET (Finding \X Status)
      BY <3>2, <3>3
    <3> QED BY <3>3, <3>4, ListsAre
  <2>4. found \in FileValue /\ decided \in FileValue /\ t \in FileValue
    BY <1>8, <2>1, <2>2, <2>3
  <2>5. r.work \in FileValue /\ Torn \in FileValue
    BY <1>1, <2>1
  <2> QED BY <1>9, <2>4, <2>5
<1>11. F \in [FileName -> FileValue]
  BY <1>2, <1>10
<1>12. r.op = "publish" /\ n # "template" => c # None
  <2>1. r.work # None /\ Torn # None
    BY <1>1 DEF NoneAssumption, DeskAssumption
  <2> QED BY <1>4, <1>9, <2>1
<1>13. /\ F["findings"] \notin {None, Torn} => F["findings"].entries \subseteq Recorded(Len(log))
       /\ F["decisions"] \notin {None, Torn} =>
            \A e \in F["decisions"].entries : DecisionIs(e[1], e[2], Len(log))
  <2>1. "findings" \in FileName /\ "decisions" \in FileName
    BY DEF FileName
  <2>2. CASE n = "findings"
    BY <1>1, <1>2, <1>4, <1>5, <1>9, <2>1, <2>2 DEF PapersGood
  <2>3. CASE n = "decisions"
    BY <1>1, <1>2, <1>4, <1>5, <1>9, <2>1, <2>3 DEF PapersGood
  <2>4. CASE n \notin {"findings", "decisions"}
    BY <1>2, <1>5, <2>1, <2>4 DEF PapersGood
  <2> QED BY <2>2, <2>3, <2>4
<1>14. F["template"] \notin {None, Torn} =>
         /\ F["template"] \in TemplateForm
         /\ F["template"].version \in 1..Len(log)
         /\ F["template"].revision = Revision(F["template"].version)
         /\ Unapplied(F["template"].version) = {}
         /\ F["template"].approved => approval # None /\ approval.version = F["template"].version
  <2>1. "template" \in FileName
    BY DEF FileName
  <2>2. CASE n = "template" /\ c # Torn
    <3>1. F["template"] = t
      BY <1>5, <1>9, <2>2
    <3>2. Unapplied(r.work) = {}
      BY <1>1, <1>4, <2>2 DEF ApprovalInv, FormStands
    <3>3. t.version = r.work /\ t.revision = Revision(r.work) /\ t.approved = (r.op = "publish")
      BY <1>6
    <3> QED BY <1>1, <1>8, <3>1, <3>2, <3>3
  <2>3. CASE n = "template" /\ c = Torn
    BY <1>5, <2>3
  <2>4. CASE n # "template"
    BY <1>2, <1>5, <2>1, <2>4 DEF PapersGood
  <2> QED BY <2>2, <2>3, <2>4
<1>15. \A m \in FileName \ {"template"} : r.op = "publish" /\ files[d][m] # None => F[m] # None
  BY <1>5, <1>12
<1>16. ASSUME NEW i \in 1..5, F[Exports[i]] # None
       PROVE  /\ approval # None /\ F[Exports[i]] \in {Torn, approval.version}
              /\ \A j \in 1..(i-1) : F[Exports[j]] # None
  <2>1. \A j \in 1..5 : Exports[j] \in FileName \ {"findings", "template", "decisions"}
    BY ExportsAre
  <2>2. CASE n = Exports[i]
    <3>1. r.op = "publish" /\ i = k /\ \A j \in 1..5 : FilesOf(d, r.op)[j] = Exports[j]
      BY <1>4, <2>2
    <3>2. \A j \in 1..(i-1) : files[d][Exports[j]] # None
      BY <1>3, <3>1
    <3>3. \A j \in 1..(i-1) : F[Exports[j]] # None
      BY <1>15, <2>1, <3>1, <3>2
    <3>4. F[Exports[i]] = c /\ c \in {Torn, r.work}
      BY <1>5, <1>9, <2>1, <2>2
    <3> QED BY <1>1, <3>1, <3>3, <3>4
  <2>3. CASE n # Exports[i]
    <3>1. F[Exports[i]] = files[d][Exports[i]]
      BY <1>5, <2>1, <2>3
    <3>2. /\ approval # None /\ F[Exports[i]] \in {Torn, approval.version}
          /\ \A j \in 1..(i-1) : files[d][Exports[j]] # None
      BY <1>2, <1>16, <3>1 DEF PapersGood
    <3>3. \A j \in 1..(i-1) : F[Exports[j]] # None
      <4> TAKE j \in 1..(i-1)
      <4>1. j \in 1..5 /\ Exports[j] \in FileName /\ files[d][Exports[j]] # None
        BY <2>1, <3>2
      <4>2. CASE n = Exports[j]
        BY <1>4, <1>15, <2>1, <4>1, <4>2
      <4>3. CASE n # Exports[j]
        BY <1>5, <4>1, <4>3
      <4> QED BY <4>2, <4>3
    <3> QED BY <3>2, <3>3
  <2> QED BY <2>2, <2>3
<1>17. PapersGood(F)
  BY <1>13, <1>14, <1>16 DEF PapersGood
<1>18. r.op = "publish" => \A m \in FileName \ {"template"} : F[m] # None \/ (m # n /\ files[d][m] = None)
  BY <1>5, <1>12
<1> QED BY <1>11, <1>17, <1>18

\* A call that is over knows nothing.
LEMMA IdleIsGood ==
  ASSUME Len(log) \in Nat
  PROVE  Idle \in CallType /\ CallGood(Idle) /\ \A d, F : WriteGood(d, Idle, F)
<1>1. PICK s : s = Idle
  OBVIOUS
<1>2. /\ s \in CallType /\ s.pc = "idle" /\ s.text = 0 /\ s.work = 0 /\ s.known = 0
      /\ s.op = None /\ s.left = {}
  BY <1>1, IdleIs DEF Idle
<1>3. CallGood(s)
  BY <1>2 DEF CallGood, Placed, Records, Decides, Applies, Publishes, Started, Located,
     Answered, PC, FileName
<1>4. \A d, F : WriteGood(d, s, F)
  BY <1>2 DEF WriteGood, FileName
<1> QED BY <1>1, <1>2, <1>3, <1>4

\* A file is written.
LEMMA WriteFileKeeps ==
  ASSUME FactoryAssumption, DeskAssumption, NoneAssumption, FactoryInv, NEW d \in Desk, WriteFile(d)
  PROVE  FactoryInv'
<1> PICK r : r = run[d]
  OBVIOUS
<1> PICK n : n = r.pc
  OBVIOUS
<1>1. /\ n \in FileName /\ r.pc \in Answered
      /\ UNCHANGED <<log, approval, signed, clicks, crashes, scenario>>
  BY DEF WriteFile, Writing, Answered
<1>2. /\ r \in CallType /\ r.op \in Operation /\ WriteGood(d, r, files[d])
      /\ files \in [Desk -> [FileName -> FileValue]]
  BY <1>1, AtFile, AtDesk DEF FactoryInv, DeskTypes
<1>3. PICK c : c = Content(r, n)
  OBVIOUS
<1>4. PICK F : F = [files[d] EXCEPT ![n] = c]
  OBVIOUS
<1>5. files' = [files EXCEPT ![d] = F]
  BY <1>3, <1>4 DEF WriteFile
<1>11. /\ F \in [FileName -> FileValue \cup {c}]
       /\ F[n] = c /\ \A m \in FileName \ {n} : F[m] = files[d][m]
  BY <1>1, <1>2, <1>4
<1>6. /\ F \in [FileName -> FileValue] /\ PapersGood(F)
      /\ r.op = "publish" =>
           \A m \in FileName \ {"template"} : F[m] # None \/ (m # n /\ files[d][m] = None)
  <2>1. c \in {Content(r, n), Torn}
    BY <1>3
  <2> QED BY <1>1, <1>11, <2>1, FileLands
<1>7. PICK k \in DOMAIN FilesOf(d, r.op) :
        /\ n = FilesOf(d, r.op)[k]
        /\ r.op = "publish" => \A j \in 1..(k-1) : files[d][FilesOf(d, r.op)[j]] # None
  BY <1>1, <1>2 DEF WriteGood
<1>8. run' = [run EXCEPT ![d] = After(d, r)]
  BY DEF WriteFile, Continue
<1>9. CASE k = Len(FilesOf(d, r.op))
  <2>1. PICK s : s = Idle
    OBVIOUS
  <2>2. After(d, r) = s
    BY <1>2, <1>7, <1>9, <2>1, AfterIs
  <2>3. s \in CallType /\ CallGood(s) /\ WriteGood(d, s, F)
    BY <2>1, IdleIsGood, AtDesk
  <2> QED BY <1>1, <1>5, <1>6, <1>8, <2>2, <2>3, AtDesk, DeskStepKeeps
<1>10. CASE k # Len(FilesOf(d, r.op))
  <2>1. DOMAIN FilesOf(d, r.op) = 1..Len(FilesOf(d, r.op)) /\ Len(FilesOf(d, r.op)) \in Nat
    BY <1>2, FilesDiffer
  <2>2. k + 1 \in DOMAIN FilesOf(d, r.op) /\ k \in Nat
    BY <1>10, <2>1
  <2>3. PICK m : m = FilesOf(d, r.op)[k + 1]
    OBVIOUS
  <2>4. m \in FileName
    BY <1>2, <2>2, <2>3, FilesDiffer
  <2>5. PICK s : s = [r EXCEPT !.pc = m]
    OBVIOUS
  <2>6. After(d, r) = s
    <3>1. FilesOf(d, r.op)[k] = r.pc
      BY <1>7
    <3>2. After(d, r) = IF k = Len(FilesOf(d, r.op)) THEN Idle
                        ELSE [r EXCEPT !.pc = FilesOf(d, r.op)[k + 1]]
      BY <1>2, <3>1, AfterIs, Zenon
    <3> QED BY <1>10, <2>3, <2>5, <3>2
  <2>7. s \in CallType /\ CallGood(s) /\ s.pc = m /\ s.op = r.op
    BY <1>1, <2>4, <2>5, NextFile
  <2>8. r.op = "publish" => \A j \in 1..k : F[FilesOf(d, r.op)[j]] # None
    <3> SUFFICES ASSUME r.op = "publish", NEW j \in 1..k
                 PROVE  F[FilesOf(d, r.op)[j]] # None
      OBVIOUS
    <3>1. k <= 5
      <4>1. Len(FilesOf(d, r.op)) \in {5, 6}
        BY FilesAre
      <4>2. PICK L : L = Len(FilesOf(d, r.op))
        OBVIOUS
      <4>3. k \in 1..L /\ L \in {5, 6} /\ k # L
        BY <1>10, <2>1, <4>1, <4>2
      <4> QED BY <4>3
    <3>2. j \in 1..5
      BY <2>2, <3>1
    <3>3. FilesOf(d, r.op)[j] = Exports[j] /\ Exports[j] \in FileName \ {"template"}
      BY <3>2, FilesAre, ExportsAre
    <3>4. CASE j = k
      BY <1>6, <1>7, <3>3, <3>4
    <3>5. CASE j # k
      <4>1. j \in 1..(k-1)
        BY <2>2, <3>5
      <4> QED BY <1>6, <1>7, <3>3, <4>1
    <3> QED BY <3>4, <3>5
  <2>9. WriteGood(d, s, F)
    <3>1. (k + 1) - 1 = k
      BY <2>2
    <3> QED BY <2>2, <2>3, <2>7, <2>8, <3>1 DEF WriteGood
  <2> QED BY <1>1, <1>5, <1>6, <1>8, <2>6, <2>7, <2>9, AtDesk, DeskStepKeeps
<1> QED BY <1>9, <1>10

\* A process dies.
LEMMA CrashKeeps ==
  ASSUME FactoryAssumption, DeskAssumption, NoneAssumption, FactoryInv, NEW d \in Desk, Crash(d)
  PROVE  FactoryInv'
<1> PICK s : s = Idle
  OBVIOUS
<1>1. /\ crashes' \in Nat /\ clicks' \in Nat /\ UNCHANGED <<log, approval, signed, scenario>>
      /\ run' = [run EXCEPT ![d] = s]
  BY AtDesk DEF Crash, Continue
<1>2. s \in CallType /\ CallGood(s) /\ \A F : WriteGood(d, s, F)
  BY IdleIsGood, AtDesk
<1>3. CASE UNCHANGED files
  BY <1>1, <1>2, <1>3, AtDesk, DeskStepKeeps
<1>4. CASE Writing(d) /\ files' = [files EXCEPT ![d][run[d].pc] = Torn]
  <2>1. PICK r : r = run[d]
    OBVIOUS
  <2>2. PICK n : n = r.pc
    OBVIOUS
  <2>3. n \in FileName
    BY <1>4, <2>1, <2>2 DEF Writing
  <2>4. PICK F : F = [files[d] EXCEPT ![n] = Torn]
    OBVIOUS
  <2>5. files' = [files EXCEPT ![d] = F]
    BY <1>4, <2>1, <2>2, <2>4
  <2>6. F \in [FileName -> FileValue] /\ PapersGood(F)
    <3>1. files[d] \in [FileName -> FileValue]
      BY AtDesk
    <3>2. /\ F \in [FileName -> FileValue \cup {Torn}]
          /\ F[n] = Torn /\ \A m \in FileName \ {n} : F[m] = files[d][m]
      BY <2>3, <2>4, <3>1
    <3> QED BY <2>1, <2>2, <2>3, <3>2, FileLands
  <2> QED BY <1>1, <1>2, <2>5, <2>6, AtDesk, DeskStepKeeps
<1> QED BY <1>3, <1>4 DEF Crash

\* Every step.
LEMMA DeskKeeps ==
  ASSUME FactoryAssumption, DeskAssumption, NoneAssumption, FactoryInv, [DeskNext]_deskVars
  PROVE  FactoryInv'
<1>1. CASE UNCHANGED deskVars
  <2>1. UNCHANGED <<log, approval, run, files, signed, clicks, crashes, scenario>>
    BY <1>1 DEF deskVars
  <2>2. \A t, v : OfType(t, v)' = OfType(t, v)
    BY <2>1 DEF OfType
  <2>3. \A v : /\ Recorded(v)' = Recorded(v) /\ Decided(v)' = Decided(v) /\ Revision(v)' = Revision(v)
               /\ Accepted(v)' = Accepted(v) /\ Corrected(v)' = Corrected(v)
               /\ \A f, s : DecisionIs(f, s, v)' = DecisionIs(f, s, v)
    BY <2>1, <2>2 DEF Recorded, Decided, Revision, Accepted, Corrected, DecisionIs
  <2>4. \A v : Unapplied(v)' = Unapplied(v)
    BY <2>3 DEF Unapplied
  <2>5. LogInv'
    BY <2>1, <2>2, <2>3 DEF FactoryInv, LogInv, HistoryReplays, PatchesApplyWhatWasAccepted
  <2>6. \A f : FormStands(f)' <=> FormStands(f)
    BY <2>1, <2>3, <2>4 DEF FormStands
  <2>7. ApprovalInv'
    BY <2>1, <2>3, <2>6 DEF FactoryInv, ApprovalInv
  <2>8. log \in Seq(Event) /\ Grows
    BY <2>1 DEF Grows, FactoryInv, LogInv
  <2>9. DeskGood'
    <3> SUFFICES ASSUME NEW e \in Desk
                 PROVE  (CallGood(run[e]) /\ WriteGood(e, run[e], files[e])
                         /\ PapersGood(files[e]) /\ SignedGood(signed[e]))'
      BY DEF DeskGood
    <3> PICK r \in CallType : r = run[e]
      BY DEF FactoryInv, DeskTypes
    <3> PICK F : F = files[e]
      OBVIOUS
    <3> PICK g : g = signed[e]
      OBVIOUS
    <3>1. CallGood(r) /\ WriteGood(e, r, F) /\ PapersGood(F) /\ SignedGood(g)
      BY DEF FactoryInv, DeskGood
    <3>2. CallGood(r)' /\ PapersGood(F)' /\ SignedGood(g)'
      BY <2>1, <2>6, <2>8, <3>1, CallStays, PapersStay DEF SignedGood
    <3>3. WriteGood(e, r, F)'
      BY <3>1 DEF WriteGood
    <3> QED BY <2>1, <3>2, <3>3
  <2>10. DeskTypes'
    BY <2>1 DEF FactoryInv, DeskTypes
  <2> QED BY <2>5, <2>7, <2>9, <2>10 DEF FactoryInv
<1>2. ASSUME NEW d \in Desk, StartReview(d) \/ StartPrepare(d) \/ SignAndPublish(d) \/ Sign(d) \/ StartPublish(d)
      PROVE  FactoryInv'
  BY <1>2, StartReviewKeeps, StartPrepareKeeps, SignAndPublishKeeps, SignKeeps, StartPublishKeeps
<1>3. ASSUME NEW d \in Desk, CallStep(d) \/ Crash(d)
      PROVE  FactoryInv'
  BY <1>3, FactoryKeeps, TakeAnswerKeeps, WriteFileKeeps, CrashKeeps DEF CallStep
<1> QED BY <1>1, <1>2, <1>3 DEF DeskNext

\* What the desks begin with.
LEMMA DeskBegins ==
  ASSUME FactoryAssumption, DeskAssumption, NoneAssumption, DeskInit
  PROVE  FactoryInv
<1>1. /\ log = <<>> /\ approval = None /\ run = [d \in Desk |-> Idle]
      /\ files = [d \in Desk |-> [name \in FileName |-> None]] /\ signed = [d \in Desk |-> None]
      /\ scenario \in Scenario /\ clicks = scenario.clicks /\ crashes = scenario.crashes
  BY DEF DeskInit, FactoryInit
<1>2. Len(log) = 0 /\ log \in Seq(Event) /\ \A t : OfType(t, Len(log)) = {}
  BY <1>1 DEF OfType
<1>3. LogInv
  <2>1. DOMAIN log = {}
    BY <1>1
  <2>2. HistoryReplays
    BY <2>1 DEF HistoryReplays
  <2> QED BY <1>2, <2>2 DEF LogInv, PatchesApplyWhatWasAccepted
<1>4. Idle \in CallType /\ CallGood(Idle) /\ \A d, F : WriteGood(d, Idle, F)
  BY <1>2, IdleIsGood
<1>5. DeskTypes
  <2>1. clicks \in Nat /\ crashes \in Nat
    BY <1>1 DEF DeskAssumption
  <2>2. None \in FileValue
    BY Zenon DEF FileValue
  <2> QED BY <1>1, <1>4, <2>1, <2>2 DEF DeskTypes
<1>6. DeskGood
  <2>1. PICK F : F = [name \in FileName |-> None]
    OBVIOUS
  <2>2. \A name \in FileName : F[name] = None
    BY <2>1
  <2>3. PapersGood(F)
    BY <2>2, ExportsAre DEF PapersGood, FileName
  <2> QED BY <1>1, <1>4, <2>1, <2>3 DEF DeskGood, SignedGood
<1> QED BY <1>1, <1>3, <1>5, <1>6 DEF FactoryInv, ApprovalInv

----------------------------------------------------------------------------
(* The theorems *)

\* The invariant.
LEMMA FactoryIsGood == DeskSpec => []FactoryInv
<1>1. DeskInit => FactoryInv
  BY DeskBegins, FactoryAssumption, DeskAssumption, NoneAssumption
<1>2. FactoryInv /\ [DeskNext]_deskVars => FactoryInv'
  BY DeskKeeps, FactoryAssumption, DeskAssumption, NoneAssumption
<1> QED BY <1>1, <1>2, PTL DEF DeskSpec

\* Work.replay and ReviewHistory.replay never raise on the stored events, however
\* many processes review, decide and patch and wherever they die.
THEOREM StoredHistoryReplays == DeskSpec => []HistoryReplays
<1>1. FactoryInv => HistoryReplays
  BY DEF FactoryInv, LogInv
<1> QED BY <1>1, FactoryIsGood, PTL

\* The patch of _apply_accepted corrects exactly what the stored decisions accepted.
THEOREM PatchesFollowDecisions == DeskSpec => []PatchesApplyWhatWasAccepted
<1>1. FactoryInv => PatchesApplyWhatWasAccepted
  BY DEF FactoryInv, LogInv
<1> QED BY <1>1, FactoryIsGood, PTL

\* publish approves a version whose findings are decided and whose accepted
\* corrections of the first text are applied.
THEOREM ApprovalIsOfASettledText == DeskSpec => []ApprovedIsSettled
<1>1. FactoryInv => ApprovedIsSettled
  <2> SUFFICES ASSUME FactoryInv, approval # None
               PROVE  approval.version \in SettledVersions /\ approval.revision = Revision(approval.version)
    BY DEF ApprovedIsSettled
  <2>1. /\ FormStands(approval) /\ Recorded(approval.version) \subseteq Decided(Len(log))
        /\ log \in Seq(Event)
    BY DEF FactoryInv, ApprovalInv, LogInv
  <2>2. approval.version \in DOMAIN log
    BY <2>1 DEF FormStands
  <2>3. Recorded(approval.version) \cap Open(Len(log)) = {}
    BY <2>1 DEF Open
  <2> QED BY <2>1, <2>2, <2>3 DEF SettledVersions, FormStands
<1> QED BY <1>1, FactoryIsGood, PTL

\* What the two desks export is the approved edition, file after file.
THEOREM ExportsAreTheApprovedEdition == DeskSpec => []ExportsAgree
<1>1. FactoryInv => ExportsAgree
  <2> SUFFICES ASSUME FactoryInv, NEW d \in Desk, NEW i \in DOMAIN Exports,
                      files[d][Exports[i]] # None
               PROVE  /\ approval # None /\ files[d][Exports[i]] \in {Torn, approval.version}
                      /\ \A j \in 1..(i-1) : files[d][Exports[j]] # None
    BY DEF ExportsAgree
  <2>1. DOMAIN Exports = 1..5
    BY DEF Exports
  <2>2. PapersGood(files[d])
    BY AtDesk
  <2> QED BY <2>1, <2>2 DEF PapersGood
<1> QED BY <1>1, FactoryIsGood, PTL

\* What a desk shows of the stored work is in the stored work.
THEOREM PapersTellTheTruth == DeskSpec => []PapersAreTrue
<1>1. FactoryInv => PapersAreTrue
  <2> SUFFICES ASSUME FactoryInv, NEW d \in Desk
               PROVE  /\ Whole(d, "findings") => files[d].findings.entries \subseteq Recorded(Len(log))
                      /\ Whole(d, "decisions") => \A e \in files[d].decisions.entries :
                           DecisionIs(e[1], e[2], Len(log))
                      /\ Whole(d, "template") =>
                           /\ files[d].template.version \in DOMAIN log
                           /\ files[d].template.revision = Revision(files[d].template.version)
                           /\ files[d].template.approved =>
                                approval # None /\ approval.version = files[d].template.version
    BY DEF PapersAreTrue
  <2>1. PapersGood(files[d]) /\ DOMAIN log = 1..Len(log)
    BY AtDesk
  <2> QED BY <2>1 DEF PapersGood, Whole
<1> QED BY <1>1, FactoryIsGood, PTL

\* The desks are well typed.
THEOREM DesksAreTyped == DeskSpec => []DeskTypeOK
<1>1. FactoryInv => DeskTypeOK
  <2> SUFFICES ASSUME FactoryInv PROVE DeskTypeOK
    OBVIOUS
  <2>1. \A i \in DOMAIN log : log[i].type \in {"ingested", "recorded", "decided", "patched"}
    <3> TAKE i \in DOMAIN log
    <3>1. log[i] \in Event
      BY DEF FactoryInv, LogInv
    <3> QED BY <3>1 DEF Event
  <2>2. ASSUME NEW d \in Desk
        PROVE  /\ run[d].pc \in PC
               /\ run[d].work \in Index /\ run[d].known \in Index /\ run[d].text \in Index
               /\ run[d].left \subseteq Finding
               /\ DOMAIN files[d] = FileName
    BY AtDesk DEF CallType, CallGood, Placed, Index
  <2>3. clicks \in Nat /\ crashes \in Nat /\ scenario \in Scenario
    BY DEF FactoryInv, DeskTypes
  <2> QED BY <2>1, <2>2, <2>3 DEF DeskTypeOK, PC
<1> QED BY <1>1, FactoryIsGood, PTL

\* The desks as the promise sees them.
Approved == IF approval = None THEN None ELSE approval.version
Released == {files[d][Exports[i]] : d \in Desk, i \in DOMAIN Exports} \ {None, Torn}

\* A version that is settled stays settled.
LEMMA SettledStays ==
  ASSUME log \in Seq(Event), Grows
  PROVE  SettledVersions \subseteq SettledVersions'
<1> SUFFICES ASSUME NEW v \in SettledVersions PROVE v \in SettledVersions'
  OBVIOUS
<1>1. /\ v \in 1..Len(log) /\ Recorded(v) \cap Open(Len(log)) = {} /\ Unapplied(v) = {}
      /\ Len(log) \in Nat /\ Len(log') \in Nat /\ Len(log) <= Len(log') /\ log' \in Seq(Event)
  BY GrownLog DEF SettledVersions
<1>2. v \in 0..Len(log)
  BY <1>1
<1>3. Recorded(v)' = Recorded(v) /\ Unapplied(v)' = Unapplied(v)
  BY <1>2, PrefixStays
<1>4. Recorded(v) \subseteq Recorded(Len(log))
  BY <1>1, <1>2, PrefixHoldsLess
<1>5. Recorded(v) \subseteq Decided(Len(log))'
  BY <1>1, <1>4, NothingUndone DEF Open
<1>6. Recorded(v)' \cap Open(Len(log))' = {}
  BY <1>3, <1>5 DEF Open
<1>7. v \in DOMAIN log'
  BY <1>1
<1> QED BY <1>1, <1>3, <1>6, <1>7 DEF SettledVersions

\* One step stores an event, or an approval where there is none, or a file.
LEMMA OneAtATime ==
  ASSUME FactoryInv, FactoryInv', [DeskNext]_deskVars
  PROVE  /\ Grows
         /\ log' = log \/ files' = files
         /\ \/ approval' = approval
            \/ approval = None /\ log' = log /\ files' = files
<1>1. log \in Seq(Event) /\ log' \in Seq(Event)
  BY DEF FactoryInv, LogInv
<1>2. ASSUME NEW e, log' = Append(log, e) PROVE Grows
  <2>1. Len(log) + 1 \in DOMAIN log' /\ log'[Len(log) + 1] = e
    BY <1>1, <1>2
  <2>2. e \in Event
    BY <1>1, <2>1
  <2> QED BY <1>2, <2>2 DEF Grows
<1>3. log' = log => Grows
  BY DEF Grows
<1>4. ASSUME NEW d \in Desk, Factory(d)
      PROVE  /\ files' = files
             /\ (\E e : log' = Append(log, e)) \/ log' = log
             /\ approval' = approval \/ (approval = None /\ log' = log)
  <2>1. files' = files /\ FactoryStep(d)
    BY <1>4 DEF Factory
  <2>2. ASSUME Refuse(d) \/ \E r : Reads(d, r) PROVE log' = log /\ approval' = approval
    BY <2>2 DEF Refuse, Reads
  <2>3. CASE Load(d) \/ Reread(d) \/ History(d) \/ Reviewed(d) \/ Resolve(d) \/ Resolved(d)
             \/ Prepared(d) \/ Check(d)
    BY <2>1, <2>2, <2>3 DEF Load, Reread, History, Reviewed, Resolve, Resolved, Prepared, Check
  <2>4. CASE Ingest(d)
    <3>1. CASE Refuse(d)
      BY <2>1, <2>2, <3>1
    <3>2. CASE log = <<>> /\ log' = <<Ingested(run[d].source)>> /\ approval' = approval
      <4>1. log' = Append(log, Ingested(run[d].source))
        BY <3>2
      <4> QED BY <2>1, <3>2, <4>1
    <3> QED BY <2>4, <3>1, <3>2 DEF Ingest
  <2>5. CASE Record(d)
    BY <2>1, <2>2, <2>5 DEF Record
  <2>6. CASE Decide(d)
    BY <2>1, <2>2, <2>6 DEF Decide
  <2>7. CASE ApplyAccepted(d)
    BY <2>1, <2>2, <2>7 DEF ApplyAccepted
  <2>8. CASE Save(d)
    BY <2>1, <2>2, <2>8 DEF Save
  <2> QED BY <2>1, <2>3, <2>4, <2>5, <2>6, <2>7, <2>8 DEF FactoryStep
<1>5. ASSUME NEW d \in Desk,
             StartReview(d) \/ StartPrepare(d) \/ SignAndPublish(d) \/ Sign(d) \/ StartPublish(d)
             \/ TakeAnswer(d) \/ WriteFile(d) \/ Crash(d)
      PROVE  log' = log /\ approval' = approval
  BY <1>5 DEF StartReview, StartPrepare, SignAndPublish, Sign, StartPublish, Starts, TakeAnswer,
     WriteFile, Crash
<1>6. CASE UNCHANGED deskVars
  BY <1>3, <1>6 DEF deskVars
<1> QED BY <1>2, <1>3, <1>4, <1>5, <1>6 DEF DeskNext, CallStep

\* Every step of the desks is one of the promise, or leaves it alone.
LEMMA StepKeepsPromise ==
  ASSUME NoneAssumption, FactoryInv, FactoryInv', [DeskNext]_deskVars,
         ExportsAgree, ExportsAgree', ApprovedIsSettled'
  PROVE  [Promise!PromiseNext]_Promise!promiseVars
<1>1. /\ Grows /\ log \in Seq(Event) /\ (log' = log \/ files' = files)
      /\ \/ approval' = approval
         \/ approval = None /\ log' = log /\ files' = files
  BY OneAtATime DEF FactoryInv, LogInv
<1>2. SettledVersions \subseteq SettledVersions'
  BY <1>1, SettledStays
<1>3. ASSUME log' = log PROVE SettledVersions' = SettledVersions
  BY <1>3 DEF SettledVersions, Open, Unapplied, Accepted, Corrected, Recorded, Decided, OfType
<1>4. files' = files => Released' = Released
  BY DEF Released
<1>5. approval' = approval => Approved' = Approved
  BY DEF Approved
<1>6. Promise!Settle <=> (Approved' = Approved /\ Released' = Released /\ SettledVersions \subseteq SettledVersions')
  BY DEF Promise!Settle, Approved, Released
<1>7. Promise!Approve <=> (/\ Approved = None /\ Approved' \in SettledVersions
                           /\ SettledVersions' = SettledVersions /\ Released' = Released)
  BY DEF Promise!Approve, Approved, Released
<1>8. Promise!Release <=> (/\ Approved # None /\ Released' \subseteq {Approved}
                           /\ SettledVersions' = SettledVersions /\ Approved' = Approved)
  BY DEF Promise!Release, Approved, Released
<1>9. /\ approval \in Form \cup {None} /\ approval' \in Form \cup {None}
      /\ ApprovalInv' /\ log' \in Seq(Event)
  BY DEF FactoryInv, DeskTypes, LogInv
<1>10. approval # None => Approved # None
  <2> SUFFICES ASSUME approval # None PROVE approval.version # None
    BY DEF Approved
  <2>1. approval.version \in Nat
    BY <1>9 DEF Form
  <2> QED BY <2>1 DEF NoneAssumption
<1>11. CASE approval' = approval /\ files' = files
  BY <1>2, <1>4, <1>5, <1>6, <1>11 DEF Promise!PromiseNext
<1>12. CASE approval' = approval /\ log' = log
  <2>1. Released \subseteq (IF approval = None THEN {} ELSE {approval.version})
    BY DEF ExportsAgree, Released
  <2>2. Released' \subseteq (IF approval' = None THEN {} ELSE {approval'.version})
    BY DEF ExportsAgree, Released
  <2>3. CASE approval = None
    BY <1>2, <1>5, <1>6, <1>12, <2>1, <2>2, <2>3 DEF Promise!PromiseNext
  <2>4. CASE approval # None
    BY <1>3, <1>5, <1>8, <1>10, <1>12, <2>2, <2>4 DEF Promise!PromiseNext, Approved
  <2> QED BY <2>3, <2>4
<1>13. CASE approval' # approval
  <2>1. approval = None /\ approval' # None /\ log' = log /\ files' = files
    BY <1>1, <1>13
  <2>2. approval'.version \in SettledVersions'
    BY <2>1 DEF ApprovedIsSettled
  <2>3. Approved = None /\ Approved' = approval'.version
    BY <2>1 DEF Approved
  <2> QED BY <1>3, <1>4, <1>7, <2>1, <2>2, <2>3 DEF Promise!PromiseNext
<1> QED BY <1>1, <1>11, <1>12, <1>13

\* The desks implement the promise of EditionPromise: one edition is approved, once,
\* when its version is settled, and no other is given out.
THEOREM DesksKeepThePromise == DeskSpec => PromiseKept
<1>1. DeskInit => Promise!PromiseInit
  <2> SUFFICES ASSUME DeskInit PROVE Promise!PromiseInit
    OBVIOUS
  <2>1. /\ log = <<>> /\ approval = None /\ files = [d \in Desk |-> [name \in FileName |-> None]]
    BY DEF DeskInit, FactoryInit
  <2>2. SettledVersions = {}
    <3>1. DOMAIN log = {}
      BY <2>1
    <3> QED BY <3>1 DEF SettledVersions
  <2>3. Released = {}
    <3>1. \A i \in DOMAIN Exports : Exports[i] \in FileName
      <4>1. DOMAIN Exports = 1..5
        BY DEF Exports
      <4> QED BY <4>1, ExportsAre
    <3> QED BY <2>1, <3>1 DEF Released
  <2> QED BY <2>1, <2>2, <2>3 DEF Promise!PromiseInit, Released
<1>2. /\ FactoryInv /\ FactoryInv' /\ ExportsAgree /\ ExportsAgree' /\ ApprovedIsSettled'
      /\ [DeskNext]_deskVars
      => [Promise!PromiseNext]_Promise!promiseVars
  BY StepKeepsPromise, NoneAssumption
<1> QED BY <1>1, <1>2, FactoryIsGood, ExportsAreTheApprovedEdition, ApprovalIsOfASettledText, PTL
        DEF DeskSpec, PromiseKept, Promise!PromiseSpec

----------------------------------------------------------------------------
(* The status of a project *)

\* What the factory answers is a file that is there.
LEMMA ContentIsThere ==
  ASSUME FactoryAssumption, NoneAssumption, FactoryInv, NEW d \in Desk, NEW r, r = run[d],
         NEW n \in FileName, n = r.pc
  PROVE  Content(r, n) # None
<1>1. r \in CallType /\ r.work \in Nat /\ Analysis(r.text) \subseteq Finding /\ Len(log) \in Nat
      /\ r.work \in 1..Len(log) /\ log \in Seq(Event)
  BY AtFile DEF Answered, LogInv
<1>2. CASE n = "findings"
  <2>1. [entries |-> Analysis(r.text)] \in List
    BY <1>1, ListsAre
  <2>2. Content(r, n) = [entries |-> Analysis(r.text)]
    BY <1>2 DEF Content
  <2> QED BY <2>1, <2>2 DEF NoneAssumption, List
<1>3. CASE n = "decisions"
  <2>1. PICK G \in SUBSET Finding : r.brought \in [G -> Status]
    <3>1. r.brought \in Decisions
      BY <1>1 DEF CallType
    <3> QED BY <3>1 DEF Decisions
  <2>2. PICK D : D = {<<f, r.brought[f]>> : f \in DOMAIN r.brought}
    OBVIOUS
  <2>3. D \in SUBSET (Finding \X Status)
    BY <2>1, <2>2
  <2>4. [entries |-> D] \in List
    BY <2>3, ListsAre
  <2>5. Content(r, n) = [entries |-> D]
    BY <1>3, <2>2 DEF Content
  <2> QED BY <2>4, <2>5 DEF NoneAssumption, List
<1>4. CASE n = "template"
  <2>1. Revision(r.work) \in Nat
    BY <1>1, Derived
  <2>2. Template(r.work) \in TemplateForm
    BY <1>1, <2>1 DEF Template, TemplateForm
  <2>3. \A t \in TemplateForm : [t EXCEPT !.approved = TRUE] \in TemplateForm
    BY DEF TemplateForm
  <2>4. Content(r, n) = Template(r.work) \/ Content(r, n) = [Template(r.work) EXCEPT !.approved = TRUE]
    BY <1>4 DEF Content
  <2>5. Content(r, n) \in TemplateForm
    BY <2>2, <2>3, <2>4
  <2> QED BY <2>5 DEF NoneAssumption, TemplateForm
<1>5. CASE n \notin {"findings", "decisions", "template"}
  <2>1. Content(r, n) = r.work
    BY <1>5 DEF Content
  <2> QED BY <1>1, <2>1 DEF NoneAssumption
<1> QED BY <1>2, <1>3, <1>4, <1>5

\* A step writes at most one file, of a call that is writing, and a file that was
\* written stays there, torn or not.
LEMMA FilesStay ==
  ASSUME FactoryAssumption, DeskAssumption, NoneAssumption, FactoryInv, [DeskNext]_deskVars,
         NEW d \in Desk
  PROVE  /\ \A n \in FileName : files[d][n] # None => files'[d][n] # None
         /\ \A n \in FileName : files'[d][n] # files[d][n] =>
              /\ n = run[d].pc
              /\ files'[d][n] \in {Content(run[d], n), Torn}
<1>1. files \in [Desk -> [FileName -> FileValue]]
  BY DEF FactoryInv, DeskTypes
<1>2. CASE UNCHANGED files
  BY <1>2
<1>3. ASSUME NEW e \in Desk, NEW c, c \in {Content(run[e], run[e].pc), Torn}, run[e].pc \in FileName,
             files' = [files EXCEPT ![e][run[e].pc] = c]
      PROVE  /\ \A n \in FileName : files[d][n] # None => files'[d][n] # None
             /\ \A n \in FileName : files'[d][n] # files[d][n] =>
                  /\ n = run[d].pc
                  /\ files'[d][n] \in {Content(run[d], n), Torn}
  <2>1. c # None
    BY <1>3, ContentIsThere DEF DeskAssumption
  <2>2. CASE e = d
    <3>1. files'[d] = [files[d] EXCEPT ![run[d].pc] = c]
      BY <1>1, <1>3, <2>2
    <3>2. \A n \in FileName : files'[d][n] = IF n = run[d].pc THEN c ELSE files[d][n]
      BY <1>1, <1>3, <2>2, <3>1
    <3> QED BY <1>3, <2>1, <2>2, <3>2
  <2>3. CASE e # d
    <3>1. files'[d] = files[d]
      BY <1>1, <1>3, <2>3
    <3> QED BY <3>1
  <2> QED BY <2>2, <2>3
<1>4. ASSUME NEW e \in Desk, WriteFile(e)
      PROVE  \E c : /\ c \in {Content(run[e], run[e].pc), Torn} /\ run[e].pc \in FileName
                    /\ files' = [files EXCEPT ![e][run[e].pc] = c]
  BY <1>4 DEF WriteFile, Writing
<1>5. ASSUME NEW e \in Desk, Crash(e), files' # files
      PROVE  \E c : /\ c \in {Content(run[e], run[e].pc), Torn} /\ run[e].pc \in FileName
                    /\ files' = [files EXCEPT ![e][run[e].pc] = c]
  BY <1>5 DEF Crash, Writing
<1>6. ASSUME NEW e \in Desk,
             StartReview(e) \/ StartPrepare(e) \/ SignAndPublish(e) \/ Sign(e) \/ StartPublish(e)
             \/ TakeAnswer(e) \/ Factory(e)
      PROVE  files' = files
  BY <1>6 DEF StartReview, StartPrepare, SignAndPublish, Sign, StartPublish, Starts, TakeAnswer, Factory
<1> QED BY <1>2, <1>3, <1>4, <1>5, <1>6 DEF DeskNext, CallStep, deskVars

\* A form is marked approved when the exports have been written.
FormsFollowExports ==
  \A d \in Desk :
    files[d]["template"] \notin {None, Torn} /\ files[d]["template"].approved => files[d]["pdf"] # None

LEMMA StepsKeepFormsFollowing ==
  ASSUME FactoryAssumption, DeskAssumption, NoneAssumption, FactoryInv, [DeskNext]_deskVars,
         FormsFollowExports
  PROVE  FormsFollowExports'
<1> SUFFICES ASSUME NEW d \in Desk, files'[d]["template"] \notin {None, Torn},
                    files'[d]["template"].approved
             PROVE  files'[d]["pdf"] # None
  BY DEF FormsFollowExports
<1>1. "template" \in FileName /\ "pdf" \in FileName
  BY DEF FileName
<1>2. files[d]["pdf"] # None => files'[d]["pdf"] # None
  BY <1>1, FilesStay
<1>3. CASE files'[d]["template"] = files[d]["template"]
  BY <1>2, <1>3 DEF FormsFollowExports
<1>4. CASE files'[d]["template"] # files[d]["template"]
  <2>1. PICK r : r = run[d]
    OBVIOUS
  <2>2. r.pc = "template" /\ files'[d]["template"] = Content(r, "template")
    BY <1>1, <1>4, <2>1, FilesStay
  <2>3. r.op \in Operation /\ WriteGood(d, r, files[d])
    BY <1>1, <2>1, <2>2, AtFile, AtDesk DEF Answered
  <2>4. PICK k \in DOMAIN FilesOf(d, r.op) :
          /\ "template" = FilesOf(d, r.op)[k]
          /\ r.op = "publish" => \A j \in 1..(k-1) : files[d][FilesOf(d, r.op)[j]] # None
    BY <1>1, <2>2, <2>3 DEF WriteGood
  <2>5. r.op \in {"prepare", "publish"}
    BY <2>3, <2>4, FileIs
  <2>6. r.op # "prepare"
    <3> SUFFICES ASSUME r.op = "prepare" PROVE FALSE
      OBVIOUS
    <3>1. Content(r, "template") = Template(r.work)
      BY DEF Content
    <3>2. Template(r.work).approved = FALSE
      BY DEF Template
    <3> QED BY <2>2, <3>1, <3>2
  <2>7. r.op = "publish"
    BY <2>5, <2>6
  <2>8. k = 6
    <3>1. \A i \in 1..5 : FilesOf(d, r.op)[i] # "template"
      BY <2>7, FilesAre, ExportsAre
    <3>2. k \in 1..6
      <4>1. PICK L : L = Len(FilesOf(d, r.op))
        OBVIOUS
      <4>2. DOMAIN FilesOf(d, r.op) = 1..L
        BY <2>3, <4>1, FilesDiffer
      <4>3. L \in {5, 6}
        BY <2>7, <4>1, FilesAre
      <4> QED BY <4>2, <4>3
    <3> QED BY <2>4, <3>1, <3>2
  <2>9. FilesOf(d, r.op)[4] = "pdf"
    BY <2>7, FilesAre DEF Exports
  <2>10. files[d]["pdf"] # None
    BY <2>4, <2>7, <2>8, <2>9
  <2> QED BY <1>2, <2>10
<1> QED BY <1>3, <1>4

\* The status of a project never goes back (_project_status): a form marked approved
\* is no longer looked at once the pdf is there, and it is there before the form.
THEOREM StatusOnlyAdvances == DeskSpec => StatusNeverGoesBack
<1>1. DeskInit => FormsFollowExports
  <2> SUFFICES ASSUME DeskInit, NEW d \in Desk PROVE files[d]["template"] = None
    BY DEF FormsFollowExports
  <2> QED BY DEF DeskInit, FileName
<1>2. ASSUME FactoryInv, FormsFollowExports, FormsFollowExports', [DeskNext]_deskVars
      PROVE  [\A d \in Desk : Rank(ProjectStatus(d)) <= Rank(ProjectStatus(d)')]_deskVars
  <2>1. /\ Rank("borrador") = 1 /\ Rank("revisado") = 2
        /\ Rank("aprobado") = 3 /\ Rank("exportado") = 4
    BY DEF Rank
  <2>2. ASSUME NEW d \in Desk PROVE Rank(ProjectStatus(d)) <= Rank(ProjectStatus(d)')
    <3>1. \A n \in {"findings", "template", "decisions", "pdf"} :
            files[d][n] # None => files'[d][n] # None
      BY <1>2, FilesStay, FactoryAssumption, DeskAssumption, NoneAssumption DEF FileName
    <3>2. CASE files[d]["pdf"] # None
      <4>1. ProjectStatus(d) = "exportado" /\ ProjectStatus(d)' = "exportado"
        BY <3>1, <3>2 DEF ProjectStatus
      <4> QED BY <2>1, <4>1
    <3>3. CASE files[d]["pdf"] = None
      <4>1. \/ ProjectStatus(d) = "borrador"
            \/ /\ ProjectStatus(d) = "revisado"
               /\ \/ files[d]["template"] # None /\ files[d]["decisions"] # None
                  \/ files[d]["findings"] # None
        BY <1>2, <3>3 DEF ProjectStatus, FormsFollowExports, Whole
      <4>2. ProjectStatus(d)' \in {"borrador", "revisado", "aprobado", "exportado"}
        BY DEF ProjectStatus
      <4>3. ProjectStatus(d) = "revisado" => ProjectStatus(d)' # "borrador"
        BY <3>1, <4>1 DEF ProjectStatus
      <4> QED BY <2>1, <4>1, <4>2, <4>3
    <3> QED BY <3>2, <3>3
  <2> QED BY <2>2
<1>3. FactoryInv /\ FormsFollowExports /\ [DeskNext]_deskVars => FormsFollowExports'
  BY StepsKeepFormsFollowing, FactoryAssumption, DeskAssumption, NoneAssumption
<1> QED BY <1>1, <1>2, <1>3, FactoryIsGood, PTL DEF DeskSpec, StatusNeverGoesBack

=============================================================================
