---------------------------- MODULE FactoryDesks ----------------------------
(***************************************************************************)
(* The two programs in front of PrivateEditorialFactory: the web console   *)
(* (src/web/app.py) and the command line (private_factory_cli.py).         *)
(*                                                                         *)
(* Each keeps JSON files of its own beside the database: the findings to   *)
(* decide, the decisions, the form of the final approval and the exports.  *)
(* They are written one after another once the factory has answered; a     *)
(* process may die at any point, and leaves the file it was writing torn.  *)
(* The console handles one request at a time (its handlers never await     *)
(* between their first read and their last write), so a console is one     *)
(* process; every run of the command line on the same output directory is  *)
(* one desk.                                                               *)
(***************************************************************************)
EXTENDS PrivateFactory

CONSTANTS
  Console,      \* the desks that are a web console
  Scenario,     \* who does what, and how often: see DeskAssumption
  Torn          \* a file that was being written

(***************************************************************************)
(* A scenario says, of each desk, what its source file may hold, the hash  *)
(* its project.yaml expects, who works there and which operations they     *)
(* call; and two bounds, on the signatures of the final approval and on    *)
(* the processes that die.                                                 *)
(***************************************************************************)
Operation == {"review", "prepare", "publish"}

ASSUME DeskAssumption ==
  /\ Console \subseteq Desk
  /\ Scenario \subseteq [manuscript : [Desk -> SUBSET Source],
                          expected : [Desk -> Source \cup {None}],
                          operator : [Desk -> SUBSET Actor],
                          duties : [Desk -> SUBSET Operation],
                          clicks : Nat, crashes : Nat]
  /\ Torn # None

\* None is no version, no form, filled in or not, and no list.
ASSUME NoneAssumption ==
  None \notin Nat \cup [version : Nat, revision : Nat, stamp : Nat]
              \cup [version : Nat, revision : Nat, approved : BOOLEAN]
              \cup [entries : (SUBSET Finding) \cup SUBSET (Finding \X Status)]

VARIABLES
  files,        \* [Desk -> its files]: None before they are written
  signed,       \* [Desk -> the last completed approval form, or None]
  clicks,       \* signatures still to come
  crashes,      \* processes still to die
  scenario      \* the one that is played

deskVars == <<log, approval, run, files, signed, clicks, crashes, scenario>>

\* The exports, in the order they are written.
Exports == <<"master", "appbook", "html", "pdf", "report">>
FileName == {"findings", "template", "decisions", "master", "appbook", "html", "pdf", "report"}
Whole(d, name) == files[d][name] \notin {None, Torn}

----------------------------------------------------------------------------
(* The requests *)

Calls(d, op) == Resting(d) /\ op \in scenario.duties[d]

\* The source file is read, and the factory is called.
Starts(d, Call(_, _)) ==
  /\ \E s \in scenario.manuscript[d], a \in scenario.operator[d] : Continue(d, Call(s, a))
  /\ UNCHANGED <<log, approval, files, signed, crashes, scenario>>

\* run_review, and the command line without decisions or approval.
StartReview(d) ==
  /\ Calls(d, "review")
  /\ Starts(d, LAMBDA s, a : Review(d, s, a))
  /\ UNCHANGED clicks

\* submit_decisions takes decisions on exactly the findings of its file; the
\* command line is given a file made out of it.
StartPrepare(d) ==
  /\ Calls(d, "prepare")
  /\ Whole(d, "findings")
  /\ \E decisions \in [files[d].findings.entries -> Status] :
       Starts(d, LAMBDA s, a : Prepare(d, s, a, decisions))
  /\ UNCHANGED clicks

\* The editor completes a form: its bound fields are those of the template, its
\* decided_at is new.
CompletedForm(d) ==
  [version |-> files[d].template.version, revision |-> files[d].template.revision,
   stamp |-> clicks]

MaySign(d) ==
  /\ "publish" \in scenario.duties[d]
  /\ Whole(d, "template")
  /\ clicks > 0 /\ clicks' = clicks - 1

\* The console signs and publishes in one request.
SignAndPublish(d) ==
  /\ d \in Console
  /\ Calls(d, "publish") /\ MaySign(d)
  /\ Starts(d, LAMBDA s, a : PublishWith(d, s, a, CompletedForm(d)))

\* On the command line the completed form is a file, which may be given again.
Sign(d) ==
  /\ d \notin Console
  /\ Resting(d) /\ MaySign(d)
  /\ signed' = [signed EXCEPT ![d] = CompletedForm(d)]
  /\ UNCHANGED <<log, approval, run, files, crashes, scenario>>

StartPublish(d) ==
  /\ Calls(d, "publish")
  /\ signed[d] # None
  /\ Starts(d, LAMBDA s, a : PublishWith(d, s, a, signed[d]))
  /\ UNCHANGED clicks

----------------------------------------------------------------------------
(* What is done with the answer *)

\* The pdf before the rest.
FilesPdfFirst(d, op) ==
  CASE op = "review" -> <<"findings">>
    [] op = "prepare" -> <<"template">>
    [] op = "publish" -> <<"pdf", "master", "appbook", "html", "report">>

FilesOf(d, op) ==
  CASE op = "review" -> <<"findings">>
    [] op = "prepare" -> IF d \in Console THEN <<"template", "decisions">> ELSE <<"template">>
    [] op = "publish" -> IF d \in Console THEN Append(Exports, "template") ELSE Exports

\* _validate_project_expectations: the hash of project.yaml, which the console
\* does not compare.
AsExpected(d) == d \in Console \/ scenario.expected[d] \in {None, run[d].source}

\* A review of the command line without findings goes on to prepare.
GoesOn(d) == d \notin Console /\ run[d].op = "review" /\ Analysis(run[d].text) = {}

\* The answer of the factory: an exception, a call of prepare, or files.
TakeAnswer(d) ==
  LET r == run[d] IN
  /\ r.pc = "returned"
  /\ \/ ~AsExpected(d) /\ Continue(d, [Idle EXCEPT !.pc = "refused"])
     \/ AsExpected(d) /\ GoesOn(d) /\ Continue(d, Prepare(d, r.source, r.by, <<>>))
     \/ AsExpected(d) /\ ~GoesOn(d) /\ Continue(d, [r EXCEPT !.pc = Head(FilesOf(d, r.op))])
  /\ UNCHANGED <<log, approval, files, signed, clicks, crashes, scenario>>

Template(v) == [version |-> v, revision |-> Revision(v), approved |-> FALSE]

Content(r, name) ==
  CASE name = "findings" -> [entries |-> Analysis(r.text)]
    [] name = "template" -> IF r.op = "prepare" THEN Template(r.work)
                            ELSE [Template(r.work) EXCEPT !.approved = TRUE]
    [] name = "decisions" -> [entries |-> {<<f, r.brought[f]>> : f \in DOMAIN r.brought}]
    [] OTHER -> r.work

After(d, r) ==
  LET names == FilesOf(d, r.op)
      i == CHOOSE j \in DOMAIN names : names[j] = r.pc
  IN IF i = Len(names) THEN Idle ELSE [r EXCEPT !.pc = names[i + 1]]

Writing(d) == run[d].pc \in FileName

\* write_text, write_bytes.
WriteFile(d) ==
  LET r == run[d] IN
  /\ Writing(d)
  /\ files' = [files EXCEPT ![d][r.pc] = Content(r, r.pc)]
  /\ Continue(d, After(d, r))
  /\ UNCHANGED <<log, approval, signed, clicks, crashes, scenario>>

\* The process dies; of a file it was writing nothing, or a part, is new.
Crash(d) ==
  /\ ~Resting(d)
  /\ crashes > 0 /\ crashes' = crashes - 1
  /\ Continue(d, Idle)
  /\ \/ UNCHANGED files
     \/ Writing(d) /\ files' = [files EXCEPT ![d][run[d].pc] = Torn]
  /\ UNCHANGED <<log, approval, signed, clicks, scenario>>

\* The factory's part of a call.
Factory(d) == FactoryStep(d) /\ UNCHANGED <<files, signed, clicks, crashes, scenario>>

----------------------------------------------------------------------------
(* _project_status *)

\* A torn export does not count.
StatusOfWholePdf(d) ==
  IF Whole(d, "pdf") THEN "exportado"
  ELSE IF files[d].findings # None THEN "revisado" ELSE "borrador"

\* What the list of projects shows, from the files alone.
ProjectStatus(d) ==
  IF files[d].pdf # None THEN "exportado"
  ELSE IF Whole(d, "template") /\ files[d].template.approved THEN "aprobado"
  ELSE IF files[d].template # None /\ files[d].decisions # None THEN "revisado"
  ELSE IF files[d].findings # None THEN "revisado" ELSE "borrador"

Rank(status) == CHOOSE i \in 1..4 : <<"borrador", "revisado", "aprobado", "exportado">>[i] = status

----------------------------------------------------------------------------

DeskInit ==
  /\ FactoryInit
  /\ files = [d \in Desk |-> [name \in FileName |-> None]]
  /\ signed = [d \in Desk |-> None]
  /\ scenario \in Scenario
  /\ clicks = scenario.clicks
  /\ crashes = scenario.crashes

CallStep(d) == Factory(d) \/ TakeAnswer(d) \/ WriteFile(d)

DeskNext ==
  \E d \in Desk :
    \/ StartReview(d) \/ StartPrepare(d) \/ SignAndPublish(d) \/ Sign(d) \/ StartPublish(d)
    \/ CallStep(d)
    \/ Crash(d)

DeskSpec == DeskInit /\ [][DeskNext]_deskVars

----------------------------------------------------------------------------
(* Properties *)

Index == 0..Len(log)

DeskTypeOK ==
  /\ \A i \in DOMAIN log : log[i].type \in {"ingested", "recorded", "decided", "patched"}
  /\ \A d \in Desk :
       /\ run[d].pc \in {"idle", "refused", "load", "ingest", "ingested", "history", "record",
                         "resolve", "decide", "patch", "reload", "check", "save", "returned"}
                        \cup FileName
       /\ run[d].work \in Index /\ run[d].known \in Index /\ run[d].text \in Index
       /\ run[d].left \subseteq Finding
       /\ DOMAIN files[d] = FileName
  /\ clicks \in Nat /\ crashes \in Nat /\ scenario \in Scenario

\* ReviewHistory.replay and Work.replay never raise on what is stored: one
\* ingestion, which is first; no finding recorded twice, no decision on a finding
\* that is not there, made twice or made after the text went on.  Any of them
\* would make the work unreadable for ever, to every later call.
HistoryReplays ==
  \A i \in DOMAIN log :
    /\ log[i].type = "ingested" <=> i = 1
    /\ log[i].type = "recorded" =>
         /\ log[i].finding \notin Recorded(i - 1)
         /\ log[i].finding[2] = Revision(i)
    /\ log[i].type = "decided" =>
         /\ log[i].finding \in Recorded(i - 1) \ Decided(i - 1)
         /\ log[i].finding[2] = Revision(i)

\* A patch corrects what the stored decisions accepted on that text, all of it
\* and nothing else, although it is built from the decisions the caller brought
\* and another process, or a call that stopped half way, may have stored others.
\* (That an acceptance gets a patch is AcceptedCorrectionsAreApplied.)
PatchesApplyWhatWasAccepted ==
  \A i \in OfType("patched", Len(log)) :
    log[i].corrects = {f \in Accepted(i) : f[2] = Revision(i - 1)}

\* The corrections accepted on the text that was ingested and not in version v.
\* (Those accepted on a corrected text cannot be applied at all: see ApplyAccepted.)
Unapplied(v) == {f \in Accepted(v) : f[2] = 1} \ Corrected(v)

\* Its findings are decided, now if not then, and the accepted ones are applied.
SettledVersions ==
  LET undecided == Open(Len(log))
  IN {v \in DOMAIN log : Recorded(v) \cap undecided = {} /\ Unapplied(v) = {}}

\* What is approved was settled: no interleaving of reviews, decisions and crashes
\* gets an edition approved with a finding nobody decided on or an accepted
\* correction of the first round left out, and the form it was approved with
\* names the revision of the text of that version.
ApprovedIsSettled ==
  approval # None =>
    /\ approval.version \in SettledVersions
    /\ approval.revision = Revision(approval.version)

\* The exports of both desks show one edition, the approved one, and a file is
\* there only when those before it have been written: what the downloads offer
\* was approved, whoever wrote it and whenever the writer died.
ExportsAgree ==
  \A d \in Desk : \A i \in DOMAIN Exports :
    files[d][Exports[i]] # None =>
      /\ approval # None
      /\ files[d][Exports[i]] \in {Torn, approval.version}
      /\ \A j \in 1..(i-1) : files[d][Exports[j]] # None

\* What a desk shows of the stored work is in the stored work: the decisions of
\* decisions.json are the stored ones, findings on file are recorded, and a form
\* is for a version with its revision; marked approved, for the approved one.
PapersAreTrue ==
  \A d \in Desk :
    /\ Whole(d, "findings") => files[d].findings.entries \subseteq Recorded(Len(log))
    /\ Whole(d, "decisions") => \A e \in files[d].decisions.entries :
         DecisionIs(e[1], e[2], Len(log))
    /\ Whole(d, "template") =>
         LET t == files[d].template IN
         /\ t.version \in DOMAIN log /\ t.revision = Revision(t.version)
         /\ t.approved => approval # None /\ approval.version = t.version

\* The status of a project never goes back, not even when a file it is read from
\* is torn.
StatusNeverGoesBack ==
  [][\A d \in Desk : Rank(ProjectStatus(d)) <= Rank(ProjectStatus(d)')]_deskVars

\* The desks keep the promise of the factory.
Promise ==
  INSTANCE EditionPromise WITH
    Nothing <- None,
    settled <- SettledVersions,
    approved <- IF approval = None THEN None ELSE approval.version,
    released <- {files[d][Exports[i]] : d \in Desk, i \in DOMAIN Exports} \ {None, Torn}

\* An edition is approved once, when its version is settled, and nothing else
\* is ever released.
PromiseKept == Promise!PromiseSpec

\* EDITORIAL_TRES_FINAL_PRODUCT_EXPERIENCE.md: a finding that is accepted can feed
\* a pass that transforms the text.  The patch of a round that was accepted on the
\* work as it stands is taken, in any round: each has findings of its own.
AcceptedCorrectionsAreApplied ==
  [][\A d \in Desk :
       run[d].pc = "patch" /\ run[d].work = Len(log) => run'[d].pc # "refused"]_deskVars

\* EVIDENCE.md: review, findings, decisions and final approval can be resumed
\* from one process to the next.  A prepare that brings the stored decisions at a
\* desk that never got its form would be let through to the form.
ResumesWhereItStopped ==
  [][\A d \in Desk :
       /\ run[d].pc = "resolve" /\ files[d].template = None
       /\ \A f \in DOMAIN run[d].brought : DecisionIs(f, run[d].brought[f], Len(log))
       => run'[d].pc # "refused"]_deskVars

=============================================================================
