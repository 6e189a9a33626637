---------------------------- MODULE LauncherProofs ----------------------------
(***************************************************************************)
(* What the limit of a session and the launch of a pipeline guarantee, for *)
(* any number of sessions, any limit and any number of documents.          *)
(*                                                                         *)
(* SessionIsBounded speaks of what a session used and of the pipelines it  *)
(* launched; what the code tests is its counter and its one handle. The    *)
(* invariant ties the two: the counter pays for every use, and the handle  *)
(* is the only pipeline of the session that may be alive. LaunchIsInformed *)
(* rests on documents that, once written, are never removed.               *)
(***************************************************************************)
EXTENDS Launcher, TLAPS

Paid(s) ==
    /\ used[s] <= spent[s]
    /\ spent[s] > 0 => spent[s] <= Limit

Handled(s) ==
    /\ \A i \in launched[s] : pipe[i] # "none"
    /\ ~detached[s] => \A i \in launched[s] : pipe[i] \in Live => handle[s] = i

Writing(s) ==
    submission[s] # NoSubmission => submission[s].nr > 0 /\ submission[s].done < Documents

Informed(s) ==
    choosing[s] =>
        /\ \A d \in Docs : inputs[d] # 0
        /\ estimate[s] # NoInputs => estimate[s] = inputs \/ edited[s]

Bounded == \A s \in Sessions : Paid(s) /\ Handled(s)
Planned == \A s \in Sessions : Writing(s) /\ Informed(s)

LaunchInv == TypeOK /\ Bounded /\ Planned

-----------------------------------------------------------------------------
LEMMA InitHolds == Init => LaunchInv
<1>. SUFFICES ASSUME Init PROVE LaunchInv
  OBVIOUS
<1>1. NoSubmission \in Submission /\ [d \in Docs |-> 0] \in Inputs
  BY LauncherAssumption DEF NoSubmission, Submission, Inputs, LauncherAssumption
<1>2. TypeOK
  BY <1>1, LauncherAssumption DEF Init, TypeOK, LauncherAssumption
<1>3. Bounded
  <2>. SUFFICES ASSUME NEW s \in Sessions PROVE Paid(s) /\ Handled(s)
    BY DEF Bounded
  <2>1. used[s] = 0 /\ spent[s] = 0 /\ launched[s] = {}
    BY DEF Init
  <2>. QED
    BY <2>1 DEF Paid, Handled
<1>4. Planned
  BY DEF Init, Planned, Writing, Informed
<1>. QED
  BY <1>2, <1>3, <1>4 DEF LaunchInv

-----------------------------------------------------------------------------
(***************************************************************************)
(* Types.                                                                  *)
(***************************************************************************)

\* The document that a submission writes next.
LEMMA NextDocument ==
    ASSUME LaunchInv, NEW s \in Sessions, ~Idle(s)
    PROVE  /\ submission[s].done + 1 \in Docs
           /\ submission[s].nr \in 1 .. MaxSubmits
<1>1. Writing(s) /\ submission[s] \in Submission
  BY DEF LaunchInv, Planned, TypeOK
<1>. QED
  BY <1>1, LauncherAssumption DEF LauncherAssumption, Writing, Submission, Docs, Idle

LEMMA FormTypes ==
    ASSUME LaunchInv, NEW s \in Sessions,
           Draft(s) \/ Submit(s) \/ WriteDocument(s) \/ SubmissionFails(s)
    PROVE  TypeOK'
<1>1. TypeOK /\ NoSubmission \in Submission
  BY LauncherAssumption DEF LaunchInv, NoSubmission, Submission, LauncherAssumption
<1>2. CASE Draft(s)
  BY <1>1, <1>2 DEF Draft, Spend, TypeOK, formVars, chooseVars, runVars
<1>3. CASE Submit(s)
  <2>1. submits + 1 \in 0 .. MaxSubmits
        /\ [nr |-> submits + 1, done |-> 0] \in Submission
    BY <1>1, <1>3, LauncherAssumption DEF LauncherAssumption, Submit, TypeOK, Submission
  <2>. QED
    BY <1>1, <1>3, <2>1 DEF Submit, TypeOK, chooseVars, runVars
<1>4. CASE WriteDocument(s)
  <2>. DEFINE d == submission[s].done + 1
  <2>1. d \in Docs /\ submission[s].nr \in -MaxSubmits .. MaxSubmits
    BY <1>4, NextDocument, LauncherAssumption DEF WriteDocument, LauncherAssumption
  <2>2. inputs' \in Inputs
    BY <1>1, <1>4, <2>1 DEF WriteDocument, TypeOK, Inputs
  <2>3. [submission[s] EXCEPT !.done = d] \in Submission
    BY <1>1, <2>1, LauncherAssumption DEF TypeOK, Submission, Docs, LauncherAssumption
  <2>4. submission' \in [Sessions -> Submission]
    BY <1>1, <1>4, <2>3 DEF WriteDocument, TypeOK
  <2>5. edited' \in [Sessions -> BOOLEAN]
    BY <1>1, <1>4 DEF WriteDocument, TypeOK
  <2>. QED
    BY <1>1, <1>4, <2>2, <2>4, <2>5 DEF WriteDocument, TypeOK, chooseVars, runVars
<1>5. CASE SubmissionFails(s)
  <2>1. inputs' \in Inputs
    <3>. DEFINE d == submission[s].done + 1
    <3>1. d \in Docs /\ -submission[s].nr \in -MaxSubmits .. MaxSubmits
      BY <1>5, NextDocument, LauncherAssumption DEF SubmissionFails, LauncherAssumption
    <3>. QED
      BY <1>1, <1>5, <3>1 DEF SubmissionFails, TypeOK, Inputs
  <2>2. edited' \in [Sessions -> BOOLEAN]
    BY <1>1, <1>5 DEF SubmissionFails, TypeOK
  <2>. QED
    BY <1>1, <1>5, <2>1, <2>2 DEF SubmissionFails, TypeOK, chooseVars, runVars
<1>. QED
  BY <1>2, <1>3, <1>4, <1>5

LEMMA TierTypes ==
    ASSUME TypeOK, NEW s \in Sessions,
           \/ StartButton(s) \/ LoadEstimate(s) \/ Cancel(s) \/ LimitReached(s)
           \/ KeyMissing(s) \/ SpawnFails(s)
    PROVE  TypeOK'
<1>1. \A e \in Inputs \cup {NoInputs} :
          Estimated(s, e) => estimate' \in [Sessions -> Inputs \cup {NoInputs}]
  BY DEF Estimated, TypeOK
<1>2. CASE StartButton(s) \/ Cancel(s)
  BY <1>1, <1>2 DEF StartButton, Cancel, Show, TypeOK, formVars, runVars
<1>3. CASE LoadEstimate(s)
  <2>1. inputs \in Inputs /\ Estimated(s, inputs)
    BY <1>3 DEF LoadEstimate, TypeOK
  <2>. QED
    BY <1>1, <1>3, <2>1 DEF LoadEstimate, TypeOK, formVars, runVars
<1>4. CASE LimitReached(s) \/ KeyMissing(s) \/ SpawnFails(s)
  <2>1. /\ Spend(s) => spent' \in [Sessions -> Nat]
        /\ Show(s, FALSE) => choosing' \in [Sessions -> BOOLEAN]
    <3>1. Spend(s) => spent' \in [Sessions -> Nat]
      BY DEF Spend, TypeOK
    <3>2. Show(s, FALSE) => choosing' \in [Sessions -> BOOLEAN]
      BY DEF Show, TypeOK
    <3>. QED
      BY <3>1, <3>2
  <2>2. CASE LimitReached(s)
    BY <2>1, <2>2 DEF LimitReached, TypeOK, formVars, runVars
  <2>3. CASE KeyMissing(s)
    BY <2>1, <2>3 DEF KeyMissing, TypeOK, formVars, runVars
  <2>4. CASE SpawnFails(s)
    BY <2>1, <2>4 DEF SpawnFails, TypeOK, formVars, chooseVars, runVars
  <2>. QED
    BY <1>4, <2>2, <2>3, <2>4
<1>. QED
  BY <1>2, <1>3, <1>4

LEMMA RunTypes ==
    ASSUME TypeOK, NEW s \in Sessions, Launch(s) \/ AnswerGate(s) \/ Refresh(s)
    PROVE  TypeOK'
<1>1. Estimated(s, NoInputs) => estimate' \in [Sessions -> Inputs \cup {NoInputs}]
  BY DEF Estimated, TypeOK
<1>2. CASE Launch(s)
  <2>1. PICK i \in Pipes : /\ pipe' = [pipe EXCEPT ![i] = "started"]
                           /\ handle' = [handle EXCEPT ![s] = i]
                           /\ launched' = [launched EXCEPT ![s] = @ \cup {i}]
    BY <1>2 DEF Launch
  <2>2. /\ pipe' \in [Pipes -> Live \cup {"none", "waiting", "ended"}]
        /\ handle' \in [Sessions -> Pipes \cup {0}]
        /\ launched' \in [Sessions -> SUBSET Pipes]
    BY <2>1 DEF TypeOK, Live
  <2>. QED
    BY <1>1, <1>2, <2>2 DEF Launch, Spend, Show, TypeOK, formVars
<1>3. CASE AnswerGate(s)
  <2>1. detached' \in [Sessions -> BOOLEAN]
    BY <1>3 DEF AnswerGate, Running, TypeOK
  <2>. QED
    BY <1>3, <2>1 DEF AnswerGate, TypeOK, formVars, chooseVars
<1>4. CASE Refresh(s)
  BY <1>1, <1>4 DEF Refresh, Show, TypeOK
<1>. QED
  BY <1>2, <1>3, <1>4

LEMMA ProcessTypes ==
    ASSUME TypeOK, NEW i \in Pipes, Process(i)
    PROVE  TypeOK'
<1>1. PICK from \in SUBSET Live, to \in Live \cup {"waiting", "ended"} : Turns(i, from, to)
  BY DEF Process, Begin, Pause, End, Block, Live
<1>. QED
  BY <1>1 DEF Turns, TypeOK, formVars, chooseVars

LEMMA TypesKeep ==
    ASSUME LaunchInv, Next
    PROVE  TypeOK'
BY FormTypes, TierTypes, RunTypes, ProcessTypes DEF LaunchInv, Next, Page

-----------------------------------------------------------------------------
(***************************************************************************)
(* The counter pays for what the session uses, and the handle is the only  *)
(* pipeline of the session that may be alive.                              *)
(***************************************************************************)
LEMMA PaidKeeps ==
    ASSUME LaunchInv, Next, NEW t \in Sessions
    PROVE  Paid(t)'
<1>1. Paid(t) /\ used[t] \in Nat /\ spent[t] \in Nat /\ Limit \in Int
      /\ used \in [Sessions -> Nat] /\ spent \in [Sessions -> Nat]
  BY LauncherAssumption DEF LaunchInv, Bounded, TypeOK, LauncherAssumption
<1>2. ASSUME NEW s \in Sessions, Page(s) PROVE Paid(t)'
  <2>1. CASE Draft(s) \/ Launch(s) \/ KeyMissing(s) \/ SpawnFails(s)
    <3>1. /\ WithinLimit(s) /\ Spend(s)
          /\ used' = used \/ used' = [used EXCEPT ![s] = @ + 1]
      <4>1. CASE Draft(s)
        <5>1. hasKey \in BOOLEAN
          BY DEF LaunchInv, TypeOK
        <5>2. CASE hasKey
          BY <4>1, <5>2 DEF Draft
        <5>3. CASE ~hasKey
          BY <1>1, <4>1, <5>3 DEF Draft
        <5>. QED
          BY <5>1, <5>2, <5>3
      <4>. QED
        BY <2>1, <4>1 DEF Launch, KeyMissing, SpawnFails
    <3>. QED
      BY <1>1, <3>1 DEF Paid, WithinLimit, Spend
  <2>2. CASE Refresh(s)
    BY <1>1, <2>2 DEF Refresh, Paid
  <2>3. CASE UNCHANGED <<spent, used>>
    BY <1>1, <2>3 DEF Paid
  <2>. QED
    BY <1>2, <2>1, <2>2, <2>3
       DEF Page, Submit, WriteDocument, SubmissionFails, StartButton, LoadEstimate, Cancel,
           LimitReached, AnswerGate
<1>3. ASSUME NEW i \in Pipes, Process(i) PROVE Paid(t)'
  BY <1>1, <1>3 DEF Process, Begin, Pause, End, Block, Turns, Paid
<1>. QED
  BY <1>2, <1>3 DEF Next

LEMMA LaunchKeepsHandled ==
    ASSUME LaunchInv, NEW s \in Sessions, Launch(s), NEW t \in Sessions
    PROVE  Handled(t)'
<1>1. Handled(s) /\ Handled(t) /\ TypeOK
  BY DEF LaunchInv, Bounded
<1>2. PICK i \in Pipes : /\ pipe[i] = "none"
                         /\ pipe' = [pipe EXCEPT ![i] = "started"]
                         /\ handle' = [handle EXCEPT ![s] = i]
                         /\ launched' = [launched EXCEPT ![s] = @ \cup {i}]
  BY DEF Launch
<1>3. detached' = detached /\ pipe' \in [Pipes -> {"started"} \cup {pipe[j] : j \in Pipes}]
  BY <1>1, <1>2 DEF Launch, TypeOK
<1>4. CASE t = s
  <2>1. ~detached[s] => \A j \in launched[s] : pipe[j] \notin Live
    BY <1>1 DEF Launch, Selects, Choosing, Running, Handled, TypeOK, Pipes, Live
  <2>. QED
    BY <1>1, <1>2, <1>3, <1>4, <2>1 DEF Handled, TypeOK
<1>5. CASE t # s
  <2>1. launched'[t] = launched[t] /\ handle'[t] = handle[t] /\ i \notin launched[t]
    BY <1>1, <1>2, <1>5 DEF Handled, TypeOK
  <2>. QED
    BY <1>1, <1>2, <1>3, <1>5, <2>1 DEF Handled, TypeOK
<1>. QED
  BY <1>4, <1>5

LEMMA HandledKeeps ==
    ASSUME LaunchInv, Next, NEW t \in Sessions
    PROVE  Handled(t)'
<1>1. Handled(t) /\ TypeOK
  BY DEF LaunchInv, Bounded
<1>2. ASSUME NEW s \in Sessions, Page(s) PROVE Handled(t)'
  <2>1. CASE Launch(s)
    BY <2>1, LaunchKeepsHandled
  <2>2. CASE AnswerGate(s)
    <3>1. PICK i \in Pipes : pipe[i] = "waiting" /\ pipe' = [pipe EXCEPT ![i] = "ended"]
      BY <2>2 DEF AnswerGate
    <3>2. /\ launched'[t] = launched[t]
          /\ t # s => handle'[t] = handle[t] /\ detached'[t] = detached[t]
      BY <1>1, <2>2 DEF AnswerGate, TypeOK
    <3>3. t = s /\ ~detached'[t] => ~detached[t] /\ \A j \in launched[t] : pipe[j] \notin Live
      <4>. SUFFICES ASSUME t = s, ~detached'[t]
                    PROVE  ~detached[t] /\ \A j \in launched[t] : pipe[j] \notin Live
        OBVIOUS
      <4>1. detached' = [detached EXCEPT ![t] = detached[t] \/ Running(t)]
        BY <2>2 DEF AnswerGate
      <4>2. ~detached[t] /\ ~Running(t)
        BY <1>1, <4>1, Zenon DEF TypeOK
      <4>3. \A j \in launched[t] : j # 0
        BY <1>1 DEF TypeOK, Pipes
      <4>. QED
        BY <1>1, <4>2, <4>3 DEF Running, Handled
    <3>4. \A j \in launched[t] : pipe'[j] = pipe[j] \/ pipe'[j] = "ended"
      BY <1>1, <3>1 DEF TypeOK
    <3>. QED
      BY <1>1, <3>2, <3>3, <3>4 DEF Handled, Live
  <2>3. CASE Refresh(s)
    BY <1>1, <2>3 DEF Refresh, Handled, TypeOK
  <2>4. CASE UNCHANGED runVars
    BY <1>1, <2>4 DEF Handled, runVars
  <2>. QED
    BY <1>2, <2>1, <2>2, <2>3, <2>4
       DEF Page, Draft, Submit, WriteDocument, SubmissionFails, StartButton, LoadEstimate,
           Cancel, LimitReached, KeyMissing, SpawnFails
<1>3. ASSUME NEW i \in Pipes, Process(i) PROVE Handled(t)'
  <2>1. /\ pipe[i] \in Live /\ UNCHANGED <<handle, launched, detached>>
        /\ \E to \in Live \cup {"waiting", "ended"} : pipe' = [pipe EXCEPT ![i] = to]
    BY <1>3 DEF Process, Begin, Pause, End, Block, Turns, Live
  <2>. QED
    BY <1>1, <2>1 DEF Handled, TypeOK, Live
<1>. QED
  BY <1>2, <1>3 DEF Next

-----------------------------------------------------------------------------
(***************************************************************************)
(* A session that chooses a tier has its documents, and an estimate of     *)
(* them.                                                                   *)
(***************************************************************************)
LEMMA WritingKeeps ==
    ASSUME LaunchInv, Next, NEW t \in Sessions
    PROVE  Writing(t)'
<1>1. Writing(t) /\ TypeOK
  BY DEF LaunchInv, Planned
<1>2. ASSUME NEW s \in Sessions, Page(s) PROVE Writing(t)'
  <2>1. CASE Submit(s)
    <3>1. submits + 1 > 0 /\ 0 < Documents
      BY <1>1, LauncherAssumption DEF TypeOK, LauncherAssumption
    <3>. QED
      BY <1>1, <2>1, <3>1 DEF Submit, Writing, TypeOK
  <2>2. CASE WriteDocument(s)
    <3>. DEFINE d == submission[s].done + 1
    <3>1. d \in Docs /\ submission[s].nr > 0
      BY <2>2, NextDocument DEF WriteDocument
    <3>2. CASE d = Documents
      BY <1>1, <2>2, <3>2 DEF WriteDocument, Writing, TypeOK
    <3>3. CASE d # Documents
      <4>1. submission' = [submission EXCEPT ![s] = [submission[s] EXCEPT !.done = d]]
        BY <2>2, <3>3 DEF WriteDocument
      <4>2. d < Documents
        BY <3>1, <3>3, LauncherAssumption DEF Docs, LauncherAssumption
      <4>. QED
        BY <1>1, <3>1, <4>1, <4>2 DEF Writing, TypeOK, Submission
    <3>. QED
      BY <3>2, <3>3
  <2>3. CASE SubmissionFails(s)
    BY <1>1, <2>3 DEF SubmissionFails, Writing, TypeOK
  <2>4. CASE UNCHANGED submission
    BY <1>1, <2>4 DEF Writing
  <2>. QED
    BY <1>2, <2>1, <2>2, <2>3, <2>4
       DEF Page, Draft, StartButton, LoadEstimate, Cancel, LimitReached, KeyMissing,
           SpawnFails, Launch, AnswerGate, Refresh, formVars
<1>3. ASSUME NEW i \in Pipes, Process(i) PROVE Writing(t)'
  BY <1>1, <1>3 DEF Process, Begin, Pause, End, Block, Turns, formVars, Writing
<1>. QED
  BY <1>2, <1>3 DEF Next

LEMMA InformedKeeps ==
    ASSUME LaunchInv, Next, NEW t \in Sessions
    PROVE  Informed(t)'
<1>1. Informed(t) /\ TypeOK
  BY DEF LaunchInv, Planned
<1>2. ASSUME NEW s \in Sessions, Page(s) PROVE Informed(t)'
  <2>1. CASE StartButton(s)
    BY <1>1, <2>1 DEF StartButton, IntakeComplete, Show, Estimated, Informed, TypeOK
  <2>2. CASE LoadEstimate(s)
    BY <1>1, <2>2 DEF LoadEstimate, Choosing, Estimated, Informed, TypeOK, formVars
  <2>3. CASE /\ WriteDocument(s) \/ SubmissionFails(s)
             /\ ~UNCHANGED <<inputs, edited>>
    <3>1. PICK n \in {submission[s].nr, -submission[s].nr} :
            n # 0 /\ inputs' = [inputs EXCEPT ![submission[s].done + 1] = n]
      BY <2>3, NextDocument DEF WriteDocument, SubmissionFails
    <3>2. choosing'[t] = choosing[t] /\ (choosing[t] => edited'[t])
      BY <2>3 DEF WriteDocument, SubmissionFails, chooseVars
    <3>. QED
      BY <1>1, <3>1, <3>2 DEF Informed, TypeOK, Inputs
  <2>4. CASE Cancel(s) \/ LimitReached(s) \/ KeyMissing(s) \/ Launch(s) \/ Refresh(s)
    <3>1. /\ choosing' = [choosing EXCEPT ![s] = FALSE] /\ inputs' = inputs
          /\ t # s => estimate'[t] = estimate[t] /\ edited'[t] = edited[t]
      BY <1>1, <2>4 DEF Cancel, LimitReached, KeyMissing, Launch, Refresh, Show, Estimated,
                        formVars, TypeOK
    <3>. QED
      BY <1>1, <3>1 DEF Informed, TypeOK
  <2>5. CASE UNCHANGED <<inputs, edited, chooseVars>>
    BY <1>1, <2>5 DEF Informed, chooseVars
  <2>. QED
    BY <1>2, <2>1, <2>2, <2>3, <2>4, <2>5
       DEF Page, Draft, Submit, WriteDocument, SubmissionFails, SpawnFails, AnswerGate, formVars
<1>3. ASSUME NEW i \in Pipes, Process(i) PROVE Informed(t)'
  BY <1>1, <1>3 DEF Process, Begin, Pause, End, Block, Turns, formVars, chooseVars, Informed
<1>. QED
  BY <1>2, <1>3 DEF Next

-----------------------------------------------------------------------------
LEMMA StepKeeps == LaunchInv /\ [Next]_vars => LaunchInv'
<1>. SUFFICES ASSUME LaunchInv, [Next]_vars PROVE LaunchInv'
  OBVIOUS
<1>1. CASE Next
  BY <1>1, TypesKeep, PaidKeeps, HandledKeeps, WritingKeeps, InformedKeeps
     DEF LaunchInv, Bounded, Planned
<1>2. CASE UNCHANGED vars
  <2>1. TypeOK'
    BY <1>2 DEF vars, formVars, chooseVars, runVars, LaunchInv, TypeOK
  <2>2. Bounded'
    BY <1>2 DEF vars, runVars, LaunchInv, Bounded, Paid, Handled
  <2>3. Planned'
    BY <1>2 DEF vars, formVars, chooseVars, LaunchInv, Planned, Writing, Informed
  <2>. QED
    BY <2>1, <2>2, <2>3 DEF LaunchInv
<1>. QED
  BY <1>1, <1>2

LEMMA Invariance == Spec => []LaunchInv
BY InitHolds, StepKeeps, PTL DEF Spec

\* The variables keep their types, whatever the limit and however many
\* sessions there are.
THEOREM TypeCorrect == Spec => []TypeOK
<1>1. LaunchInv => TypeOK
  BY DEF LaunchInv
<1>. QED
  BY <1>1, Invariance, PTL

\* A session never uses more than its limit, and never has two live pipelines
\* unless it dropped the handle of one (rate_limiter.py:53, run_pipeline.py:352).
THEOREM SessionBounded == Spec => []SessionIsBounded
<1>1. LaunchInv => SessionIsBounded
  <2>. SUFFICES ASSUME LaunchInv, NEW s \in Sessions
                PROVE  /\ used[s] > 0 => used[s] <= Limit
                       /\ ~detached[s] => \A i, j \in launched[s] :
                                             {pipe[i], pipe[j]} \subseteq Live => i = j
    BY DEF SessionIsBounded
  <2>1. Paid(s) /\ Handled(s) /\ used[s] \in Nat /\ spent[s] \in Nat /\ Limit \in Int
    BY LauncherAssumption DEF LaunchInv, Bounded, TypeOK, LauncherAssumption
  <2>2. used[s] > 0 => used[s] <= Limit
    BY <2>1 DEF Paid
  <2>3. ~detached[s] => \A i, j \in launched[s] : {pipe[i], pipe[j]} \subseteq Live => i = j
    BY <2>1 DEF Handled
  <2>. QED
    BY <2>2, <2>3
<1>. QED
  BY <1>1, Invariance, PTL

\* A pipeline is launched on documents that are all there, if only in part, by an estimate of
\* them or of a version edited since the choice began (run_pipeline.py:40).
THEOREM LaunchInformed == Spec => LaunchIsInformed
<1>1. LaunchInv /\ [Next]_vars =>
        [\A s \in Sessions :
            launched'[s] \ launched[s] # {} =>
                /\ \A d \in Docs : inputs[d] # 0
                /\ estimate[s] = inputs \/ edited[s]]_vars
  <2>. SUFFICES ASSUME LaunchInv, Next, NEW s \in Sessions, launched'[s] \ launched[s] # {}
                PROVE  /\ \A d \in Docs : inputs[d] # 0
                       /\ estimate[s] = inputs \/ edited[s]
    OBVIOUS
  <2>1. \A i \in Pipes : ~Process(i)
    BY DEF Process, Begin, Pause, End, Block, Turns
  <2>2. PICK t \in Sessions : Page(t)
    BY <2>1 DEF Next
  <2>3. ~UNCHANGED launched /\ launched \in [Sessions -> SUBSET Pipes]
    BY DEF LaunchInv, TypeOK
  <2>4. Launch(t) \/ Refresh(t)
    BY <2>2, <2>3 DEF Page, Draft, Submit, WriteDocument, SubmissionFails, StartButton,
           LoadEstimate, Cancel, LimitReached, KeyMissing, SpawnFails, AnswerGate, runVars
  <2>5. Launch(t) /\ t = s
    BY <2>3, <2>4 DEF Launch, Refresh
  <2>6. Selects(s) /\ Informed(s)
    BY <2>5 DEF Launch, LaunchInv, Planned
  <2>. QED
    BY <2>6 DEF Selects, Choosing, Informed
<1>. QED
  BY <1>1, Invariance, PTL DEF Spec, LaunchIsInformed
=============================================================================
