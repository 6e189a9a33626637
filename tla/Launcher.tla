------------------------------ MODULE Launcher ------------------------------
(***************************************************************************)
(* The dashboard between a visitor and the pipeline: the intake form that  *)
(* writes the input documents, the tier selection with its cost estimate,  *)
(* the session's run limit, and the subprocess that is launched. Sources:  *)
(* dashboard/pages/create_project.py and run_pipeline.py,                  *)
(* dashboard/rate_limiter.py and subprocess_env.py, intake/renderer.py.    *)
(*                                                                         *)
(* Sessions are threads of one server that share the project's files and   *)
(* nothing else. A rerun of a page's script is one action; the documents   *)
(* of a submission are written one by one. A page refresh is a new session *)
(* with a new counter and no handle; the pipelines it launched go on.      *)
(***************************************************************************)
EXTENDS Integers

CONSTANTS
    Sessions,
    Limit,       \* DEMO_MAX_RUNS
    Documents,   \* how many input documents a submission writes
    MaxLaunches, \* bound: subprocesses
    MaxSubmits   \* bound: submissions of the intake form

ASSUME LauncherAssumption ==
    /\ Limit \in Int
    /\ Documents \in Nat \ {0} /\ MaxLaunches \in Nat /\ MaxSubmits \in Nat

VARIABLES
    hasKey,     \* whether an LLM key is in the environment
    inputs,     \* document -> the submission that wrote it, 0 when missing,
                \* less than 0 when that submission's write failed half-way
    submits,    \* submissions so far
    submission, \* per session: the submission it is writing and how far it is
    spent,      \* per session: demo_run_count
    choosing,   \* per session: show_tier_selection
    estimate,   \* per session: cost_estimate: the inputs it was made from
    handle,     \* per session: pipeline_process, 0 when there is none
    pipe,       \* subprocess -> how it is
    launched,   \* per session: history: the subprocesses it launched
    used,       \* per session: history: launches, and calls of the LLM for a draft
    edited,     \* per session: history: inputs written since it began to choose
    detached    \* per session: history: it dropped the handle of a live subprocess

formVars == <<inputs, submits, submission, edited>>
chooseVars == <<choosing, estimate>>
runVars == <<handle, pipe, launched, detached>>
vars == <<hasKey, formVars, chooseVars, runVars, spent, used>>

Docs     == 1 .. Documents
Pipes    == 1 .. MaxLaunches
Inputs   == [Docs -> -MaxSubmits .. MaxSubmits]
NoInputs == [d \in {} |-> 0]     \* no estimate
Live     == {"started", "running", "blocked"}
Started  == {i \in Pipes : pipe[i] # "none"}
Submission == [nr : 0 .. MaxSubmits, done : 0 .. Documents]
NoSubmission == [nr |-> 0, done |-> 0]

\* The variables keep their types: a document is of a submission that was made.
TypeOK ==
    /\ hasKey \in BOOLEAN /\ inputs \in Inputs /\ submits \in 0 .. MaxSubmits
    /\ submission \in [Sessions -> Submission]
    /\ spent \in [Sessions -> Nat] /\ used \in [Sessions -> Nat]
    /\ choosing \in [Sessions -> BOOLEAN]
    /\ estimate \in [Sessions -> Inputs \cup {NoInputs}]
    /\ handle \in [Sessions -> Pipes \cup {0}]
    /\ pipe \in [Pipes -> Live \cup {"none", "waiting", "ended"}]
    /\ launched \in [Sessions -> SUBSET Pipes]
    /\ edited \in [Sessions -> BOOLEAN] /\ detached \in [Sessions -> BOOLEAN]

-----------------------------------------------------------------------------
\* A script runs to its end before the session's next rerun.
Idle(s) == submission[s] = NoSubmission

\* poll() of the handle.
Running(s) == handle[s] # 0 /\ pipe[handle[s]] \in Live

\* Faulty variant: one document is enough.
IntakeBegun == \E d \in Docs : inputs[d] # 0

\* is_intake_complete: of the existence of the documents, not of their content.
IntakeComplete == \A d \in Docs : inputs[d] # 0

WithinLimit(s) == spent[s] < Limit
Spend(s)       == spent' = [spent EXCEPT ![s] = @ + 1]

Show(s, shown)   == choosing' = [choosing EXCEPT ![s] = shown]
Estimated(s, of) == estimate' = [estimate EXCEPT ![s] = of]

-----------------------------------------------------------------------------
(***************************************************************************)
(* Create Project.                                                         *)
(***************************************************************************)

\* The draft is paid for before the provider is made, which needs the key.
Draft(s) ==
    /\ Idle(s) /\ WithinLimit(s) /\ Spend(s)
    /\ used' = [used EXCEPT ![s] = @ + (IF hasKey THEN 1 ELSE 0)]
    /\ UNCHANGED <<hasKey, formVars, chooseVars, runVars>>

\* A valid form. An invalid one changes nothing.
Submit(s) ==
    /\ Idle(s) /\ submits < MaxSubmits
    /\ submits' = submits + 1
    /\ submission' = [submission EXCEPT ![s] = [nr |-> submits + 1, done |-> 0]]
    /\ UNCHANGED <<hasKey, inputs, edited, chooseVars, runVars, spent, used>>

\* Faulty variant: the page does not end with its last document.
WriteDocumentOn(s) ==
    /\ ~Idle(s)
    /\ LET d == submission[s].done + 1 IN
          /\ inputs' = [inputs EXCEPT ![d] = submission[s].nr]
          /\ submission' = [submission EXCEPT ![s].done = d]
    /\ edited' = [t \in Sessions |-> edited[t] \/ choosing[t]]
    /\ UNCHANGED <<hasKey, submits, chooseVars, runVars, spent, used>>

\* render_all; the page ends with its last document.
WriteDocument(s) ==
    /\ ~Idle(s)
    /\ LET d == submission[s].done + 1 IN
          /\ inputs' = [inputs EXCEPT ![d] = submission[s].nr]
          /\ submission' = [submission EXCEPT ![s] =
                                IF d = Documents THEN NoSubmission ELSE [@ EXCEPT !.done = d]]
    /\ edited' = [t \in Sessions |-> edited[t] \/ choosing[t]]
    /\ UNCHANGED <<hasKey, submits, chooseVars, runVars, spent, used>>

\* The disk is full: the documents before this one are written, those after it are not,
\* and this one is as it was, or, once write_text opened it, empty or in part.
SubmissionFails(s) ==
    /\ ~Idle(s)
    /\ submission' = [submission EXCEPT ![s] = NoSubmission]
    /\ \/ UNCHANGED <<inputs, edited>>
       \/ /\ inputs' = [inputs EXCEPT ![submission[s].done + 1] = -submission[s].nr]
          /\ edited' = [t \in Sessions |-> edited[t] \/ choosing[t]]
    /\ UNCHANGED <<hasKey, submits, chooseVars, runVars, spent, used>>

-----------------------------------------------------------------------------
(***************************************************************************)
(* Run Pipeline.                                                           *)
(***************************************************************************)
StartButton(s) ==
    /\ Idle(s) /\ IntakeComplete /\ ~Running(s) /\ ~choosing[s]
    /\ Show(s, TRUE) /\ Estimated(s, NoInputs)
    /\ edited' = [edited EXCEPT ![s] = FALSE]
    /\ UNCHANGED <<hasKey, inputs, submits, submission, runVars, spent, used>>

\* The tier selection is on the page, instead of the start button.
Choosing(s) == Idle(s) /\ choosing[s] /\ ~Running(s)

LoadEstimate(s) ==
    /\ Choosing(s) /\ estimate[s] = NoInputs
    /\ Estimated(s, inputs)
    /\ UNCHANGED <<hasKey, formVars, choosing, runVars, spent, used>>

Cancel(s) ==
    /\ Choosing(s) /\ estimate[s] # NoInputs
    /\ Show(s, FALSE) /\ Estimated(s, NoInputs)
    /\ UNCHANGED <<hasKey, formVars, runVars, spent, used>>

Selects(s) == Choosing(s) /\ estimate[s] # NoInputs

LimitReached(s) ==
    /\ Selects(s) /\ ~WithinLimit(s) /\ Show(s, FALSE)
    /\ UNCHANGED <<hasKey, formVars, estimate, runVars, spent, used>>

\* build_subprocess_env raises after the counter was incremented.
KeyMissing(s) ==
    /\ Selects(s) /\ WithinLimit(s) /\ ~hasKey
    /\ Spend(s) /\ Show(s, FALSE)
    /\ UNCHANGED <<hasKey, formVars, estimate, runVars, used>>

\* Popen raises: the script ends, and the tier selection is shown again.
SpawnFails(s) ==
    /\ Selects(s) /\ WithinLimit(s) /\ hasKey /\ Spend(s)
    /\ UNCHANGED <<hasKey, formVars, chooseVars, runVars, used>>

\* Faulty variant: a launch does not count.
LaunchUncounted(s) ==
    /\ Selects(s) /\ WithinLimit(s) /\ hasKey
    /\ \E i \in Pipes : /\ pipe[i] = "none" /\ \A j \in Pipes : j < i => pipe[j] # "none"
                        /\ pipe' = [pipe EXCEPT ![i] = "started"]
                        /\ handle' = [handle EXCEPT ![s] = i]
                        /\ launched' = [launched EXCEPT ![s] = @ \cup {i}]
    /\ Show(s, FALSE) /\ Estimated(s, NoInputs)
    /\ used' = [used EXCEPT ![s] = @ + 1]
    /\ UNCHANGED <<hasKey, formVars, detached, spent>>

Launch(s) ==
    /\ Selects(s) /\ WithinLimit(s) /\ hasKey /\ Spend(s)
    /\ \E i \in Pipes : /\ pipe[i] = "none" /\ \A j \in Pipes : j < i => pipe[j] # "none"
                        /\ pipe' = [pipe EXCEPT ![i] = "started"]
                        /\ handle' = [handle EXCEPT ![s] = i]
                        /\ launched' = [launched EXCEPT ![s] = @ \cup {i}]
    /\ Show(s, FALSE) /\ Estimated(s, NoInputs)
    /\ used' = [used EXCEPT ![s] = @ + 1]
    /\ UNCHANGED <<hasKey, formVars, detached>>

\* The form belongs to the run last written to, whoever launched it. Its
\* answer drops the session's handle, whatever process that is.
AnswerGate(s) ==
    /\ Idle(s)
    /\ \E i \in Pipes : pipe[i] = "waiting" /\ pipe' = [pipe EXCEPT ![i] = "ended"]
    /\ handle' = [handle EXCEPT ![s] = 0]
    /\ detached' = [detached EXCEPT ![s] = @ \/ Running(s)]
    /\ UNCHANGED <<hasKey, formVars, chooseVars, launched, spent, used>>

Refresh(s) ==
    /\ Idle(s)
    /\ spent' = [spent EXCEPT ![s] = 0] /\ used' = [used EXCEPT ![s] = 0]
    /\ Show(s, FALSE) /\ Estimated(s, NoInputs)
    /\ edited' = [edited EXCEPT ![s] = FALSE]
    /\ handle' = [handle EXCEPT ![s] = 0] /\ launched' = [launched EXCEPT ![s] = {}]
    /\ detached' = [detached EXCEPT ![s] = FALSE]
    /\ UNCHANGED <<hasKey, inputs, submits, submission, pipe>>

-----------------------------------------------------------------------------
(***************************************************************************)
(* The subprocesses.                                                       *)
(***************************************************************************)
Turns(i, from, to) ==
    /\ pipe[i] \in from /\ pipe' = [pipe EXCEPT ![i] = to]
    /\ UNCHANGED <<hasKey, formVars, chooseVars, handle, launched, detached, spent, used>>

\* init_node and bootstrap_project check once more that the documents are there.
Begin(i)  == IntakeComplete /\ Turns(i, {"started"}, "running")
Pause(i)  == Turns(i, {"running"}, "waiting")
End(i)    == Turns(i, {"started", "running"}, "ended")

\* Its output goes to a pipe that the dashboard reads after the process ended:
\* once the pipe is full, the process waits in a write until it is killed.
Block(i)  == Turns(i, {"started", "running"}, "blocked")

-----------------------------------------------------------------------------
Init ==
    /\ hasKey \in BOOLEAN /\ inputs = [d \in Docs |-> 0] /\ submits = 0
    /\ submission = [s \in Sessions |-> NoSubmission]
    /\ spent = [s \in Sessions |-> 0] /\ used = [s \in Sessions |-> 0]
    /\ choosing = [s \in Sessions |-> FALSE] /\ estimate = [s \in Sessions |-> NoInputs]
    /\ handle = [s \in Sessions |-> 0] /\ pipe = [i \in Pipes |-> "none"]
    /\ launched = [s \in Sessions |-> {}]
    /\ edited = [s \in Sessions |-> FALSE] /\ detached = [s \in Sessions |-> FALSE]

Page(s) ==
    \/ Draft(s) \/ Submit(s) \/ WriteDocument(s) \/ SubmissionFails(s)
    \/ StartButton(s) \/ LoadEstimate(s) \/ Cancel(s)
    \/ LimitReached(s) \/ KeyMissing(s) \/ SpawnFails(s) \/ Launch(s)
    \/ AnswerGate(s) \/ Refresh(s)

Process(i) == Begin(i) \/ Pause(i) \/ End(i) \/ Block(i)

Next == (\E s \in Sessions : Page(s)) \/ (\E i \in Pipes : Process(i))

Spec == Init /\ [][Next]_vars

-----------------------------------------------------------------------------
(***************************************************************************)
(* Properties.                                                             *)
(***************************************************************************)

\* A session launches and drafts no more than its limit, whatever failed in
\* between, and never has two live pipelines, unless it answered the gate of
\* another session's run while its own was running (rate_limiter.py:53,
\* run_pipeline.py:326, 352).
SessionIsBounded ==
    \A s \in Sessions :
        /\ used[s] > 0 => used[s] <= Limit
        /\ ~detached[s] => \A i, j \in launched[s] : {pipe[i], pipe[j]} \subseteq Live => i = j

\* A pipeline is launched on documents that are all there, if only in part, and by
\* an estimate of these documents, unless one was written since the choice began
\* (run_pipeline.py:40, 413).
LaunchIsInformed ==
    [][\A s \in Sessions :
          launched'[s] \ launched[s] # {} =>
              /\ \A d \in Docs : inputs[d] # 0
              /\ estimate[s] = inputs \/ edited[s]]_vars
=============================================================================
