------------------------------ MODULE Pipeline ------------------------------
(***************************************************************************)
(* The LangGraph build pipeline: the eight nodes of graph/nodes.py, the    *)
(* routing of graph/pipeline.py, the decision gates of                     *)
(* engine/decision_gates.py, and the three ways an invocation starts:      *)
(* run_pipeline, Command(resume=...) in the same process, and the          *)
(* dashboard's resume in another process.                                  *)
(*                                                                         *)
(* A node that raises a gate is not atomic: the task, the gate, the answer *)
(* and the commit are steps of their own, and the process may die between  *)
(* any two. Resuming an interrupted node runs it again FROM ITS TOP; only  *)
(* the first interrupt() it then reaches receives the answer.              *)
(*                                                                         *)
(* What LLM calls, checks and generated text decide is a nondeterministic  *)
(* outcome; file contents are reduced to what the control flow reads.      *)
(***************************************************************************)
EXTENDS Integers, Sequences, FiniteSets

CONSTANTS
    Configs,        \* the configurations considered, each a member of Config
    MaxRuns,        \* bound: the number of runs init_run creates
    MaxLost,        \* bound, by configuration: the files that are out of date at a time
    Approaches,     \* the approaches a design answer may offer
    OptionLists     \* the option lists an ambiguous design answer may carry

Stages     == {"init", "bootstrap", "design", "implement", "extract", "test", "verify"}
GateStages == {"design", "implement", "test", "verify"}
Gates      == {"architecture_choice_needed", "test_failure_triage",
               "prompt_injection_review", "verification_review"}
Choices    == {"continue", "abort", "accept", "reject",
               "accept_verdict", "reject_and_halt"} \cup Approaches
Absent     == "none"

\* One run's settings: DECISION_GATES.yml, config.yml and whether the project
\* lives in the engine's own directory. mode=always_llm is llmOnPass = llmOnFail
\* = TRUE, never_llm both FALSE, auto the two summary flags.
Config == [policy       : [GateStages -> {"skip", "auto", "pause"}],
           default      : [GateStages -> Choices \cup {Absent}],
           llmOnPass    : BOOLEAN,
           llmOnFail    : BOOLEAN,
           maxRetries   : Nat,
           inEngineRoot : BOOLEAN]

ASSUME PipelineAssumption ==
    /\ Configs \subseteq Config
    /\ MaxRuns \in Nat \ {0}
    /\ \A c \in Configs : MaxLost[c] \in Nat
    /\ OptionLists \subseteq Seq(Approaches)

Runs == 1 .. MaxRuns

VARIABLES
    cfg,            \* the configuration, fixed for the whole behaviour
    \* the invocation
    proc,           \* "idle", "running", "paused", "returned" or "crashed"
    host,           \* who called graph.invoke: "runner", "api" or "dashboard"
    node,           \* the node to execute next, or "END"
    phase,          \* where inside the node: "enter", "gate", "act", "interrupted", "return"
    exc,            \* the DecisionRequired being handled
    resume,         \* the answer given to the interrupted node; gate = the one it was given for
    \* PipelineState, as checkpointed
    runId, results, stage, decisions, error, retryCount,
    \* files of each run
    runs,           \* runs created so far
    decisionFile,   \* decisions/<gate>.json: the recorded choice
    pendingGate,    \* pending_gate.json
    status,         \* status.json's "state"
    evidence,       \* the verdict of the evidence records
    lost,           \* history: which of "gate" and "status" a failed write left as it was
    \* project-wide files: the run that wrote each
    architecture, contract, conflicts,
    verdictCache,   \* the verify response in the LLM cache
    verification    \* VERIFICATION.md

callVars  == <<proc, host, node, phase, exc, resume>>
stateVars == <<runId, results, stage, decisions, error, retryCount>>
runFiles  == <<runs, decisionFile, pendingGate, status, evidence, lost>>
artifacts == <<architecture, contract, conflicts, verdictCache, verification>>
vars      == <<cfg, callVars, stateVars, runFiles, artifacts>>

NoGate    == [gate |-> Absent, options |-> <<>>]
NoAnswer  == [gate |-> Absent, choice |-> Absent]
NoText    == [run |-> 0, rejected |-> FALSE, suspect |-> "no"]
NoVerdict == [run |-> 0, rejected |-> FALSE]
NoChoices == [g \in Gates |-> Absent]
Blank     == [s \in Stages |-> Absent]

GateRecord   == [gate : Gates \cup {Absent}, options : Seq(Choices)]
AnswerRecord == [gate : Gates \cup {Absent}, choice : Choices \cup {Absent}]
ChoiceRecord == [Gates -> Choices \cup {Absent}]
Outcomes     == {Absent, "passed", "failed", "skipped"}

CallTypeOK ==
    /\ proc \in {"idle", "running", "paused", "returned", "crashed"}
    /\ host \in {"runner", "api", "dashboard"}
    /\ node \in Stages \cup {"complete", "END"}
    /\ phase \in {"enter", "gate", "act", "interrupted", "return"}
    /\ exc \in GateRecord
    /\ resume \in AnswerRecord

StateTypeOK ==
    /\ runId \in 0 .. MaxRuns
    /\ results \in [Stages -> Outcomes]
    /\ stage \in Stages \cup {"complete"}
    /\ decisions \in ChoiceRecord
    /\ error \in BOOLEAN
    /\ retryCount \in Nat

FilesTypeOK ==
    /\ runs \in 0 .. MaxRuns
    /\ decisionFile \in [Runs -> ChoiceRecord]
    /\ pendingGate \in [Runs -> GateRecord]
    /\ status \in [Runs -> {Absent, "paused", "failed", "complete"}]
    /\ evidence \in [Runs -> {Absent, "pass", "fail"}]
    /\ lost \in [Runs -> SUBSET {"gate", "status"}]

ArtifactsTypeOK ==
    /\ architecture \in 0 .. MaxRuns
    /\ contract \in 0 .. MaxRuns
    /\ conflicts \in 0 .. MaxRuns
    /\ verdictCache \in [run : 0 .. MaxRuns, rejected : BOOLEAN,
                         suspect : {"no", "nonce", "wording"}]
    /\ verification \in [run : 0 .. MaxRuns, rejected : BOOLEAN]

\* The variables keep their types: in particular a run directory is only written for
\* a run that exists, and status.json only holds texts the dashboard knows.
TypeOK == cfg \in Configs /\ CallTypeOK /\ StateTypeOK /\ FilesTypeOK /\ ArtifactsTypeOK

Init ==
    /\ cfg \in Configs
    /\ proc = "idle" /\ host = "runner" /\ node = "init" /\ phase = "enter"
    /\ exc = NoGate /\ resume = NoAnswer
    /\ runId = 0 /\ results = Blank /\ stage = "init" /\ decisions = NoChoices
    /\ error = FALSE /\ retryCount = 0
    /\ runs = 0
    /\ decisionFile = [r \in Runs |-> NoChoices]
    /\ pendingGate = [r \in Runs |-> NoGate]
    /\ status = [r \in Runs |-> Absent]
    /\ evidence = [r \in Runs |-> Absent]
    /\ lost = [r \in Runs |-> {}]
    /\ architecture = 0 /\ contract = 0 /\ conflicts = 0
    /\ verdictCache = NoText /\ verification = NoVerdict

-----------------------------------------------------------------------------
(***************************************************************************)
(* Routing: the conditional edges of the graph, over the state a node just *)
(* committed. A "faulty variant" before a definition is a plausible mistake *)
(* in it, kept to show that a property would notice; nothing uses it.      *)
(***************************************************************************)
\* Faulty variant: failed tests always go back to implement.
RouteAfterTestUnbounded(res, dec, err, tries) ==
    IF res["test"] = "failed" THEN "implement" ELSE "verify"

RouteAfterTest(res, dec, err, tries) ==
    CASE res["test"] = "failed" /\ (dec["test_failure_triage"] = "abort" \/ err) -> "END"
      [] res["test"] \in {"passed", "skipped"}                                   -> "verify"
      [] res["test"] = "failed" /\ tries < cfg.maxRetries                        -> "implement"
      [] OTHER                                                                   -> "END"

\* Faulty variant: the verify edge leads back to extract.
SuccessorWithLoop ==
    [init |-> "bootstrap", bootstrap |-> "design", design |-> "implement",
     implement |-> "extract", extract |-> "test", verify |-> "extract"]

Successor == [init |-> "bootstrap", bootstrap |-> "design", design |-> "implement",
              implement |-> "extract", extract |-> "test", verify |-> "complete"]

\* Faulty variant: an unconditional edge from verify to complete.
RouteAroundVerify(s, res, dec, err, tries) ==
    CASE s = "test"          -> RouteAfterTest(res, dec, err, tries)
      [] s = "verify"        -> "complete"
      [] res[s] = "failed"   -> "END"
      [] OTHER               -> Successor[s]

Route(s, res, dec, err, tries) ==
    CASE s = "test"          -> RouteAfterTest(res, dec, err, tries)
      [] res[s] = "failed"   -> "END"
      [] OTHER               -> Successor[s]

(***************************************************************************)
(* A node returns its partial state: the stage's result, an error when it  *)
(* has one (nothing ever clears an earlier one), the decision it took and  *)
(* the retry count; the graph checkpoints it and routes on. An answer that *)
(* no interrupt() of the node asked for is dropped here.                   *)
(***************************************************************************)
CommitRetry(s, result, choice, tries) ==
    /\ results' = [results EXCEPT ![s] = result]
    /\ error' = (error \/ result = "failed")
    /\ stage' = s
    /\ retryCount' = tries
    /\ decisions' = IF choice = Absent THEN decisions
                    ELSE [decisions EXCEPT ![exc.gate] = choice]
    /\ node' = Route(s, results', decisions', error', retryCount')
    /\ phase' = IF node' = "END" THEN "return" ELSE "enter"
    /\ exc' = NoGate /\ resume' = NoAnswer
    /\ UNCHANGED <<proc, host, runId>>

Commit(s, result, choice) == CommitRetry(s, result, choice, retryCount)

\* An exception no handler of the node catches: graph.invoke raises, nothing of
\* the node is committed and no status.json is written.
Crash ==
    /\ proc' = "crashed"
    /\ UNCHANGED <<host, node, phase, exc, resume, stateVars>>

At(n, p) == proc = "running" /\ node = n /\ phase = p
Recorded(g) == decisionFile[runId][g]

-----------------------------------------------------------------------------
(***************************************************************************)
(* Nodes without a gate.                                                   *)
(***************************************************************************)
\* Intake incomplete: the node returns before init_run, so a run_id kept by the
\* same checkpoint thread stays, as do all other fields of the initial state.
InitMissingIntake ==
    /\ At("init", "enter") /\ host # "dashboard"
    /\ Commit("init", "failed", Absent)
    /\ UNCHANGED <<cfg, runFiles, artifacts>>

InitOk ==
    /\ At("init", "enter") /\ host # "dashboard" /\ runs < MaxRuns
    /\ runs' = runs + 1
    /\ runId' = runs + 1
    /\ results' = [Blank EXCEPT !["init"] = "passed"]
    /\ stage' = "init" /\ decisions' = NoChoices /\ error' = FALSE /\ retryCount' = 0
    /\ node' = "bootstrap"
    /\ UNCHANGED <<cfg, proc, host, phase, exc, resume, artifacts,
                   decisionFile, pendingGate, status, evidence, lost>>

\* Reading config.yml raises after init_run made the run directory; outside a
\* main thread signal.signal raises before it.
InitCrash ==
    /\ At("init", "enter") /\ runs < MaxRuns
    /\ runs' = IF host = "dashboard" THEN runs ELSE runs + 1
    /\ Crash
    /\ UNCHANGED <<cfg, artifacts, decisionFile, pendingGate, status, evidence, lost>>

Bootstrap ==
    /\ At("bootstrap", "enter")
    /\ \E r \in {"passed", "failed"} : Commit("bootstrap", r, Absent)
    /\ UNCHANGED <<cfg, runFiles, artifacts>>

\* A second entry is a retry and counts; a failure for any reason - the
\* manifest_conflict gate included, which except Exception catches - commits FAILED.
Implement ==
    /\ At("implement", "enter")
    /\ \E outcome \in {"passed", "failed", "conflict"} :
        /\ outcome = "passed" => architecture # 0
        /\ outcome = "conflict" => contract # 0
        /\ CommitRetry("implement", IF outcome = "passed" THEN "passed" ELSE "failed", Absent,
                       IF results["implement"] = Absent THEN retryCount ELSE retryCount + 1)
        /\ conflicts' = IF outcome = "conflict" THEN runId ELSE conflicts
    /\ UNCHANGED <<cfg, runFiles, architecture, contract, verdictCache, verification>>

Extract ==
    /\ At("extract", "enter")
    /\ \E r \in {"passed", "failed"} : Commit("extract", r, Absent)
    /\ UNCHANGED <<cfg, runFiles, artifacts>>

Complete ==
    /\ At("complete", "enter")
    /\ stage' = "complete" /\ node' = "END" /\ phase' = "return"
    /\ UNCHANGED <<cfg, proc, host, exc, resume, runId, results, decisions, error,
                   retryCount, runFiles, artifacts>>

-----------------------------------------------------------------------------
(***************************************************************************)
(* Nodes with a gate, first half: the task runs. In the dashboard's thread *)
(* the tracer has no active run, so the first decision_exists raises and   *)
(* the node commits FAILED.                                                *)
(***************************************************************************)
RaiseGate(g, options) ==
    /\ exc' = [gate |-> g, options |-> options]
    /\ phase' = "gate"
    /\ UNCHANGED <<proc, host, node, resume, stateVars>>

\* The design document is written before its contract is extracted; a contract
\* that cannot be extracted leaves the file of an earlier run in place.
WriteDesign ==
    /\ architecture' = runId
    /\ contract' \in {contract, runId}
    /\ UNCHANGED <<conflicts, verdictCache, verification>>

DesignFails ==
    /\ At("design", "enter")
    /\ Commit("design", "failed", Absent)
    /\ UNCHANGED <<cfg, runFiles, artifacts>>

\* A node run again after an interrupt finds the ambiguous answer in the LLM
\* cache, so it raises the same gate.
DesignPasses ==
    /\ At("design", "enter") /\ host # "dashboard" /\ resume = NoAnswer
    /\ WriteDesign
    /\ Commit("design", "passed", Absent)
    /\ UNCHANGED <<cfg, runFiles>>

DesignAsks ==
    /\ At("design", "enter") /\ host # "dashboard"
    /\ Recorded("architecture_choice_needed") = Absent
    /\ \E options \in OptionLists :
        /\ resume # NoAnswer => options = exc.options
        /\ RaiseGate("architecture_choice_needed", options)
    /\ UNCHANGED <<cfg, runFiles, artifacts>>

TestFails ==
    /\ At("test", "enter")
    /\ Commit("test", "failed", Absent)
    /\ UNCHANGED <<cfg, runFiles, artifacts>>

\* The checks run against the extracted project each time: a second execution
\* may find a different result.
RunChecks(verdict) ==
    /\ evidence' = [evidence EXCEPT ![runId] = verdict]
    /\ UNCHANGED <<runs, decisionFile, pendingGate, status, lost>>

TestPasses ==
    /\ At("test", "enter") /\ host # "dashboard"
    /\ Recorded("test_failure_triage") # "abort"
    /\ RunChecks("pass")
    /\ Commit("test", "passed", Absent)
    /\ UNCHANGED <<cfg, artifacts>>

TestAsks ==
    /\ At("test", "enter") /\ host # "dashboard"
    /\ Recorded("test_failure_triage") = Absent
    /\ RunChecks("fail")
    /\ RaiseGate("test_failure_triage", <<"continue", "abort">>)
    /\ UNCHANGED <<cfg, artifacts>>

VerifyFails ==
    /\ At("verify", "enter")
    /\ Commit("verify", "failed", Absent)
    /\ UNCHANGED <<cfg, runFiles, artifacts>>

CallsLLM == IF evidence[runId] = "pass" THEN cfg.llmOnPass ELSE cfg.llmOnFail

\* Rule-based verification raises no gate, whatever it finds.
VerifyByRule ==
    /\ At("verify", "enter") /\ host # "dashboard" /\ ~CallsLLM
    /\ Recorded("verification_review") # "reject"
    /\ verification' = [run |-> runId, rejected |-> evidence[runId] = "fail"]
    /\ Commit("verify", "passed", Absent)
    /\ UNCHANGED <<cfg, runFiles, architecture, contract, conflicts, verdictCache>>

\* The response: within one run the evidence, and so the cache key, stays the
\* same; another run may or may not have had the same evidence. The nonce of
\* the prompt is fresh on every call, so a response that once repeated it is
\* not recognised when it comes back from the cache.
Response(text, suspicious) ==
    \/ /\ verdictCache.run # 0
       /\ text = verdictCache
       /\ suspicious = (verdictCache.suspect = "wording")
    \/ /\ verdictCache.run # runId
       /\ text \in [run : {runId}, rejected : BOOLEAN, suspect : {"no", "nonce", "wording"}]
       /\ suspicious = (text.suspect # "no")

\* VERIFICATION.md is written, then at most one gate is raised: the injection
\* review first, the review of a rejected verdict only without it.
VerifyByLLM ==
    /\ At("verify", "enter") /\ host # "dashboard" /\ CallsLLM
    /\ Recorded("verification_review") # "reject"
    /\ \E rejected \in BOOLEAN, kind \in {"no", "nonce", "wording"}, suspicious \in BOOLEAN,
          writer \in Runs :
        LET text == [run |-> writer, rejected |-> rejected, suspect |-> kind] IN
        /\ Response(text, suspicious)
        /\ verdictCache' = [text EXCEPT !.run = runId]
        /\ verification' = [run |-> runId, rejected |-> rejected]
        /\ IF suspicious /\ Recorded("prompt_injection_review") = Absent
           THEN RaiseGate("prompt_injection_review", <<"accept_verdict", "reject_and_halt">>)
           ELSE IF rejected /\ Recorded("verification_review") = Absent
           THEN RaiseGate("verification_review", <<"accept", "reject">>)
           ELSE Commit("verify", "passed", Absent)
    /\ UNCHANGED <<cfg, runFiles, architecture, contract, conflicts>>

-----------------------------------------------------------------------------
(***************************************************************************)
(* _handle_decision_gate: skip commits at once; auto saves the default or  *)
(* the first option; pause writes pending_gate.json and interrupts, unless *)
(* this execution of the node has an answer waiting.                       *)
(***************************************************************************)
\* Faulty variant: every gate is looked up under one stage.
PolicyOfTest == cfg.policy["test"]

Policy == cfg.policy[node]
AtGate == proc = "running" /\ phase = "gate"

\* Faulty variant: save_decision records whatever it is given.
AllowedAlways(choice) == TRUE

\* save_decision: an answer outside the options is refused with ValueError; a
\* missing answer falls back on the first option, and options[0] of an empty
\* list raises as well. Neither exception is caught.
Allowed(choice) == \E i \in DOMAIN exc.options : exc.options[i] = choice

SaveDecision(choice) ==
    /\ Allowed(choice)
    /\ decisionFile' = [decisionFile EXCEPT ![runId][exc.gate] = choice]
    /\ phase' = "act"
    /\ UNCHANGED <<proc, host, node, exc, resume, stateVars>>

RefuseDecision(choice) ==
    /\ ~Allowed(choice)
    /\ Crash
    /\ UNCHANGED decisionFile

GateSkip ==
    /\ AtGate /\ Policy = "skip"
    /\ Commit(node, IF node = "design" THEN "skipped" ELSE "passed", Absent)
    /\ UNCHANGED <<cfg, runFiles, artifacts>>

\* default_option or options[0]: the list is read only without a default.
AutoChoice ==
    IF cfg.default[node] # Absent \/ exc.options = <<>> THEN cfg.default[node]
    ELSE exc.options[1]

GateAuto ==
    /\ AtGate /\ Policy = "auto"
    /\ SaveDecision(AutoChoice) \/ RefuseDecision(AutoChoice)
    /\ UNCHANGED <<cfg, runs, pendingGate, status, evidence, lost, artifacts>>

\* Faulty variant: the node interrupts without writing pending_gate.json.
GatePauseUnannounced ==
    /\ AtGate /\ Policy = "pause" /\ resume = NoAnswer
    /\ phase' = "interrupted"
    /\ UNCHANGED <<cfg, proc, host, node, exc, resume, stateVars, runFiles, artifacts>>

\* pending_gate.json and status.json are for pollers: an OSError is logged and the
\* node goes on. A write that failed leaves the old text, or a file nobody can read.
Kept(file) == lost' = [lost EXCEPT ![runId] = @ \ {file}]
Lost(file) ==
    /\ lost' = [lost EXCEPT ![runId] = @ \cup {file}]
    /\ Cardinality({x \in Runs \X {"gate", "status"} : x[2] \in lost'[x[1]]}) <= MaxLost[cfg]

Shown(gate) == [pendingGate EXCEPT ![runId] = gate]

WritePendingGate ==
    \/ pendingGate' = Shown(exc) /\ Kept("gate")
    \/ pendingGate' \in {pendingGate, Shown(NoGate)} /\ Lost("gate")

\* The execution that has the answer writes the file again, and then removes it.
ClearPendingGate ==
    \/ pendingGate' = Shown(NoGate) /\ Kept("gate")
    \/ pendingGate' \in {pendingGate, Shown(exc), Shown(NoGate)} /\ Lost("gate")

GatePause ==
    /\ AtGate /\ Policy = "pause" /\ resume = NoAnswer
    /\ WritePendingGate
    /\ phase' = "interrupted"
    /\ UNCHANGED <<cfg, proc, host, node, exc, resume, stateVars, runs, decisionFile,
                   status, evidence, artifacts>>

GateResume ==
    /\ AtGate /\ Policy = "pause" /\ resume # NoAnswer
    /\ ClearPendingGate
    /\ SaveDecision(resume.choice) \/ RefuseDecision(resume.choice)
    /\ UNCHANGED <<cfg, runs, status, evidence, artifacts>>

-----------------------------------------------------------------------------
(***************************************************************************)
(* Nodes with a gate, second half: what the node does with the decision.   *)
(* The task that runs again does so inside the except handler, so nothing  *)
(* catches an exception of its own.                                        *)
(***************************************************************************)
Chosen == Recorded(exc.gate)

DesignAgain ==
    /\ At("design", "act")
    /\ WriteDesign
    /\ Commit("design", "passed", Chosen)
    /\ UNCHANGED <<cfg, runFiles>>

TestAborted ==
    /\ At("test", "act") /\ Chosen = "abort"
    /\ Commit("test", "failed", Chosen)
    /\ UNCHANGED <<cfg, runFiles, artifacts>>

TestAgain ==
    /\ At("test", "act") /\ Chosen # "abort"
    /\ \E verdict \in {"pass", "fail"} : RunChecks(verdict)
    /\ Commit("test", "passed", Chosen)
    /\ UNCHANGED <<cfg, artifacts>>

\* Only the answer "reject" fails the stage; verify_system does not run again.
VerifyDecided ==
    /\ At("verify", "act")
    /\ Commit("verify", IF Chosen = "reject" THEN "failed" ELSE "passed", Chosen)
    /\ UNCHANGED <<cfg, runFiles, artifacts>>

TaskAgainCrashes ==
    /\ proc = "running" /\ phase = "act"
    /\ node = "design" \/ (node = "test" /\ Chosen # "abort")
    /\ Crash
    /\ UNCHANGED <<cfg, runFiles, artifacts>>

-----------------------------------------------------------------------------
(***************************************************************************)
(* Invocations.                                                            *)
(***************************************************************************)
\* run_pipeline always invokes the graph with a fresh initial state: the same
\* thread id starts over from init and keeps only run_id, which that state lacks.
Launch(sameThread) ==
    /\ proc # "running" /\ runs < MaxRuns
    /\ proc' = "running" /\ host' = "runner" /\ node' = "init" /\ phase' = "enter"
    /\ exc' = NoGate /\ resume' = NoAnswer
    /\ runId' = IF sameThread THEN runId ELSE 0
    /\ results' = Blank /\ stage' = "init" /\ decisions' = NoChoices
    /\ error' = FALSE /\ retryCount' = 0
    /\ UNCHANGED <<cfg, runFiles, artifacts>>

\* Faulty variants: the status names the phase; a failure is not reported.
RunStatusFromPhase == phase
RunStatusWithoutError ==
    IF phase = "interrupted" THEN "paused"
    ELSE IF stage = "complete" THEN "complete" ELSE "paused"

RunStatus ==
    IF phase = "interrupted" THEN "paused"
    ELSE IF error THEN "failed"
    ELSE IF stage = "complete" THEN "complete" ELSE "paused"

\* The status file is written by run_pipeline and by the dashboard, whose thread
\* resolves the state directory of the engine root; a bare graph.invoke writes none.
WritesStatus == \/ host = "runner" /\ runId # 0
                \/ host = "dashboard" /\ cfg.inEngineRoot

WriteRunStatus ==
    \/ status' = [status EXCEPT ![runId] = RunStatus] /\ Kept("status")
    \/ status' \in {status, [status EXCEPT ![runId] = Absent]} /\ Lost("status")

\* The interrupt stays in the checkpoint: whoever resumes the thread can read it there.
Return ==
    /\ proc = "running" /\ phase \in {"interrupted", "return"}
    /\ proc' = IF phase = "interrupted" THEN "paused" ELSE "returned"
    /\ phase' = IF phase = "interrupted" THEN "enter" ELSE "return"
    /\ IF WritesStatus THEN WriteRunStatus ELSE UNCHANGED <<status, lost>>
    /\ UNCHANGED <<cfg, host, node, exc, resume, stateVars, runs, decisionFile, pendingGate,
                   evidence, artifacts>>

\* Command(resume=...) with an option of the gate that is asked about (no option at
\* all when the gate has none).
Answers(asked) == {asked.options[i] : i \in DOMAIN asked.options}

Resume(by, asked) ==
    /\ proc' = "running" /\ host' = by /\ phase' = "enter"
    /\ \E choice \in IF Answers(asked) = {} THEN {Absent} ELSE Answers(asked) :
        resume' = [gate |-> asked.gate, choice |-> choice]
    /\ UNCHANGED <<cfg, node, exc, stateVars, runFiles, artifacts>>

ApiResume ==
    /\ proc = "paused" /\ host # "dashboard"
    /\ Resume("api", exc)

\* The form is shown while both files say so, whatever became of the invocation.
FormShown == /\ runId # 0 /\ runId = runs
             /\ pendingGate[runId] # NoGate /\ status[runId] = "paused"

DashboardResume ==
    /\ proc # "running" /\ FormShown /\ node # "END"
    /\ Resume("dashboard", pendingGate[runId])

\* SIGTERM, SIGKILL or an error of the interpreter between two steps.
Kill ==
    /\ proc = "running" /\ Crash
    /\ UNCHANGED <<cfg, runFiles, artifacts>>

-----------------------------------------------------------------------------
DesignNode == DesignFails \/ DesignPasses \/ DesignAsks \/ DesignAgain
TestNode   == TestFails \/ TestPasses \/ TestAsks \/ TestAborted \/ TestAgain
VerifyNode == VerifyFails \/ VerifyByRule \/ VerifyByLLM \/ VerifyDecided
InitNode   == InitMissingIntake \/ InitOk \/ InitCrash
Gate       == GateSkip \/ GateAuto \/ GatePause \/ GateResume

Step == \/ InitNode \/ Bootstrap \/ DesignNode \/ Implement \/ Extract
        \/ TestNode \/ VerifyNode \/ Complete
        \/ Gate \/ TaskAgainCrashes \/ Return

Next == \/ Step \/ Kill
        \/ \E sameThread \in BOOLEAN : Launch(sameThread)
        \/ ApiResume \/ DashboardResume

\* graph.invoke runs node after node in one thread, and SDK calls, checks and
\* subprocesses carry timeouts: a running invocation keeps taking steps. That does not
\* hold of a subprocess of the dashboard once its output pipe is full: nobody reads it
\* before the process has ended (Block of Launcher), and it waits for ever in a write.
Fairness == WF_vars(Step)

Spec == Init /\ [][Next]_vars /\ Fairness

-----------------------------------------------------------------------------
(***************************************************************************)
(* Properties.                                                             *)
(***************************************************************************)
\* A recorded answer that refuses the build (test triage "abort", verification
\* review "reject").  The state still says "init" before this run's init_node ended.
Refused ==
    /\ stage # "init" /\ runId # 0
    /\ \/ Recorded("test_failure_triage") = "abort"
       \/ Recorded("verification_review") = "reject"

\* The graph reaches "complete" only when every stage of this run passed (design may
\* be skipped), nothing reported an error, and no answer on disk refuses the build -
\* whatever crashed, was resumed or was started over on the way.
CompletionIsEarned ==
    stage = "complete" =>
        /\ ~error /\ ~Refused
        /\ \A s \in Stages : results[s] = "passed" \/ (s = "design" /\ results[s] = "skipped")

\* Where the policy says pause, failing checks and a rejected LLM verdict get past
\* their gate only with an answer on record for this run.
ConsentIsOnRecord ==
    stage = "complete" =>
        /\ cfg.policy["test"] = "pause" /\ evidence[runId] = "fail"
                => Recorded("test_failure_triage") = "continue"
        /\ cfg.policy["verify"] = "pause" /\ CallsLLM /\ verification.rejected
                => \/ Recorded("verification_review") = "accept"
                   \/ Recorded("prompt_injection_review") # Absent

\* An answer a person gave for one gate is never recorded as the decision of
\* another, although a node run again may raise a different gate first.
AnswersStayWithTheirGate ==
    [][\A g \in Gates :
          runId # 0 /\ resume # NoAnswer /\ decisionFile'[runId][g] # decisionFile[runId][g]
              => g = resume.gate /\ decisionFile'[runId][g] = resume.choice]_decisionFile

\* When an invocation waits for a person, both files the dashboard polls say so: the
\* form is shown, for the newest run, and it is the form of the gate that was raised -
\* unless one of the two could not be written, which the code only logs.
PauseIsVisible ==
    proc = "paused" /\ lost[runId] = {} => FormShown /\ pendingGate[runId] = exc

\* Once run_pipeline has returned without waiting, a status.json that could be written
\* tells the outcome: complete, or failed exactly when a stage failed; never paused.
StatusIsTrue ==
    proc = "returned" /\ host = "runner" /\ runId # 0 /\ "status" \notin lost[runId] =>
        /\ status[runId] = "complete" <=> stage = "complete"
        /\ status[runId] = "failed" <=> \E s \in Stages : results[s] = "failed"
        /\ status[runId] # "paused"

\* Every invocation that is not blocked on its own output stops running: it returns,
\* waits for a person, or dies.
RunEnds == proc = "running" ~> proc # "running"

\* The pipeline implements the abstract build flow.
Position ==
    [n \in Stages \cup {"complete", "END"} |->
        CASE n = "init" -> 1 [] n = "bootstrap" -> 2 [] n = "design" -> 3
          [] n = "implement" -> 4 [] n = "extract" -> 5 [] n = "test" -> 6
          [] n = "verify" -> 7 [] n = "complete" -> 8 [] OTHER -> 9]
FlowMode ==
    IF proc = "running" THEN "active" ELSE IF proc = "paused" THEN "waiting" ELSE "stopped"
FlowOutcome ==
    IF stage = "complete" THEN "built" ELSE IF node = "END" THEN "abandoned" ELSE "open"

Flow == INSTANCE BuildFlow WITH pos <- Position[node], mode <- FlowMode,
            outcome <- FlowOutcome, refused <- Refused, retries <- retryCount,
            budget <- cfg.maxRetries

ImplementsBuildFlow == Flow!FlowSpec

-----------------------------------------------------------------------------
(***************************************************************************)
(* What the documentation says and the code does not do.                   *)
(***************************************************************************)
\* Tests that failed go back to implement while retries remain (route_after_test:
\* "Tests failed + retries remaining -> implement").
FailedTestsAreRetried ==
    proc = "returned" /\ host = "runner" /\ results["test"] = "failed" /\ ~Refused
        => retryCount >= cfg.maxRetries

\* Chunks that produced conflicting files are arbitrated by a person when the
\* implement gate's policy is pause (templates/DECISION_GATES.yml).
ConflictsAreArbitrated ==
    cfg.policy["implement"] = "pause" /\ conflicts # 0 /\ conflicts = runId
        => proc # "returned"

\* An answer a person gave is not dropped: a node that takes it and does not fail
\* records it (engine/decision_gates.py, "Every decision is recorded").
AnswersAreRecorded ==
    [][proc = "running" /\ resume # NoAnswer /\ resume' = NoAnswer /\ ~error'
          => decisionFile'[runId][resume.gate] = resume.choice]_vars

\* "reject_and_halt" halts the build.
HaltMeansHalt ==
    stage = "complete" => Recorded("prompt_injection_review") # "reject_and_halt"
=============================================================================
