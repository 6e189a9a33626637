------------------------- MODULE PipelineRefinement -------------------------
(***************************************************************************)
(* Pipeline implements BuildFlow: the initial states map to initial        *)
(* states, and every step of the pipeline is a step of the abstract flow   *)
(* or changes nothing the flow can see.  The inductive invariant of        *)
(* PipelineProofs excludes the states from which a step would not map:     *)
(* above all, a stage that is passed while a refusing answer is on disk.   *)
(***************************************************************************)
EXTENDS PipelineProofs

\* What the flow sees of a state.
FlowView == <<cfg.maxRetries, Position[node], FlowMode, FlowOutcome, Refused, retryCount>>

\* The part of it that a step of proc alone leaves as it is.
FlowPlace == <<cfg.maxRetries, Position[node], FlowOutcome, Refused, retryCount>>

LEMMA FlowInitOK == Init => Flow!FlowInit
<1> SUFFICES ASSUME Init PROVE Flow!FlowInit
  OBVIOUS
<1>1. cfg.maxRetries \in Nat
  BY PipelineAssumption DEF Init, Config
<1>2. Position[node] = 1
  BY Positions DEF Init
<1>3. FlowMode = "stopped" /\ FlowOutcome = "open"
  BY DEF Init, FlowMode, FlowOutcome
<1>4. Refused = FALSE /\ retryCount = 0
  BY DEF Init, Refused
<1> QED
  BY <1>1, <1>2, <1>3, <1>4 DEF Flow!FlowInit

LEMMA PositionRange ==
    /\ \A s \in Stages : Position[s] \in 1 .. 7 /\ Position[After[s]] = Position[s] + 1
    /\ Position["complete"] = 8 /\ Position["END"] = 9
BY Positions, AfterTyped DEF Stages

\* Steps that move neither the stage nor any answer.
LEMMA PlaceKept ==
    ASSUME UNCHANGED <<cfg, node, stateVars, decisionFile>>
    PROVE  UNCHANGED FlowPlace
BY DEF FlowPlace, FlowOutcome, Refused, Recorded, stateVars

\* A refusing answer is on disk only while its own stage is current.
LEMMA RefusedWhere ==
    ASSUME IInv, node # "END"
    PROVE  /\ Refused => node \in {"test", "verify"}
           /\ node = "test" => (Refused <=> Aborted)
           /\ node = "verify" => (Refused <=> Rejected)
           /\ FlowOutcome = "open"
<1>1. stage = "init" <=> node \in {"init", "bootstrap"}
  BY DEF IInv, Rest, Progress
<1>2. node \in {"test", "verify"} => runId # 0
  BY DEF IInv, TInv, Located
<1>3. stage # "complete"
  BY DEF IInv, Rest, Progress
<1> QED
  BY <1>1, <1>2, <1>3 DEF Refused, Aborted, Rejected, IInv, Rest, Answered, FlowOutcome

\* A node that returns advances the flow, or abandons it.
LEMMA CommitFlows ==
    ASSUME IInv, IInv', NEW s \in Stages, NEW r \in {"passed", "failed", "skipped"}, NEW c,
           CommitRetry(s, r, c, retryCount), node = s, proc = "running",
           UNCHANGED <<cfg, decisionFile>>, s = "init" => r = "failed",
           r # "failed" /\ s = "test" => ~Aborted, r # "failed" /\ s = "verify" => ~Rejected
    PROVE  Flow!FlowNext
<1>1. /\ r = "failed" => node' = "END"
      /\ r # "failed" => node' = After[s]
      /\ stage' = s /\ retryCount' = retryCount /\ UNCHANGED <<proc, runId>>
  BY CommitMoves DEF IInv, TInv
<1>2. node # "END" /\ stage' # "complete" /\ (r # "failed" => node' # "END")
  BY <1>1, AfterTyped DEF Stages
<1>3. FlowMode = "active" /\ FlowMode' = "active" /\ FlowOutcome = "open"
  BY <1>1, <1>2, RefusedWhere DEF FlowMode
<1>4. Aborted' = Aborted /\ Rejected' = Rejected /\ cfg'.maxRetries = cfg.maxRetries
  BY <1>1 DEF Aborted, Rejected, Recorded
<1>5. Refused' <=> Refused
  <2>1. CASE s = "init"
    BY <2>1, <1>1, <1>2, RefusedWhere DEF Refused
  <2>2. CASE s # "init"
    <3>1. runId # 0 /\ runId' # 0
      BY <2>2, <1>1, <1>2 DEF IInv, TInv, Located
    <3>2. Refused' <=> Aborted \/ Rejected
      BY <2>2, <3>1, <1>1, <1>4 DEF Refused, Aborted, Rejected
    <3>3. s # "test" => ~Aborted
      BY <2>2, <1>2 DEF IInv, Rest, Answered
    <3>4. s # "verify" => ~Rejected
      BY <2>2, <1>2 DEF IInv, Rest, Answered
    <3> QED
      BY <3>2, <3>3, <3>4, <1>2, RefusedWhere
  <2> QED  BY <2>1, <2>2
<1>6. (Refused' = Refused) /\ Position[node] < 8
  BY <1>5, PositionRange DEF Refused
<1>7. CASE r = "failed"
  <2>1. Position[node'] = 9 /\ FlowOutcome' = "abandoned"
    BY <1>7, <1>1, <1>2, PositionRange DEF FlowOutcome
  <2>2. Flow!Abandon
    BY <2>1, <1>1, <1>3, <1>6, Zenon DEF Flow!Abandon, Flow!CompletePos, Flow!OverPos
  <2> QED  BY <2>2, <1>4 DEF Flow!FlowNext
<1>8. CASE r # "failed"
  <2>1. Position[node'] = Position[node] + 1 /\ FlowOutcome' = "open"
    BY <1>8, <1>1, <1>2, PositionRange DEF FlowOutcome
  <2>2. ~Refused
    BY <1>8, <1>2, RefusedWhere
  <2>3. Flow!Advance
    BY <2>1, <2>2, <1>1, <1>3, <1>6, Zenon DEF Flow!Advance, Flow!CompletePos
  <2> QED  BY <2>3, <1>4 DEF Flow!FlowNext
<1> QED  BY <1>7, <1>8

\* An invocation that dies.
LEMMA CrashFlows ==
    ASSUME Crash, UNCHANGED <<cfg, decisionFile>>, proc = "running"
    PROVE  Flow!FlowNext
<1>1. UNCHANGED FlowPlace
  BY PlaceKept DEF Crash
<1>2. FlowMode = "active" /\ FlowMode' = "stopped"
  BY DEF Crash, FlowMode
<1> QED
  BY <1>1, <1>2 DEF FlowPlace, Flow!Leave, Flow!FlowNext

\* A step inside a node.
LEMMA InsideFlows ==
    ASSUME UNCHANGED <<cfg, node, stateVars, decisionFile, proc>>
    PROVE  UNCHANGED FlowView
<1>1. UNCHANGED FlowPlace
  BY PlaceKept
<1> QED
  BY <1>1 DEF FlowPlace, FlowView, FlowMode

\* An answer that is recorded refuses the build, or shows in nothing.
LEMMA SaveFlows ==
    ASSUME IInv, IInv', AtGate, NEW choice, SaveDecision(choice), UNCHANGED cfg
    PROVE  Flow!FlowNext \/ UNCHANGED FlowView
<1>1. /\ node' = node /\ stage' = stage /\ retryCount' = retryCount /\ proc' = "running"
      /\ runId' = runId /\ proc = "running" /\ cfg'.maxRetries = cfg.maxRetries
      /\ decisionFile' = [decisionFile EXCEPT ![runId][exc.gate] = choice]
  BY DEF SaveDecision, AtGate, stateVars
<1>2. /\ node \in {"design", "test", "verify"} /\ exc.gate \in GatesOf[node]
      /\ runId \in Runs /\ Recorded(exc.gate) = Absent
  BY DEF AtGate, IInv, TInv, TypeOK, StateTypeOK, Located, Rest, Gated, Runs
<1>3. \A g \in Gates : g # exc.gate => Recorded(g)' = Recorded(g)
  BY <1>1, <1>2 DEF Recorded, ChoiceRecord, IInv, TInv, TypeOK, FilesTypeOK
<1>4. (Aborted => Aborted') /\ (Rejected => Rejected')
  BY <1>2, <1>3 DEF Aborted, Rejected, Gates, Absent
<1>5. Refused => Refused'
  BY <1>1, <1>4 DEF Refused, Aborted, Rejected
<1>6. FlowMode = "active" /\ FlowMode' = "active" /\ FlowOutcome' = FlowOutcome
  BY <1>1 DEF FlowMode, FlowOutcome
<1>7. Position[node] \in 1 .. 7
  BY <1>2, PositionRange DEF Stages
<1>8. CASE Refused' <=> Refused
  BY <1>8, <1>1, <1>6 DEF FlowView, Refused
<1>9. CASE Refused' = TRUE
  <2>1. Flow!Refuse
    BY <1>9, <1>1, <1>6, <1>7 DEF Flow!Refuse, Flow!CompletePos
  <2> QED  BY <2>1, <1>1 DEF Flow!FlowNext
<1> QED
  BY <1>5, <1>8, <1>9 DEF Refused

LEMMA FlowStep == IInv /\ IInv' /\ [Next]_vars => [Flow!FlowNext]_FlowView
<1> SUFFICES ASSUME IInv, IInv', [Next]_vars PROVE Flow!FlowNext \/ UNCHANGED FlowView
  OBVIOUS
<1>1. CASE InitMissingIntake
  BY <1>1, CommitFlows DEF InitMissingIntake, At, Commit, Stages, runFiles
<1>2. CASE InitOk
  <2>1. /\ node = "init" /\ node' = "bootstrap" /\ proc = "running" /\ proc' = "running"
        /\ stage' = "init" /\ retryCount' = 0 /\ cfg' = cfg
    BY <1>2 DEF InitOk, At
  <2>2. FlowMode = "active" /\ FlowMode' = "active" /\ FlowOutcome = "open" /\ FlowOutcome' = "open"
    BY <2>1, RefusedWhere DEF FlowMode, FlowOutcome
  <2>3. Refused = FALSE /\ Refused' = FALSE
    BY <2>1, RefusedWhere DEF Refused
  <2>4. Position[node] < 8 /\ Position[node'] = Position[node] + 1
    BY <2>1, Positions
  <2>5. retryCount' = retryCount
    BY <2>1 DEF IInv, Rest, NoRetry
  <2>6. Flow!Advance
    BY <2>2, <2>3, <2>4, <2>5, Zenon DEF Flow!Advance, Flow!CompletePos
  <2> QED  BY <2>1, <2>6 DEF Flow!FlowNext
<1>3. CASE InitCrash
  BY <1>3, CrashFlows DEF InitCrash, At
<1>4. CASE Bootstrap
  BY <1>4, CommitFlows DEF Bootstrap, At, Commit, Stages, runFiles
<1>5. CASE DesignFails
  BY <1>5, CommitFlows DEF DesignFails, At, Commit, Stages, runFiles
<1>6. CASE DesignPasses
  BY <1>6, CommitFlows DEF DesignPasses, At, Commit, Stages, runFiles
<1>7. CASE DesignAsks
  BY <1>7, InsideFlows DEF DesignAsks, At, RaiseGate, runFiles
<1>8. CASE DesignAgain
  BY <1>8, CommitFlows DEF DesignAgain, At, Commit, Stages, runFiles
<1>9. CASE Implement
  <2>1. results["implement"] = Absent
    BY <1>9, Positions DEF Implement, At, IInv, Rest, Progress, Stages
  <2>2. PICK r \in {"passed", "failed"} : CommitRetry("implement", r, Absent, retryCount)
    BY <1>9, <2>1 DEF Implement
  <2> QED
    BY <1>9, <2>2, CommitFlows DEF Implement, At, Stages, runFiles
<1>10. CASE Extract
  BY <1>10, CommitFlows DEF Extract, At, Commit, Stages, runFiles
<1>11. CASE TestFails
  BY <1>11, CommitFlows DEF TestFails, At, Commit, Stages, runFiles
<1>12. CASE TestPasses
  BY <1>12, CommitFlows DEF TestPasses, At, Commit, Stages, runFiles, Aborted, RunChecks
<1>13. CASE TestAsks
  BY <1>13, InsideFlows DEF TestAsks, At, RaiseGate, RunChecks
<1>14. CASE TestAborted
  BY <1>14, CommitFlows DEF TestAborted, At, Commit, Stages, runFiles
<1>15. CASE TestAgain
  <2>1. exc.gate = "test_failure_triage"
    BY <1>15 DEF TestAgain, At, IInv, TInv, Located, GatesOf
  <2>2. ~Aborted
    BY <1>15, <2>1 DEF TestAgain, Chosen, Aborted
  <2> QED
    BY <1>15, <2>2, CommitFlows DEF TestAgain, At, Commit, Stages, RunChecks
<1>16. CASE VerifyFails
  BY <1>16, CommitFlows DEF VerifyFails, At, Commit, Stages, runFiles
<1>17. CASE VerifyByRule
  BY <1>17, CommitFlows DEF VerifyByRule, At, Commit, Stages, runFiles, Rejected
<1>18. CASE VerifyByLLM
  <2>1. At("verify", "enter") /\ ~Rejected /\ UNCHANGED runFiles /\ cfg' = cfg
    BY <1>18 DEF VerifyByLLM, Rejected
  <2>2. CASE Commit("verify", "passed", Absent)
    BY <2>1, <2>2, CommitFlows DEF At, Commit, Stages, runFiles
  <2>3. ASSUME NEW g, NEW options, RaiseGate(g, options) PROVE UNCHANGED FlowView
    BY <2>1, <2>3, InsideFlows DEF RaiseGate, runFiles
  <2> QED
    BY <1>18, <2>2, <2>3 DEF VerifyByLLM
<1>19. CASE VerifyDecided
  <2>1. exc.gate \in {"prompt_injection_review", "verification_review"}
    BY <1>19 DEF VerifyDecided, At, IInv, TInv, Located, GatesOf
  <2>2. Chosen # "reject" => ~Rejected
    BY <1>19, <2>1 DEF VerifyDecided, At, Chosen, Rejected, IInv, Rest, Gated
  <2> QED
    BY <1>19, <2>2, CommitFlows DEF VerifyDecided, At, Commit, Stages, runFiles
<1>20. CASE Complete
  <2>1. /\ node = "complete" /\ node' = "END" /\ proc = "running" /\ proc' = "running"
        /\ stage' = "complete" /\ retryCount' = retryCount /\ cfg' = cfg
        /\ runId' = runId /\ decisionFile' = decisionFile
    BY <1>20 DEF Complete, At, runFiles
  <2>2. FlowMode = "active" /\ FlowMode' = "active" /\ FlowOutcome' = "built"
    BY <2>1 DEF FlowMode, FlowOutcome
  <2>3. ~Aborted /\ ~Rejected
    BY <2>1 DEF IInv, Rest, Answered
  <2>4. Refused = FALSE /\ Refused' = FALSE
    BY <2>1, <2>3 DEF Refused, Aborted, Rejected, Recorded
  <2>5. Position[node] = 8 /\ Position[node'] = 9
    BY <2>1, Positions
  <2>6. Flow!Build
    BY <2>1, <2>2, <2>4, <2>5 DEF Flow!Build, Flow!CompletePos, Flow!OverPos
  <2> QED  BY <2>1, <2>6 DEF Flow!FlowNext
<1>21. CASE GateSkip
  <2>1. node \in {"design", "test", "verify"} /\ exc.gate \in GatesOf[node]
    BY <1>21 DEF GateSkip, AtGate, IInv, TInv, Located
  <2>2. node = "test" => ~Aborted
    BY <1>21, <2>1 DEF GateSkip, AtGate, GatesOf, IInv, Rest, Gated, Aborted, Absent
  <2>3. node = "verify" => ~Rejected
    BY <1>21, <2>1 DEF GateSkip, AtGate, GatesOf, IInv, Rest, Gated, Rejected, Absent
  <2> QED
    BY <1>21, <2>1, <2>2, <2>3, CommitFlows DEF GateSkip, AtGate, Commit, Stages, runFiles
<1>22. CASE GateAuto
  BY <1>22, SaveFlows, CrashFlows DEF GateAuto, AtGate, RefuseDecision
<1>23. CASE GatePause
  BY <1>23, InsideFlows DEF GatePause
<1>24. CASE GateResume
  BY <1>24, SaveFlows, CrashFlows DEF GateResume, AtGate, RefuseDecision
<1>25. CASE TaskAgainCrashes
  BY <1>25, CrashFlows DEF TaskAgainCrashes, runFiles
<1>26. CASE Return
  <2>1. UNCHANGED FlowPlace /\ proc = "running"
    BY <1>26, PlaceKept DEF Return
  <2>2. CASE phase = "return"
    <3>1. FlowMode = "active" /\ FlowMode' = "stopped"
      BY <1>26, <2>2 DEF Return, FlowMode
    <3> QED
      BY <2>1, <3>1 DEF FlowPlace, Flow!Leave, Flow!FlowNext
  <2>3. CASE phase = "interrupted"
    <3>1. FlowMode = "active" /\ FlowMode' = "waiting"
      BY <1>26, <2>3 DEF Return, FlowMode
    <3>2. node \in {"design", "test", "verify"} /\ exc.gate \in GatesOf[node]
      BY <2>3 DEF IInv, TInv, Located
    <3>3. ~Refused
      BY <2>3, <3>2, RefusedWhere
      DEF IInv, Rest, Gated, GatesOf, Aborted, Rejected, Absent
    <3>4. Position[node] \in 1 .. 7
      BY <3>2, PositionRange DEF Stages
    <3> QED
      BY <2>1, <3>1, <3>3, <3>4 DEF FlowPlace, Flow!Leave, Flow!FlowNext, Flow!CompletePos
  <2> QED  BY <1>26, <2>2, <2>3 DEF Return
<1>27. CASE Kill
  BY <1>27, CrashFlows DEF Kill, runFiles
<1>28. ASSUME NEW sameThread \in BOOLEAN, Launch(sameThread) PROVE Flow!FlowNext
  <2>1. /\ proc # "running" /\ proc' = "running" /\ node' = "init" /\ stage' = "init"
        /\ retryCount' = 0 /\ cfg' = cfg
    BY <1>28 DEF Launch
  <2>2. FlowMode # "active" /\ FlowMode' = "active" /\ FlowOutcome' = "open"
    BY <2>1 DEF FlowMode, FlowOutcome
  <2>3. Refused' = FALSE /\ Position[node'] = 1
    BY <2>1, Positions DEF Refused
  <2>4. Flow!Begin
    BY <2>1, <2>2, <2>3 DEF Flow!Begin
  <2> QED  BY <2>1, <2>4 DEF Flow!FlowNext
<1>29. ASSUME NEW by, NEW choice, Resume(by, choice), proc # "running", node # "END"
      PROVE  Flow!FlowNext
  <2>1. UNCHANGED FlowPlace
    BY <1>29, PlaceKept DEF Resume, runFiles
  <2>2. FlowMode # "active" /\ FlowMode' = "active"
    BY <1>29 DEF Resume, FlowMode
  <2>3. Position[node] < 9
    BY <1>29, PositionRange DEF IInv, TInv, TypeOK, CallTypeOK
  <2> QED
    BY <2>1, <2>2, <2>3 DEF FlowPlace, Flow!Wake, Flow!FlowNext, Flow!OverPos
<1>30. CASE ApiResume
  BY <1>30, <1>29 DEF ApiResume, IInv, TInv, Located
<1>31. CASE DashboardResume
  BY <1>31, <1>29 DEF DashboardResume
<1>32. CASE UNCHANGED vars
  BY <1>32, InsideFlows DEF vars, callVars, runFiles
<1> QED
  BY <1>1, <1>2, <1>3, <1>4, <1>5, <1>6, <1>7, <1>8, <1>9, <1>10, <1>11, <1>12, <1>13, <1>14,
     <1>15, <1>16, <1>17, <1>18, <1>19, <1>20, <1>21, <1>22, <1>23, <1>24, <1>25, <1>26, <1>27,
     <1>28, <1>30, <1>31, <1>32
  DEF Next, Step, InitNode, DesignNode, TestNode, VerifyNode, Gate

\* The pipeline implements the abstract build flow, for every configuration: stages in
\* their order, no stage passed over a refusing answer, built only after the last.
THEOREM PipelineImplementsBuildFlow == Spec => ImplementsBuildFlow
<1>1. Init => Flow!FlowInit
  BY FlowInitOK
<1>2. IInv /\ IInv' /\ [Next]_vars => [Flow!FlowNext]_Flow!flowVars
  BY FlowStep DEF FlowView, Flow!flowVars
<1> QED
  BY <1>1, <1>2, InvAlways, PTL DEF Spec, ImplementsBuildFlow, Flow!FlowSpec
=============================================================================
