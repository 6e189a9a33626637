--------------------------- MODULE PipelineProofs ---------------------------
(***************************************************************************)
(* Theorems about Pipeline, for every set of configurations, approaches    *)
(* and option lists and every number of runs.                              *)
(*                                                                         *)
(* CompletionIsEarned is not inductive: that a completed build passed      *)
(* every stage needs what holds before it is complete (Progress), that no  *)
(* refusing answer is on disk needs where such an answer can be recorded   *)
(* and what may follow it (Answered), and that a new run starts with no    *)
(* answers needs that decision files are written for existing runs only    *)
(* (Fresh).  StatusIsTrue needs in addition that a failure and the error   *)
(* field come and go together (Reported).                                  *)
(***************************************************************************)
EXTENDS Pipeline, TLAPS

GatesOf == [design |-> {"architecture_choice_needed"},
            test   |-> {"test_failure_triage"},
            verify |-> {"prompt_injection_review", "verification_review"}]

\* Past init there is a run; a gate being handled is one of the node's own.
Located ==
    /\ node \notin {"init", "END"} => runId # 0
    /\ phase \in {"gate", "interrupted", "act"} => /\ node \in {"design", "test", "verify"}
                                                   /\ exc.gate \in GatesOf[node]
    /\ proc = "paused" => node \in {"design", "test", "verify"} /\ exc.gate \in GatesOf[node]

TInv == TypeOK /\ Located

\* A stage whose result lets the build go on.
IsPassed(s) == results[s] = "passed" \/ (s = "design" /\ results[s] = "skipped")

Aborted  == Recorded("test_failure_triage") = "abort"
Rejected == Recorded("verification_review") = "reject"

Fresh ==
    /\ runId <= runs
    /\ \A r \in Runs : r > runs => decisionFile[r] = NoChoices

\* A node got to its gate past the answers that would have stopped it.
Gated ==
    /\ phase \in {"gate", "interrupted"} => Recorded(exc.gate) = Absent
    /\ phase \in {"gate", "interrupted", "act"} /\ exc.gate = "prompt_injection_review"
            => ~Rejected

\* Every stage before the node to execute passed, no later one was executed.
Progress ==
    /\ node # "END" =>
          /\ ~error
          /\ \A s \in Stages : IF Position[s] < Position[node] THEN IsPassed(s)
                               ELSE results[s] = Absent
          /\ stage = "init" <=> node \in {"init", "bootstrap"}
    /\ stage = "complete" => /\ node = "END" /\ ~error /\ runId # 0
                             /\ \A s \in Stages : IsPassed(s)

\* A refusing answer is recorded only at its stage, and holds the build there.
Answered ==
    /\ node \notin {"init", "test", "END"} \/ stage = "complete" => ~Aborted
    /\ node \notin {"init", "verify", "END"} \/ stage = "complete" => ~Rejected

\* The error field, the failed results and the status file agree.
Reported ==
    /\ error <=> \E s \in Stages : results[s] = "failed"
    /\ node = "END" => error \/ stage = "complete"
    /\ phase = "return" \/ proc = "returned" => node = "END"
    /\ proc = "returned" /\ host = "runner" /\ runId # 0 /\ "status" \notin lost[runId]
            => status[runId] = IF error THEN "failed" ELSE "complete"

NoRetry == retryCount = 0

Rest == Fresh /\ Gated /\ Progress /\ Answered /\ Reported /\ NoRetry
IInv == TInv /\ Rest

-----------------------------------------------------------------------------
(***************************************************************************)
(* What the return of a node does, whatever the node.                      *)
(***************************************************************************)
\* The node after a stage that passed.
After == [s \in Stages |-> IF s = "test" THEN "verify" ELSE Successor[s]]

LEMMA SeqOfSubset ==
    ASSUME NEW S, NEW T, S \subseteq T, NEW q \in Seq(S)
    PROVE  q \in Seq(T)
OBVIOUS

LEMMA AfterTyped ==
    /\ \A s \in Stages : After[s] \in Stages \cup {"complete"} /\ After[s] # "init"
    /\ After["init"] = "bootstrap" /\ After["bootstrap"] = "design"
    /\ After["design"] = "implement" /\ After["implement"] = "extract"
    /\ After["extract"] = "test" /\ After["test"] = "verify" /\ After["verify"] = "complete"
BY DEF After, Successor, Stages

\* A failed stage leads to the end - test as well, because a failed test always
\* comes with an error - and a passed one to the next.
LEMMA CommitMoves ==
    ASSUME TypeOK, NEW s \in Stages, NEW r \in {"passed", "failed", "skipped"}, NEW c, NEW t,
           CommitRetry(s, r, c, t)
    PROVE  /\ results' = [results EXCEPT ![s] = r] /\ results' \in [Stages -> Outcomes]
           /\ error' = (error \/ r = "failed")
           /\ r = "failed" => node' = "END" /\ phase' = "return"
           /\ r # "failed" => node' = After[s] /\ phase' = "enter"
           /\ stage' = s /\ retryCount' = t
           /\ UNCHANGED <<proc, host, runId>>
<1>1. results' = [results EXCEPT ![s] = r] /\ results' \in [Stages -> Outcomes]
  BY DEF CommitRetry, TypeOK, StateTypeOK, Outcomes
<1>2. results'[s] = r
  BY <1>1 DEF TypeOK, StateTypeOK
<1>3. error' = (error \/ r = "failed") /\ error' \in BOOLEAN
  BY DEF CommitRetry, TypeOK, StateTypeOK
<1>4. s = "test" /\ r = "failed" => node' = "END"
  BY <1>2, <1>3 DEF CommitRetry, Route, RouteAfterTest
<1>5. s # "test" /\ r = "failed" => node' = "END"
  BY <1>2 DEF CommitRetry, Route
<1>6. s = "test" /\ r # "failed" => node' = After[s]
  BY <1>2 DEF CommitRetry, Route, RouteAfterTest, After
<1>7. s # "test" /\ r # "failed" => node' = After[s]
  BY <1>2 DEF CommitRetry, Route, After
<1>8. r # "failed" => node' # "END"
  BY <1>6, <1>7, AfterTyped DEF Stages
<1>9. phase' = (IF node' = "END" THEN "return" ELSE "enter")
  BY DEF CommitRetry
<1> QED  BY <1>1, <1>3, <1>4, <1>5, <1>6, <1>7, <1>8, <1>9 DEF CommitRetry

LEMMA CommitTyped ==
    ASSUME TypeOK, NEW s \in Stages, NEW r \in {"passed", "failed", "skipped"},
           NEW c \in Choices \cup {Absent}, NEW t \in Nat, CommitRetry(s, r, c, t)
    PROVE  CallTypeOK' /\ StateTypeOK'
<1>1. results' \in [Stages -> Outcomes] /\ stage' = s /\ retryCount' = t
  BY CommitMoves
<1>2. node' \in Stages \cup {"complete", "END"}
  BY CommitMoves, AfterTyped
<1>3. exc' \in GateRecord /\ resume' \in AnswerRecord
  BY DEF CommitRetry, GateRecord, AnswerRecord, NoGate, NoAnswer
<1>4. decisions' \in ChoiceRecord
  BY DEF CommitRetry, TypeOK, StateTypeOK, ChoiceRecord
<1>5. error' \in BOOLEAN /\ runId' \in 0 .. MaxRuns
  BY DEF CommitRetry, TypeOK, StateTypeOK
<1>6. phase' \in {"enter", "return"} /\ UNCHANGED <<proc, host>>
  BY DEF CommitRetry
<1> QED
  BY <1>1, <1>2, <1>3, <1>4, <1>5, <1>6 DEF TypeOK, CallTypeOK, StateTypeOK

LEMMA CommitLocated ==
    ASSUME TInv, NEW s \in Stages, NEW r \in {"passed", "failed", "skipped"}, NEW c, NEW t,
           CommitRetry(s, r, c, t), proc = "running", node = s, s = "init" => r = "failed"
    PROVE  Located'
<1>1. r = "failed" => node' = "END"
  BY CommitMoves DEF TInv
<1>2. phase' \in {"enter", "return"} /\ runId' = runId /\ proc' = "running"
  BY DEF CommitRetry
<1>3. s # "init" => runId # 0
  BY DEF TInv, Located, Stages
<1> QED
  BY <1>1, <1>2, <1>3 DEF Located

-----------------------------------------------------------------------------
(***************************************************************************)
(* Types, and where a gate is handled.                                     *)
(***************************************************************************)
LEMMA BlankTyped ==
    /\ Blank \in [Stages -> Outcomes] /\ NoChoices \in ChoiceRecord
    /\ NoGate \in GateRecord /\ NoAnswer \in AnswerRecord
    /\ "init" \in Stages /\ "passed" \in Outcomes
BY DEF Stages, Blank, Outcomes, NoChoices, ChoiceRecord, NoGate, GateRecord, NoAnswer, AnswerRecord

LEMMA ChosenTyped ==
    ASSUME TInv, phase = "act"
    PROVE  Chosen \in Choices \cup {Absent}
<1>1. runId \in Runs
  BY DEF TInv, TypeOK, StateTypeOK, Located, Runs
<1>2. exc.gate \in Gates
  BY DEF TInv, Located, GatesOf, Gates
<1> QED
  BY <1>1, <1>2 DEF TInv, TypeOK, FilesTypeOK, ChoiceRecord, Chosen, Recorded

LEMMA LostTyped ==
    ASSUME TInv, NEW file \in {"gate", "status"}, Kept(file) \/ Lost(file)
    PROVE  lost' \in [Runs -> SUBSET {"gate", "status"}]
BY DEF TInv, TypeOK, FilesTypeOK, Kept, Lost

LEMMA TypeInit == Init => TInv
<1> SUFFICES ASSUME Init PROVE TInv
  OBVIOUS
<1>1. CallTypeOK
  BY BlankTyped DEF Init, CallTypeOK, Stages
<1>2. StateTypeOK
  <2>1. error \in BOOLEAN
    BY DEF Init
  <2>2. runId \in 0 .. MaxRuns /\ retryCount \in Nat
    BY PipelineAssumption DEF Init
  <2> QED  BY <2>1, <2>2, BlankTyped DEF Init, StateTypeOK
<1>3. FilesTypeOK
  BY PipelineAssumption DEF Init, FilesTypeOK, ChoiceRecord, NoChoices, GateRecord, NoGate
<1>4. ArtifactsTypeOK
  BY PipelineAssumption DEF Init, ArtifactsTypeOK, NoText, NoVerdict
<1>5. Located
  BY DEF Init, Located
<1> QED
  BY <1>1, <1>2, <1>3, <1>4, <1>5 DEF TInv, TypeOK, Init

LEMMA TypeStep == TInv /\ [Next]_vars => TInv'
<1> SUFFICES ASSUME TInv, [Next]_vars PROVE TInv'
  OBVIOUS
<1> USE DEF TInv, TypeOK
<1>1. CASE InitMissingIntake
  <2>1. CallTypeOK' /\ StateTypeOK'
    BY <1>1, CommitTyped
    DEF InitMissingIntake, Commit, At, Stages, Choices, Absent, StateTypeOK
  <2>2. Located'
    BY <1>1, CommitLocated DEF InitMissingIntake, Commit, At, Stages
  <2>3. FilesTypeOK' /\ ArtifactsTypeOK'
    BY <1>1 DEF InitMissingIntake, runFiles, artifacts, StateTypeOK, FilesTypeOK, ArtifactsTypeOK
  <2> QED  BY <1>1, <2>1, <2>2, <2>3 DEF InitMissingIntake
<1>2. CASE InitOk
  <2>1. CallTypeOK'
    BY <1>2 DEF InitOk, CallTypeOK, Stages
  <2>2. StateTypeOK'
    <3>1. error' \in BOOLEAN
      BY <1>2 DEF InitOk
    <3>2. runId' \in 0 .. MaxRuns /\ retryCount' \in Nat
      BY <1>2, PipelineAssumption DEF InitOk, FilesTypeOK
    <3>3. results' \in [Stages -> Outcomes]
      BY <1>2, BlankTyped DEF InitOk
    <3> QED  BY <1>2, <3>1, <3>2, <3>3, BlankTyped DEF InitOk, StateTypeOK
  <2>3. FilesTypeOK' /\ ArtifactsTypeOK'
    BY <1>2, PipelineAssumption DEF InitOk, artifacts, FilesTypeOK, ArtifactsTypeOK
  <2>4. Located'
    BY <1>2, PipelineAssumption DEF InitOk, At, Located, FilesTypeOK
  <2> QED  BY <1>2, <2>1, <2>2, <2>3, <2>4 DEF InitOk
<1>3. CASE InitCrash
  BY <1>3, PipelineAssumption
  DEF InitCrash, Crash, At, stateVars, artifacts, CallTypeOK, StateTypeOK, FilesTypeOK,
      ArtifactsTypeOK, Located
<1>4. CASE Bootstrap
  <2>1. CallTypeOK' /\ StateTypeOK'
    BY <1>4, CommitTyped
    DEF Bootstrap, Commit, At, Stages, Choices, Absent, StateTypeOK
  <2>2. Located'
    BY <1>4, CommitLocated DEF Bootstrap, Commit, At, Stages
  <2>3. FilesTypeOK' /\ ArtifactsTypeOK'
    BY <1>4 DEF Bootstrap, runFiles, artifacts, StateTypeOK, FilesTypeOK, ArtifactsTypeOK
  <2> QED  BY <1>4, <2>1, <2>2, <2>3 DEF Bootstrap
<1>5. CASE DesignFails
  <2>1. CallTypeOK' /\ StateTypeOK'
    BY <1>5, CommitTyped
    DEF DesignFails, Commit, At, Stages, Choices, Absent, StateTypeOK
  <2>2. Located'
    BY <1>5, CommitLocated DEF DesignFails, Commit, At, Stages
  <2>3. FilesTypeOK' /\ ArtifactsTypeOK'
    BY <1>5 DEF DesignFails, runFiles, artifacts, StateTypeOK, FilesTypeOK, ArtifactsTypeOK
  <2> QED  BY <1>5, <2>1, <2>2, <2>3 DEF DesignFails
<1>6. CASE DesignPasses
  <2>1. CallTypeOK' /\ StateTypeOK'
    BY <1>6, CommitTyped
    DEF DesignPasses, Commit, At, Stages, Choices, Absent, StateTypeOK
  <2>2. Located'
    BY <1>6, CommitLocated DEF DesignPasses, Commit, At, Stages
  <2>3. FilesTypeOK' /\ ArtifactsTypeOK'
    BY <1>6 DEF DesignPasses, WriteDesign, runFiles, StateTypeOK, FilesTypeOK, ArtifactsTypeOK
  <2> QED  BY <1>6, <2>1, <2>2, <2>3 DEF DesignPasses
<1>7. CASE DesignAsks
  <2>1. PICK options \in OptionLists : RaiseGate("architecture_choice_needed", options)
    BY <1>7 DEF DesignAsks
  <2>2. options \in Seq(Choices)
    BY PipelineAssumption, SeqOfSubset DEF Choices
  <2>3. exc' \in GateRecord
    BY <2>1, <2>2 DEF RaiseGate, GateRecord, Gates
  <2>4. CallTypeOK' /\ StateTypeOK'
    BY <2>1, <2>3 DEF RaiseGate, CallTypeOK, StateTypeOK, stateVars
  <2>5. Located'
    BY <1>7, <2>1 DEF DesignAsks, At, RaiseGate, Located, GatesOf, stateVars
  <2> QED
    BY <1>7, <2>4, <2>5 DEF DesignAsks, runFiles, artifacts, FilesTypeOK, ArtifactsTypeOK
<1>8. CASE DesignAgain
  <2>1. CallTypeOK' /\ StateTypeOK'
    BY <1>8, CommitTyped, ChosenTyped
    DEF DesignAgain, Commit, At, Stages, Choices, Absent, StateTypeOK
  <2>2. Located'
    BY <1>8, CommitLocated DEF DesignAgain, Commit, At, Stages
  <2>3. FilesTypeOK' /\ ArtifactsTypeOK'
    BY <1>8 DEF DesignAgain, WriteDesign, runFiles, StateTypeOK, FilesTypeOK, ArtifactsTypeOK
  <2> QED  BY <1>8, <2>1, <2>2, <2>3 DEF DesignAgain
<1>9. CASE Implement
  <2>1. CallTypeOK' /\ StateTypeOK'
    BY <1>9, CommitTyped
    DEF Implement, Commit, At, Stages, Choices, Absent, StateTypeOK
  <2>2. Located'
    BY <1>9, CommitLocated DEF Implement, Commit, At, Stages
  <2>3. FilesTypeOK' /\ ArtifactsTypeOK'
    BY <1>9 DEF Implement, runFiles, StateTypeOK, FilesTypeOK, ArtifactsTypeOK
  <2> QED  BY <1>9, <2>1, <2>2, <2>3 DEF Implement
<1>10. CASE Extract
  <2>1. CallTypeOK' /\ StateTypeOK'
    BY <1>10, CommitTyped
    DEF Extract, Commit, At, Stages, Choices, Absent, StateTypeOK
  <2>2. Located'
    BY <1>10, CommitLocated DEF Extract, Commit, At, Stages
  <2>3. FilesTypeOK' /\ ArtifactsTypeOK'
    BY <1>10 DEF Extract, runFiles, artifacts, StateTypeOK, FilesTypeOK, ArtifactsTypeOK
  <2> QED  BY <1>10, <2>1, <2>2, <2>3 DEF Extract
<1>11. CASE TestFails
  <2>1. CallTypeOK' /\ StateTypeOK'
    BY <1>11, CommitTyped
    DEF TestFails, Commit, At, Stages, Choices, Absent, StateTypeOK
  <2>2. Located'
    BY <1>11, CommitLocated DEF TestFails, Commit, At, Stages
  <2>3. FilesTypeOK' /\ ArtifactsTypeOK'
    BY <1>11 DEF TestFails, runFiles, artifacts, StateTypeOK, FilesTypeOK, ArtifactsTypeOK
  <2> QED  BY <1>11, <2>1, <2>2, <2>3 DEF TestFails
<1>12. CASE TestPasses
  <2>1. CallTypeOK' /\ StateTypeOK'
    BY <1>12, CommitTyped
    DEF TestPasses, Commit, At, Stages, Choices, Absent, StateTypeOK
  <2>2. Located'
    BY <1>12, CommitLocated DEF TestPasses, Commit, At, Stages
  <2>3. FilesTypeOK' /\ ArtifactsTypeOK'
    BY <1>12 DEF TestPasses, RunChecks, artifacts, Runs, StateTypeOK, FilesTypeOK, ArtifactsTypeOK
  <2> QED  BY <1>12, <2>1, <2>2, <2>3 DEF TestPasses
<1>13. CASE TestAsks
  <2>1. exc' \in GateRecord
    BY <1>13 DEF TestAsks, RaiseGate, GateRecord, Gates, Choices
  <2>2. CallTypeOK' /\ StateTypeOK'
    BY <1>13, <2>1 DEF TestAsks, RaiseGate, CallTypeOK, StateTypeOK, stateVars
  <2>3. Located'
    BY <1>13 DEF TestAsks, At, RaiseGate, Located, GatesOf, stateVars
  <2>4. FilesTypeOK' /\ ArtifactsTypeOK'
    BY <1>13 DEF TestAsks, RunChecks, artifacts, Runs, FilesTypeOK, ArtifactsTypeOK
  <2> QED  BY <1>13, <2>2, <2>3, <2>4 DEF TestAsks
<1>14. CASE TestAborted
  <2>1. CallTypeOK' /\ StateTypeOK'
    BY <1>14, CommitTyped, ChosenTyped
    DEF TestAborted, Commit, At, Stages, Choices, Absent, StateTypeOK
  <2>2. Located'
    BY <1>14, CommitLocated DEF TestAborted, Commit, At, Stages
  <2>3. FilesTypeOK' /\ ArtifactsTypeOK'
    BY <1>14 DEF TestAborted, runFiles, artifacts, StateTypeOK, FilesTypeOK, ArtifactsTypeOK
  <2> QED  BY <1>14, <2>1, <2>2, <2>3 DEF TestAborted
<1>15. CASE TestAgain
  <2>1. CallTypeOK' /\ StateTypeOK'
    BY <1>15, CommitTyped, ChosenTyped
    DEF TestAgain, Commit, At, Stages, Choices, Absent, StateTypeOK
  <2>2. Located'
    BY <1>15, CommitLocated DEF TestAgain, Commit, At, Stages
  <2>3. FilesTypeOK' /\ ArtifactsTypeOK'
    <3>1. PICK verdict \in {"pass", "fail"} : RunChecks(verdict)
      BY <1>15 DEF TestAgain
    <3> QED
      BY <1>15, <3>1 DEF TestAgain, RunChecks, artifacts, FilesTypeOK, ArtifactsTypeOK
  <2> QED  BY <1>15, <2>1, <2>2, <2>3 DEF TestAgain
<1>16. CASE VerifyFails
  <2>1. CallTypeOK' /\ StateTypeOK'
    BY <1>16, CommitTyped
    DEF VerifyFails, Commit, At, Stages, Choices, Absent, StateTypeOK
  <2>2. Located'
    BY <1>16, CommitLocated DEF VerifyFails, Commit, At, Stages
  <2>3. FilesTypeOK' /\ ArtifactsTypeOK'
    BY <1>16 DEF VerifyFails, runFiles, artifacts, StateTypeOK, FilesTypeOK, ArtifactsTypeOK
  <2> QED  BY <1>16, <2>1, <2>2, <2>3 DEF VerifyFails
<1>17. CASE VerifyByRule
  <2>1. CallTypeOK' /\ StateTypeOK'
    BY <1>17, CommitTyped
    DEF VerifyByRule, Commit, At, Stages, Choices, Absent, StateTypeOK
  <2>2. Located'
    BY <1>17, CommitLocated DEF VerifyByRule, Commit, At, Stages
  <2>3. FilesTypeOK' /\ ArtifactsTypeOK'
    BY <1>17 DEF VerifyByRule, runFiles, StateTypeOK, FilesTypeOK, ArtifactsTypeOK
  <2> QED  BY <1>17, <2>1, <2>2, <2>3 DEF VerifyByRule
<1>18. CASE VerifyByLLM
  <2>1. PICK rejected \in BOOLEAN, kind \in {"no", "nonce", "wording"}, suspicious \in BOOLEAN :
          /\ verdictCache' = [run |-> runId, rejected |-> rejected, suspect |-> kind]
          /\ verification' = [run |-> runId, rejected |-> rejected]
          /\ \/ RaiseGate("prompt_injection_review", <<"accept_verdict", "reject_and_halt">>)
             \/ RaiseGate("verification_review", <<"accept", "reject">>)
             \/ Commit("verify", "passed", Absent)
    BY <1>18 DEF VerifyByLLM
  <2>2. ArtifactsTypeOK'
    BY <1>18, <2>1 DEF VerifyByLLM, ArtifactsTypeOK, StateTypeOK
  <2>3. FilesTypeOK'
    BY <1>18 DEF VerifyByLLM, runFiles, FilesTypeOK
  <2>4. CASE Commit("verify", "passed", Absent)
    <3>1. CallTypeOK' /\ StateTypeOK'
      BY <2>4, CommitTyped DEF Commit, Stages, StateTypeOK
    <3>2. Located'
      BY <1>18, <2>4, CommitLocated DEF VerifyByLLM, At, Commit, Stages
    <3> QED  BY <1>18, <2>2, <2>3, <3>1, <3>2 DEF VerifyByLLM
  <2>5. CASE RaiseGate("prompt_injection_review", <<"accept_verdict", "reject_and_halt">>)
    <3>1. exc' \in GateRecord
      BY <2>5 DEF RaiseGate, GateRecord, Gates, Choices
    <3>2. CallTypeOK' /\ StateTypeOK'
      BY <2>5, <3>1 DEF RaiseGate, CallTypeOK, StateTypeOK, stateVars
    <3>3. Located'
      BY <1>18, <2>5 DEF VerifyByLLM, At, RaiseGate, Located, GatesOf, stateVars
    <3> QED  BY <1>18, <2>2, <2>3, <3>2, <3>3 DEF VerifyByLLM
  <2>6. CASE RaiseGate("verification_review", <<"accept", "reject">>)
    <3>1. exc' \in GateRecord
      BY <2>6 DEF RaiseGate, GateRecord, Gates, Choices
    <3>2. CallTypeOK' /\ StateTypeOK'
      BY <2>6, <3>1 DEF RaiseGate, CallTypeOK, StateTypeOK, stateVars
    <3>3. Located'
      BY <1>18, <2>6 DEF VerifyByLLM, At, RaiseGate, Located, GatesOf, stateVars
    <3> QED  BY <1>18, <2>2, <2>3, <3>2, <3>3 DEF VerifyByLLM
  <2> QED  BY <2>1, <2>4, <2>5, <2>6
<1>19. CASE VerifyDecided
  <2>1. CallTypeOK' /\ StateTypeOK'
    BY <1>19, CommitTyped, ChosenTyped
    DEF VerifyDecided, Commit, At, Stages, Choices, Absent, StateTypeOK
  <2>2. Located'
    BY <1>19, CommitLocated DEF VerifyDecided, Commit, At, Stages
  <2>3. FilesTypeOK' /\ ArtifactsTypeOK'
    BY <1>19 DEF VerifyDecided, runFiles, artifacts, StateTypeOK, FilesTypeOK, ArtifactsTypeOK
  <2> QED  BY <1>19, <2>1, <2>2, <2>3 DEF VerifyDecided
<1>20. CASE Complete
  BY <1>20
  DEF Complete, At, runFiles, artifacts, CallTypeOK, StateTypeOK, FilesTypeOK, ArtifactsTypeOK,
      Located, Stages
<1>21. CASE GateSkip
  <2>1. CallTypeOK' /\ StateTypeOK'
    BY <1>21, CommitTyped
    DEF GateSkip, Commit, At, AtGate, Located, Stages, Choices, Absent, StateTypeOK
  <2>2. Located'
    BY <1>21, CommitLocated DEF GateSkip, Commit, At, AtGate, Located, Stages
  <2>3. FilesTypeOK' /\ ArtifactsTypeOK'
    BY <1>21 DEF GateSkip, runFiles, artifacts, StateTypeOK, FilesTypeOK, ArtifactsTypeOK
  <2> QED  BY <1>21, <2>1, <2>2, <2>3 DEF GateSkip
<1>22. CASE GateAuto
  <2>1. PICK choice : SaveDecision(choice) \/ RefuseDecision(choice)
    BY <1>22 DEF GateAuto
  <2>2. pendingGate' \in [Runs -> GateRecord]
    BY <1>22, BlankTyped DEF GateAuto, FilesTypeOK
  <2>3. CASE SaveDecision(choice)
    <3>1. choice \in Choices
      BY <2>3 DEF SaveDecision, Allowed, CallTypeOK, GateRecord
    <3>2. decisionFile' \in [Runs -> ChoiceRecord]
      BY <2>3, <3>1 DEF SaveDecision, FilesTypeOK, ChoiceRecord
    <3>3. CallTypeOK' /\ StateTypeOK'
      BY <2>3 DEF SaveDecision, CallTypeOK, StateTypeOK, stateVars
    <3>4. Located'
      BY <1>22, <2>3 DEF GateAuto, AtGate, SaveDecision, Located, stateVars
    <3> QED
      BY <1>22, <2>2, <3>2, <3>3, <3>4 DEF GateAuto, artifacts, FilesTypeOK, ArtifactsTypeOK
  <2>4. CASE RefuseDecision(choice)
    <3>1. CallTypeOK' /\ StateTypeOK' /\ Located'
      BY <2>4 DEF RefuseDecision, Crash, CallTypeOK, StateTypeOK, Located, stateVars
    <3> QED
      BY <1>22, <2>2, <2>4, <3>1
      DEF GateAuto, RefuseDecision, artifacts, FilesTypeOK, ArtifactsTypeOK
  <2> QED  BY <2>1, <2>3, <2>4
<1>23. CASE GatePause
  <2>1. StateTypeOK' /\ ArtifactsTypeOK'
    BY <1>23 DEF GatePause, stateVars, artifacts, StateTypeOK, ArtifactsTypeOK
  <2>2. CallTypeOK' /\ Located'
    BY <1>23 DEF GatePause, AtGate, stateVars, CallTypeOK, Located
  <2>3. FilesTypeOK'
    <3>1. pendingGate' \in [Runs -> GateRecord]
      BY <1>23, BlankTyped DEF GatePause, WritePendingGate, Shown, FilesTypeOK, CallTypeOK
    <3>2. lost' \in [Runs -> SUBSET {"gate", "status"}]
      BY <1>23, LostTyped DEF GatePause, WritePendingGate
    <3> QED  BY <1>23, <3>1, <3>2 DEF GatePause, FilesTypeOK
  <2> QED  BY <1>23, <2>1, <2>2, <2>3 DEF GatePause
<1>24. CASE GateResume
  <2>1. PICK choice : SaveDecision(choice) \/ RefuseDecision(choice)
    BY <1>24 DEF GateResume
  <2>2. /\ pendingGate' \in [Runs -> GateRecord]
        /\ lost' \in [Runs -> SUBSET {"gate", "status"}]
    BY <1>24, BlankTyped, LostTyped
    DEF GateResume, ClearPendingGate, Shown, FilesTypeOK, CallTypeOK
  <2>3. CASE SaveDecision(choice)
    <3>1. choice \in Choices
      BY <2>3 DEF SaveDecision, Allowed, CallTypeOK, GateRecord
    <3>2. decisionFile' \in [Runs -> ChoiceRecord]
      BY <2>3, <3>1 DEF SaveDecision, FilesTypeOK, ChoiceRecord
    <3>3. CallTypeOK' /\ StateTypeOK'
      BY <2>3 DEF SaveDecision, CallTypeOK, StateTypeOK, stateVars
    <3>4. Located'
      BY <1>24, <2>3 DEF GateResume, AtGate, SaveDecision, Located, stateVars
    <3> QED
      BY <1>24, <2>2, <3>2, <3>3, <3>4 DEF GateResume, artifacts, FilesTypeOK, ArtifactsTypeOK
  <2>4. CASE RefuseDecision(choice)
    <3>1. CallTypeOK' /\ StateTypeOK' /\ Located'
      BY <2>4 DEF RefuseDecision, Crash, CallTypeOK, StateTypeOK, Located, stateVars
    <3> QED
      BY <1>24, <2>2, <2>4, <3>1
      DEF GateResume, RefuseDecision, artifacts, FilesTypeOK, ArtifactsTypeOK
  <2> QED  BY <2>1, <2>3, <2>4
<1>25. CASE TaskAgainCrashes
  BY <1>25
  DEF TaskAgainCrashes, Crash, stateVars, runFiles, artifacts, CallTypeOK, StateTypeOK, FilesTypeOK,
      ArtifactsTypeOK, Located
<1>26. CASE Return
  <2>1. RunStatus \in {"paused", "failed", "complete"}
    BY DEF RunStatus
  <2>2. /\ status' \in [Runs -> {Absent, "paused", "failed", "complete"}]
        /\ lost' \in [Runs -> SUBSET {"gate", "status"}]
    BY <1>26, <2>1, LostTyped DEF Return, WriteRunStatus, FilesTypeOK
  <2>3. CallTypeOK' /\ StateTypeOK' /\ Located'
    BY <1>26 DEF Return, CallTypeOK, StateTypeOK, Located, stateVars
  <2> QED
    BY <1>26, <2>2, <2>3 DEF Return, artifacts, FilesTypeOK, ArtifactsTypeOK
<1>27. CASE Kill
  BY <1>27
  DEF Kill, Crash, stateVars, runFiles, artifacts, CallTypeOK, StateTypeOK, FilesTypeOK,
      ArtifactsTypeOK, Located
<1>28. ASSUME NEW sameThread \in BOOLEAN, Launch(sameThread) PROVE TInv'
  <2>1. CallTypeOK'
    BY <1>28, BlankTyped DEF Launch, CallTypeOK, Stages
  <2>2. StateTypeOK'
    <3>1. error' \in BOOLEAN
      BY <1>28 DEF Launch
    <3>2. runId' \in 0 .. MaxRuns /\ retryCount' \in Nat
      BY <1>28, PipelineAssumption DEF Launch, StateTypeOK
    <3> QED  BY <1>28, <3>1, <3>2, BlankTyped DEF Launch, StateTypeOK
  <2>3. Located'
    BY <1>28 DEF Launch, Located
  <2> QED
    BY <1>28, <2>1, <2>2, <2>3 DEF Launch, runFiles, artifacts, FilesTypeOK, ArtifactsTypeOK
<1>29. ASSUME NEW by \in {"api", "dashboard"}, NEW asked \in GateRecord, proc # "running",
             node # "END", Resume(by, asked)
      PROVE  TInv'
  <2>1. PICK choice \in (IF Answers(asked) = {} THEN {Absent} ELSE Answers(asked)) :
          resume' = [gate |-> asked.gate, choice |-> choice]
    BY <1>29 DEF Resume
  <2>2. choice \in Choices \cup {Absent}
    BY <2>1 DEF Answers, GateRecord
  <2>3. resume' \in AnswerRecord
    BY <2>1, <2>2 DEF AnswerRecord, GateRecord
  <2>4. CallTypeOK' /\ StateTypeOK' /\ Located'
    BY <1>29, <2>3 DEF Resume, CallTypeOK, StateTypeOK, Located, stateVars
  <2> QED
    BY <1>29, <2>4 DEF Resume, runFiles, artifacts, FilesTypeOK, ArtifactsTypeOK
<1>30. CASE ApiResume
  BY <1>30, <1>29 DEF ApiResume, Located, CallTypeOK
<1>31. CASE DashboardResume
  <2>1. pendingGate[runId] \in GateRecord
    BY <1>31 DEF DashboardResume, FormShown, StateTypeOK, FilesTypeOK, Runs
  <2> QED  BY <1>31, <2>1, <1>29 DEF DashboardResume
<1>32. CASE UNCHANGED vars
  BY <1>32
  DEF vars, callVars, stateVars, runFiles, artifacts, CallTypeOK, StateTypeOK, FilesTypeOK,
      ArtifactsTypeOK, Located
<1> QED
  BY <1>1, <1>2, <1>3, <1>4, <1>5, <1>6, <1>7, <1>8, <1>9, <1>10, <1>11, <1>12, <1>13, <1>14,
     <1>15, <1>16, <1>17, <1>18, <1>19, <1>20, <1>21, <1>22, <1>23, <1>24, <1>25, <1>26, <1>27,
     <1>28, <1>30, <1>31, <1>32
  DEF Next, Step, InitNode, DesignNode, TestNode, VerifyNode, Gate

-----------------------------------------------------------------------------
(***************************************************************************)
(* The inductive invariant.                                                *)
(***************************************************************************)
LEMMA Positions ==
    /\ Position["init"] = 1 /\ Position["bootstrap"] = 2 /\ Position["design"] = 3
    /\ Position["implement"] = 4 /\ Position["extract"] = 5 /\ Position["test"] = 6
    /\ Position["verify"] = 7 /\ Position["complete"] = 8 /\ Position["END"] = 9
BY DEF Position, Stages

LEMMA PositionAfter ==
    \A s \in Stages, q \in Stages :
        Position[q] < Position[After[s]] <=> q = s \/ Position[q] < Position[s]
BY Positions, AfterTyped DEF Stages

\* A node that returns keeps the invariant, provided it does not pass over an
\* answer that refuses the build.
LEMMA CommitKeeps ==
    ASSUME IInv, NEW s \in Stages, NEW r \in {"passed", "failed", "skipped"}, NEW c,
           CommitRetry(s, r, c, retryCount), node = s, proc = "running",
           UNCHANGED <<runs, decisionFile, status>>,
           s = "init" => r = "failed", r = "skipped" => s = "design",
           r # "failed" /\ s = "test" => ~Aborted, r # "failed" /\ s = "verify" => ~Rejected
    PROVE  Rest'
<1>1. /\ results' = [results EXCEPT ![s] = r] /\ results' \in [Stages -> Outcomes]
      /\ error' = (error \/ r = "failed")
      /\ r = "failed" => node' = "END" /\ phase' = "return"
      /\ r # "failed" => node' = After[s] /\ phase' = "enter"
      /\ stage' = s /\ retryCount' = retryCount
      /\ UNCHANGED <<proc, host, runId>>
  BY CommitMoves DEF IInv, TInv
<1>2. s # "complete" /\ s # "END" /\ After[s] # "END" /\ After[s] # "init"
  BY AfterTyped DEF Stages
<1>3. results \in [Stages -> Outcomes] /\ results'[s] = r
  BY <1>1 DEF IInv, TInv, TypeOK, StateTypeOK
<1>4. \A q \in Stages : q # s => results'[q] = results[q]
  BY <1>1, <1>3
<1>5. ~error
  BY <1>2 DEF IInv, Rest, Progress
<1>6. Fresh' /\ NoRetry'
  BY <1>1 DEF IInv, Rest, Fresh, NoRetry
<1>7. Gated'
  BY <1>1 DEF Gated
<1>8. Progress'
  <2>1. CASE r = "failed"
    BY <2>1, <1>1, <1>2 DEF Progress
  <2>2. CASE r # "failed"
    <3>1. node' = After[s] /\ ~error' /\ stage' # "complete"
      BY <2>2, <1>1, <1>2, <1>5
    <3>2. ASSUME NEW q \in Stages
          PROVE  IF Position[q] < Position[node'] THEN IsPassed(q)' ELSE results'[q] = Absent
      <4>1. Position[q] < Position[node'] <=> q = s \/ Position[q] < Position[s]
        BY <3>1, PositionAfter
      <4>2. IF Position[q] < Position[s] THEN IsPassed(q) ELSE results[q] = Absent
        BY <1>2 DEF IInv, Rest, Progress
      <4> QED
        BY <4>1, <4>2, <2>2, <1>3, <1>4 DEF IsPassed
    <3>3. s # "init" /\ node' \notin {"init", "bootstrap"}
      BY <3>1, <2>2, AfterTyped DEF Stages
    <3> QED  BY <3>1, <3>2, <3>3, <1>1 DEF Progress
  <2> QED  BY <2>1, <2>2
<1>9. Answered'
  <2>1. Aborted' = Aborted /\ Rejected' = Rejected
    BY <1>1 DEF Aborted, Rejected, Recorded
  <2> QED
    BY <2>1, <1>1, <1>2, AfterTyped DEF IInv, Rest, Answered
<1>10. Reported'
  <2>1. error' <=> \E q \in Stages : results'[q] = "failed"
    BY <1>1, <1>3, <1>4, <1>5 DEF IInv, Rest, Reported
  <2>2. node' = "END" => error'
    BY <1>1, <1>2
  <2> QED
    BY <2>1, <2>2, <1>1, <1>2 DEF Reported
<1> QED
  BY <1>6, <1>7, <1>8, <1>9, <1>10 DEF Rest

\* A step that moves no stage and records no answer keeps most of it.
LEMMA StillKeeps ==
    ASSUME IInv, UNCHANGED <<node, stateVars, decisionFile>>, runs' \in Nat, runs' >= runs,
           Gated',
           phase' = "return" \/ proc' = "returned" => node = "END",
           proc' = "returned" /\ host' = "runner" /\ runId # 0 /\ "status" \notin lost'[runId]
               => status'[runId] = IF error THEN "failed" ELSE "complete"
    PROVE  Rest'
<1>1. /\ node' = node /\ runId' = runId /\ results' = results /\ stage' = stage
      /\ error' = error /\ retryCount' = retryCount /\ decisionFile' = decisionFile
  BY DEF stateVars
<1>2. runs \in Nat /\ runId \in Nat
  BY PipelineAssumption DEF IInv, TInv, TypeOK, StateTypeOK, FilesTypeOK
<1>3. Fresh'
  BY <1>1, <1>2 DEF IInv, Rest, Fresh, Runs
<1>4. Progress' /\ NoRetry'
  BY <1>1 DEF IInv, Rest, Progress, IsPassed, NoRetry
<1>5. Answered'
  BY <1>1 DEF IInv, Rest, Answered, Aborted, Rejected, Recorded
<1>6. Reported'
  BY <1>1 DEF IInv, Rest, Reported
<1> QED
  BY <1>3, <1>4, <1>5, <1>6 DEF Rest

LEMMA CrashKeeps ==
    ASSUME IInv, Crash, UNCHANGED decisionFile, runs' \in Nat, runs' >= runs
    PROVE  Rest'
<1>1. Gated'
  BY DEF IInv, Rest, Gated, Crash, Rejected, Recorded, stateVars
<1>2. phase' = "return" => node = "END"
  BY DEF Crash, IInv, Rest, Reported
<1> QED
  BY <1>1, <1>2, StillKeeps DEF Crash

\* An answer is recorded only at its own stage.
LEMMA SaveKeeps ==
    ASSUME IInv, AtGate, NEW choice, SaveDecision(choice), UNCHANGED runs
    PROVE  Rest'
<1>1. /\ node' = node /\ runId' = runId /\ results' = results /\ stage' = stage
      /\ error' = error /\ retryCount' = retryCount /\ exc' = exc /\ proc' = "running"
      /\ phase' = "act"
      /\ decisionFile' = [decisionFile EXCEPT ![runId][exc.gate] = choice]
  BY DEF SaveDecision, AtGate, stateVars
<1>2. /\ node \in {"design", "test", "verify"} /\ exc.gate \in GatesOf[node]
      /\ runId \in Runs /\ runId <= runs
  BY DEF AtGate, IInv, TInv, TypeOK, StateTypeOK, Located, Rest, Fresh, Runs
<1>3. decisionFile \in [Runs -> ChoiceRecord]
  BY DEF IInv, TInv, TypeOK, FilesTypeOK
<1>4. \A g \in Gates : g # exc.gate => Recorded(g)' = Recorded(g)
  BY <1>1, <1>2, <1>3 DEF Recorded, ChoiceRecord
<1>5. Fresh'
  <2>1. ASSUME NEW r \in Runs, r > runs' PROVE decisionFile'[r] = NoChoices
    <3>1. r > runs
      BY <2>1 DEF SaveDecision
    <3>2. r # runId
      BY <3>1, <1>2, PipelineAssumption DEF Runs, IInv, TInv, TypeOK, FilesTypeOK
    <3> QED
      BY <3>1, <3>2, <1>1, <1>3 DEF IInv, Rest, Fresh
  <2> QED
    BY <2>1, <1>1, <1>2 DEF Fresh
<1>6. Gated'
  BY <1>1, <1>4 DEF IInv, Rest, Gated, AtGate, Rejected, Gates
<1>7. Progress' /\ NoRetry'
  BY <1>1 DEF IInv, Rest, Progress, IsPassed, NoRetry
<1>8. Answered'
  <2>1. stage # "complete"
    BY <1>2 DEF IInv, Rest, Progress
  <2>2. node # "test" => Aborted' = Aborted
    BY <1>2, <1>4 DEF GatesOf, Gates, Aborted
  <2>3. node # "verify" => Rejected' = Rejected
    BY <1>2, <1>4 DEF GatesOf, Gates, Rejected
  <2> QED
    BY <2>1, <2>2, <2>3, <1>1 DEF IInv, Rest, Answered
<1>9. Reported'
  BY <1>1 DEF IInv, Rest, Reported
<1> QED
  BY <1>5, <1>6, <1>7, <1>8, <1>9 DEF Rest

LEMMA InvInit == Init => IInv
<1> SUFFICES ASSUME Init PROVE IInv
  OBVIOUS
<1>1. TInv
  BY TypeInit
<1>2. Fresh /\ Gated /\ NoRetry
  BY DEF Init, Fresh, Gated, NoRetry, Runs, NoGate, Absent
<1>3. \A s \in Stages : Position[s] >= Position["init"] /\ results[s] = Absent
  BY Positions DEF Init, Blank, Stages
<1>4. Progress
  BY <1>3, Positions DEF Init, Progress, Stages
<1>5. Answered /\ Reported
  BY <1>3 DEF Init, Answered, Reported, Absent
<1> QED
  BY <1>1, <1>2, <1>4, <1>5 DEF IInv, Rest

LEMMA InvStep == IInv /\ [Next]_vars => IInv'
<1> SUFFICES ASSUME IInv, [Next]_vars PROVE IInv'
  OBVIOUS
<1>t. TInv'
  BY TypeStep DEF IInv
<1>r. runs \in Nat /\ runId \in Nat
  BY PipelineAssumption DEF IInv, TInv, TypeOK, StateTypeOK, FilesTypeOK
<1> SUFFICES Rest'
  BY <1>t DEF IInv
<1>1. CASE InitMissingIntake
  BY <1>1, CommitKeeps
  DEF InitMissingIntake, At, Commit, Stages, runFiles
<1>2. CASE InitOk
  <2>1. /\ runs' = runs + 1 /\ runId' = runs + 1 /\ runs + 1 \in Runs
        /\ node' = "bootstrap" /\ stage' = "init" /\ error' = FALSE /\ retryCount' = 0
        /\ phase' = "enter" /\ proc' = "running" /\ decisionFile' = decisionFile
        /\ results' = [Blank EXCEPT !["init"] = "passed"]
    BY <1>2, <1>r, PipelineAssumption DEF InitOk, At, Runs
  <2>2. decisionFile'[runId'] = NoChoices
    BY <2>1, <1>r DEF IInv, Rest, Fresh
  <2>3. ~Aborted' /\ ~Rejected'
    BY <2>2 DEF Aborted, Rejected, Recorded, NoChoices, Gates, Absent
  <2>4. \A s \in Stages : results'[s] = IF s = "init" THEN "passed" ELSE Absent
    BY <2>1 DEF Blank
  <2>5. Fresh' /\ Gated' /\ NoRetry'
    BY <2>1, <1>r DEF IInv, Rest, Fresh, Gated, NoRetry, Runs
  <2>6. \A s \in Stages : Position[s] < Position["bootstrap"] <=> s = "init"
    BY Positions DEF Stages
  <2>7. Progress'
    BY <2>1, <2>4, <2>6 DEF Progress, IsPassed
  <2>8. Answered' /\ Reported'
    BY <2>1, <2>3, <2>4 DEF Answered, Reported, Absent
  <2> QED  BY <2>5, <2>7, <2>8 DEF Rest
<1>3. CASE InitCrash
  BY <1>3, <1>r, CrashKeeps DEF InitCrash
<1>4. CASE Bootstrap
  BY <1>4, CommitKeeps
  DEF Bootstrap, At, Commit, Stages, runFiles
<1>5. CASE DesignFails
  BY <1>5, CommitKeeps
  DEF DesignFails, At, Commit, Stages, runFiles
<1>6. CASE DesignPasses
  BY <1>6, CommitKeeps
  DEF DesignPasses, At, Commit, Stages, runFiles
<1>7. CASE DesignAsks
  <2>1. PICK options \in OptionLists : RaiseGate("architecture_choice_needed", options)
    BY <1>7 DEF DesignAsks
  <2>2. /\ phase' = "gate" /\ proc' = "running" /\ UNCHANGED <<node, stateVars, decisionFile, runs>>
        /\ Recorded(exc'.gate) = Absent
    BY <1>7, <2>1 DEF DesignAsks, At, RaiseGate, RunChecks, runFiles
  <2>3. exc'.gate # "prompt_injection_review"
    BY <2>1 DEF RaiseGate
  <2>4. Gated'
    BY <2>2, <2>3 DEF Gated, Recorded, stateVars
  <2> QED
    BY <2>2, <2>4, <1>r, StillKeeps
<1>8. CASE DesignAgain
  BY <1>8, CommitKeeps
  DEF DesignAgain, At, Commit, Stages, runFiles
<1>9. CASE Implement
  <2>1. results["implement"] = Absent
    BY <1>9, Positions DEF Implement, At, IInv, Rest, Progress, Stages
  <2>2. PICK r \in {"passed", "failed"} : CommitRetry("implement", r, Absent, retryCount)
    BY <1>9, <2>1 DEF Implement
  <2> QED
    BY <1>9, <2>2, CommitKeeps DEF Implement, At, Stages, runFiles
<1>10. CASE Extract
  BY <1>10, CommitKeeps
  DEF Extract, At, Commit, Stages, runFiles
<1>11. CASE TestFails
  BY <1>11, CommitKeeps
  DEF TestFails, At, Commit, Stages, runFiles
<1>12. CASE TestPasses
  BY <1>12, CommitKeeps
  DEF TestPasses, At, Commit, Stages, runFiles, Aborted, RunChecks
<1>13. CASE TestAsks
  <2>1. RaiseGate("test_failure_triage", <<"continue", "abort">>)
    BY <1>13 DEF TestAsks
  <2>2. /\ phase' = "gate" /\ proc' = "running" /\ UNCHANGED <<node, stateVars, decisionFile, runs>>
        /\ Recorded(exc'.gate) = Absent
    BY <1>13, <2>1 DEF TestAsks, At, RaiseGate, RunChecks, runFiles
  <2>3. exc'.gate # "prompt_injection_review"
    BY <2>1 DEF RaiseGate
  <2>4. Gated'
    BY <2>2, <2>3 DEF Gated, Recorded, stateVars
  <2> QED
    BY <2>2, <2>4, <1>r, StillKeeps
<1>14. CASE TestAborted
  BY <1>14, CommitKeeps
  DEF TestAborted, At, Commit, Stages, runFiles
<1>15. CASE TestAgain
  <2>1. exc.gate = "test_failure_triage"
    BY <1>15 DEF TestAgain, At, IInv, TInv, Located, GatesOf
  <2>2. ~Aborted
    BY <1>15, <2>1 DEF TestAgain, Chosen, Aborted
  <2> QED
    BY <1>15, <2>2, CommitKeeps DEF TestAgain, At, Commit, Stages, RunChecks
<1>16. CASE VerifyFails
  BY <1>16, CommitKeeps
  DEF VerifyFails, At, Commit, Stages, runFiles
<1>17. CASE VerifyByRule
  BY <1>17, CommitKeeps
  DEF VerifyByRule, At, Commit, Stages, runFiles, Rejected
<1>18. CASE VerifyByLLM
  <2>1. At("verify", "enter") /\ ~Rejected /\ UNCHANGED runFiles
    BY <1>18 DEF VerifyByLLM, Rejected
  <2>2. CASE Commit("verify", "passed", Absent)
    BY <2>1, <2>2, CommitKeeps DEF At, Commit, Stages, runFiles
  <2>3. ASSUME NEW g \in Gates, NEW options, RaiseGate(g, options), Recorded(g) = Absent
        PROVE  Rest'
    <3>1. /\ phase' = "gate" /\ proc' = "running" /\ exc'.gate = g
          /\ UNCHANGED <<node, stateVars, decisionFile, runs>>
      BY <2>1, <2>3 DEF At, RaiseGate, runFiles
    <3>2. Gated'
      BY <2>1, <2>3, <3>1 DEF Gated, Rejected, Recorded, stateVars
    <3> QED
      BY <3>1, <3>2, <1>r, StillKeeps
  <2> QED
    BY <1>18, <2>2, <2>3 DEF VerifyByLLM, Gates
<1>19. CASE VerifyDecided
  <2>1. exc.gate = "verification_review" => Chosen = Recorded("verification_review")
    BY DEF Chosen
  <2>2. exc.gate \in {"prompt_injection_review", "verification_review"}
    BY <1>19 DEF VerifyDecided, At, IInv, TInv, Located, GatesOf
  <2>3. Chosen # "reject" => ~Rejected
    BY <1>19, <2>1, <2>2 DEF VerifyDecided, At, Rejected, IInv, Rest, Gated
  <2> QED
    BY <1>19, <2>3, CommitKeeps DEF VerifyDecided, At, Commit, Stages, runFiles
<1>20. CASE Complete
  <2>1. /\ node = "complete" /\ node' = "END" /\ phase' = "return" /\ proc' = "running"
        /\ stage' = "complete" /\ error' = error /\ results' = results /\ runId' = runId
        /\ retryCount' = retryCount /\ decisionFile' = decisionFile /\ runs' = runs
    BY <1>20 DEF Complete, At, runFiles
  <2>2. ~error /\ runId # 0 /\ \A s \in Stages : IsPassed(s)
    <3>1. \A s \in Stages : Position[s] < Position["complete"]
      BY Positions DEF Stages
    <3> QED
      BY <2>1, <3>1 DEF IInv, TInv, Located, Rest, Progress
  <2>3. Fresh' /\ NoRetry' /\ Gated'
    BY <2>1 DEF IInv, Rest, Fresh, NoRetry, Gated
  <2>4. Progress'
    BY <2>1, <2>2 DEF Progress, IsPassed
  <2>5. Answered'
    BY <2>1 DEF IInv, Rest, Answered, Aborted, Rejected, Recorded
  <2>6. Reported'
    BY <2>1 DEF IInv, Rest, Reported
  <2> QED  BY <2>3, <2>4, <2>5, <2>6 DEF Rest
<1>21. CASE GateSkip
  <2>1. node \in {"design", "test", "verify"} /\ exc.gate \in GatesOf[node]
    BY <1>21 DEF GateSkip, AtGate, IInv, TInv, Located
  <2>2. node = "test" => ~Aborted
    BY <1>21, <2>1 DEF GateSkip, AtGate, GatesOf, IInv, Rest, Gated, Aborted, Absent
  <2>3. node = "verify" => ~Rejected
    BY <1>21, <2>1 DEF GateSkip, AtGate, GatesOf, IInv, Rest, Gated, Rejected, Absent
  <2> QED
    BY <1>21, <2>1, <2>2, <2>3, CommitKeeps DEF GateSkip, AtGate, Commit, Stages, runFiles
<1>22. CASE GateAuto
  BY <1>22, <1>r, SaveKeeps, CrashKeeps DEF GateAuto, RefuseDecision
<1>23. CASE GatePause
  <2>1. Gated'
    BY <1>23 DEF GatePause, AtGate, stateVars, IInv, Rest, Gated, Rejected, Recorded
  <2> QED
    BY <1>23, <2>1, <1>r, StillKeeps DEF GatePause, AtGate
<1>24. CASE GateResume
  BY <1>24, <1>r, SaveKeeps, CrashKeeps DEF GateResume, RefuseDecision
<1>25. CASE TaskAgainCrashes
  BY <1>25, <1>r, CrashKeeps DEF TaskAgainCrashes, runFiles
<1>26. CASE Return
  <2>1. /\ phase' \in {"enter", "return"} /\ host' = host
        /\ UNCHANGED <<node, stateVars, decisionFile, runs>>
        /\ proc' = "returned" \/ phase' = "return" => phase = "return"
    BY <1>26 DEF Return
  <2>2. Gated'
    BY <2>1 DEF Gated
  <2>3. phase = "return" => node = "END" /\ (error \/ stage = "complete")
    BY DEF IInv, Rest, Reported
  <2>4. proc' = "returned" /\ host = "runner" /\ runId # 0 /\ "status" \notin lost'[runId]
            => status'[runId] = IF error THEN "failed" ELSE "complete"
    <3>1. SUFFICES ASSUME proc' = "returned", host = "runner", runId # 0,
                          "status" \notin lost'[runId]
                   PROVE  status'[runId] = IF error THEN "failed" ELSE "complete"
      OBVIOUS
    <3>0. runId \in Runs /\ WriteRunStatus
      BY <1>26, <3>1 DEF Return, WritesStatus, IInv, TInv, TypeOK, StateTypeOK, Runs
    <3>2. status' = [status EXCEPT ![runId] = RunStatus] /\ runId \in Runs
      BY <3>0, <3>1 DEF WriteRunStatus, Lost, IInv, TInv, TypeOK, FilesTypeOK
    <3>3. RunStatus = IF error THEN "failed" ELSE "complete"
      BY <2>1, <2>3, <3>1 DEF RunStatus
    <3> QED
      BY <3>2, <3>3 DEF IInv, TInv, TypeOK, FilesTypeOK
  <2> QED
    BY <2>1, <2>2, <2>3, <2>4, <1>r, StillKeeps
<1>27. CASE Kill
  BY <1>27, <1>r, CrashKeeps DEF Kill, runFiles
<1>28. ASSUME NEW sameThread \in BOOLEAN, Launch(sameThread) PROVE Rest'
  <2>1. /\ proc' = "running" /\ node' = "init" /\ phase' = "enter" /\ results' = Blank
        /\ stage' = "init" /\ error' = FALSE /\ retryCount' = 0 /\ runId' \in {0, runId}
        /\ decisionFile' = decisionFile /\ runs' = runs
    BY <1>28 DEF Launch, runFiles
  <2>2. \A s \in Stages : results'[s] = Absent /\ ~(Position[s] < Position["init"])
    BY <2>1, Positions DEF Blank, Stages
  <2>3. Fresh' /\ Gated' /\ NoRetry'
    BY <2>1, <1>r DEF IInv, Rest, Fresh, Gated, NoRetry
  <2>4. Progress' /\ Answered'
    BY <2>1, <2>2 DEF Progress, Answered
  <2>5. Reported'
    BY <2>1, <2>2 DEF Reported, Absent
  <2> QED  BY <2>3, <2>4, <2>5 DEF Rest
<1>29. ASSUME NEW by, NEW asked, Resume(by, asked) PROVE Rest'
  <2>1. Gated' /\ phase' = "enter" /\ proc' = "running"
    BY <1>29 DEF Resume, Gated
  <2> QED
    BY <1>29, <2>1, <1>r, StillKeeps DEF Resume, runFiles
<1>30. CASE ApiResume
  BY <1>30, <1>29 DEF ApiResume
<1>31. CASE DashboardResume
  BY <1>31, <1>29 DEF DashboardResume
<1>32. CASE UNCHANGED vars
  <2>1. Gated'
    BY <1>32 DEF vars, callVars, stateVars, runFiles, IInv, Rest, Gated, Rejected, Recorded
  <2>2. phase' = "return" \/ proc' = "returned" => node = "END"
    BY <1>32 DEF vars, callVars, IInv, Rest, Reported
  <2>3. proc' = "returned" /\ host' = "runner" /\ runId # 0 /\ "status" \notin lost'[runId]
            => status'[runId] = IF error THEN "failed" ELSE "complete"
    BY <1>32 DEF vars, callVars, runFiles, IInv, Rest, Reported
  <2> QED
    BY <1>32, <2>1, <2>2, <2>3, <1>r, StillKeeps DEF vars, callVars, runFiles
<1> QED
  BY <1>1, <1>2, <1>3, <1>4, <1>5, <1>6, <1>7, <1>8, <1>9, <1>10, <1>11, <1>12, <1>13, <1>14,
     <1>15, <1>16, <1>17, <1>18, <1>19, <1>20, <1>21, <1>22, <1>23, <1>24, <1>25, <1>26, <1>27,
     <1>28, <1>30, <1>31, <1>32
  DEF Next, Step, InitNode, DesignNode, TestNode, VerifyNode, Gate

-----------------------------------------------------------------------------
(***************************************************************************)
(* The theorems.                                                           *)
(***************************************************************************)
LEMMA InvAlways == Spec => []IInv
<1>1. Init => IInv
  BY InvInit
<1>2. IInv /\ [Next]_vars => IInv'
  BY InvStep
<1> QED
  BY <1>1, <1>2, PTL DEF Spec

\* The variables keep their types under every configuration: only runs that exist
\* are written to, and status.json never holds a text the dashboard does not know.
THEOREM TypeCorrect == Spec => []TypeOK
<1>1. IInv => TypeOK
  BY DEF IInv, TInv
<1> QED
  BY <1>1, InvAlways, PTL

\* The graph reaches "complete" only when every stage of the run passed, no error
\* was reported and no recorded answer refuses the build, whatever was killed,
\* resumed or started over before.
THEOREM CompletionEarned == Spec => []CompletionIsEarned
<1>1. IInv => CompletionIsEarned
  BY DEF IInv, Rest, Progress, Answered, IsPassed, Aborted, Rejected, Refused, CompletionIsEarned
<1> QED
  BY <1>1, InvAlways, PTL

\* When run_pipeline has returned, a status.json whose last write did not fail tells a
\* completed build from a failed one, and never says that a finished run still waits.
THEOREM StatusTrue == Spec => []StatusIsTrue
<1>1. IInv => StatusIsTrue
  <2> SUFFICES ASSUME IInv, proc = "returned", host = "runner", runId # 0,
                      "status" \notin lost[runId]
               PROVE  /\ status[runId] = "complete" <=> stage = "complete"
                      /\ status[runId] = "failed" <=> \E s \in Stages : results[s] = "failed"
                      /\ status[runId] # "paused"
    BY DEF StatusIsTrue
  <2>1. status[runId] = IF error THEN "failed" ELSE "complete"
    BY DEF IInv, Rest, Reported
  <2>2. error <=> \E s \in Stages : results[s] = "failed"
    BY DEF IInv, Rest, Reported
  <2>3. ~error <=> stage = "complete"
    BY DEF IInv, Rest, Reported, Progress
  <2> QED
    BY <2>1, <2>2, <2>3
<1> QED
  BY <1>1, InvAlways, PTL

\* The retry edge of route_after_test is never taken, however large the budget:
\* a failed test result always comes with an error, which ends the build first.
THEOREM RetryEdgeIsDead == Spec => [](retryCount = 0)
<1>1. IInv => retryCount = 0
  BY DEF IInv, Rest, NoRetry
<1> QED
  BY <1>1, InvAlways, PTL

-----------------------------------------------------------------------------
(***************************************************************************)
(* Who was asked.  A second invariant, on top of the first: what an answer *)
(* on disk can be (Menu, Offered), what a stage left behind has on record  *)
(* (Settled), what the two files the dashboard polls say while a person is *)
(* waited for (Announced), and which gate an answer under way is for       *)
(* (Answering).                                                            *)
(***************************************************************************)
\* The gates with a fixed list of options, and what may be picked from it.
Offer == [test_failure_triage     |-> <<"continue", "abort">>,
          prompt_injection_review |-> <<"accept_verdict", "reject_and_halt">>,
          verification_review     |-> <<"accept", "reject">>]
Picks == [test_failure_triage     |-> {"continue", "abort"},
          prompt_injection_review |-> {"accept_verdict", "reject_and_halt"},
          verification_review     |-> {"accept", "reject"}]
Asked == {"test_failure_triage", "prompt_injection_review", "verification_review"}

Menu == \A r \in Runs, g \in Asked : decisionFile[r][g] \in Picks[g] \cup {Absent}

Offered ==
    (phase \in {"gate", "interrupted", "act"} \/ proc = "paused") /\ exc.gate \in Asked =>
        /\ exc.options = Offer[exc.gate]
        /\ phase = "act" => Recorded(exc.gate) # Absent

TestConsent ==
    cfg.policy["test"] = "pause" /\ evidence[runId] = "fail"
        => Recorded("test_failure_triage") = "continue"
VerifyConsent ==
    cfg.policy["verify"] = "pause" /\ CallsLLM /\ verification.rejected
        => \/ Recorded("verification_review") = "accept"
           \/ Recorded("prompt_injection_review") # Absent

\* A stage that is passed over has the answer its gate asked for.
Settled ==
    /\ node \in {"verify", "complete"} \/ stage = "complete" => TestConsent
    /\ node = "complete" \/ stage = "complete" => VerifyConsent

\* The gate shown, if its file could be written, is the one the waiting node raised.
GateShown ==
    /\ cfg.policy[node] = "pause"
    /\ "gate" \notin lost[runId] => pendingGate[runId] = exc

Announced ==
    /\ node \notin {"init", "END"} => runId = runs
    /\ phase = "interrupted" \/ proc = "paused" => GateShown
    /\ phase \in {"gate", "interrupted", "act"} \/ proc = "paused" => host # "dashboard"
    /\ proc = "paused" \/ host = "api" =>
          /\ node # "init" /\ runId # 0 /\ runId = runs
          /\ "status" \notin lost[runId] => status[runId] = "paused"

Answering ==
    resume # NoAnswer /\ host # "dashboard" =>
        /\ node \in {"design", "test", "verify"} /\ cfg.policy[node] = "pause"
        /\ resume.gate \in GatesOf[node]
        /\ resume.gate \in Asked => resume.choice \in Picks[resume.gate]

CInv == Menu /\ Offered /\ Settled /\ Announced /\ Answering

LEMMA Places ==
    ASSUME IInv
    PROVE  /\ runs \in Nat /\ runId \in Nat /\ runId <= runs
           /\ node \notin {"init", "END"} => runId \in Runs
           /\ node # "END" => stage # "complete"
           /\ phase \in {"gate", "interrupted", "act"} =>
                  /\ node \in {"design", "test", "verify"} /\ exc.gate \in GatesOf[node]
                  /\ exc.gate \in Gates
           /\ proc = "paused" => /\ node \in {"design", "test", "verify"}
                                 /\ exc.gate \in GatesOf[node] /\ exc.gate \in Gates
           /\ decisionFile \in [Runs -> ChoiceRecord] /\ pendingGate \in [Runs -> GateRecord]
           /\ DOMAIN status = Runs /\ DOMAIN evidence = Runs
           /\ lost \in [Runs -> SUBSET {"gate", "status"}]
<1>1. runs \in Nat /\ runId \in Nat /\ runId <= runs
  BY PipelineAssumption
  DEF IInv, TInv, TypeOK, StateTypeOK, FilesTypeOK, Rest, Fresh
<1>2. node \notin {"init", "END"} => runId \in Runs
  BY DEF IInv, TInv, TypeOK, StateTypeOK, Located, Runs
<1>3. node # "END" => stage # "complete"
  BY DEF IInv, Rest, Progress
<1>4. phase \in {"gate", "interrupted", "act"} =>
          /\ node \in {"design", "test", "verify"} /\ exc.gate \in GatesOf[node]
          /\ exc.gate \in Gates
  BY DEF IInv, TInv, Located, GatesOf, Gates
<1>5. proc = "paused" => /\ node \in {"design", "test", "verify"}
                         /\ exc.gate \in GatesOf[node] /\ exc.gate \in Gates
  BY DEF IInv, TInv, Located, GatesOf, Gates
<1>6. lost \in [Runs -> SUBSET {"gate", "status"}]
  BY DEF IInv, TInv, TypeOK, FilesTypeOK
<1> QED
  BY <1>1, <1>2, <1>3, <1>4, <1>5, <1>6 DEF IInv, TInv, TypeOK, FilesTypeOK, Located

\* The options of a gate are what may be picked at it.
LEMMA OffersArePicks ==
    ASSUME NEW g \in Asked, NEW c
    PROVE  (\E i \in DOMAIN Offer[g] : Offer[g][i] = c) <=> c \in Picks[g]
BY DEF Asked, Offer, Picks

LEMMA OffersAreNotEmpty ==
    ASSUME NEW g \in Asked
    PROVE  1 \in DOMAIN Offer[g] /\ Absent \notin Picks[g]
BY DEF Asked, Offer, Picks, Absent

\* A step that moves no stage, records no answer and writes no verdict.
LEMMA SettledStays ==
    ASSUME Settled, UNCHANGED <<cfg, node, stage, runId, decisionFile, evidence>>,
           verification' = verification \/ (node # "complete" /\ stage # "complete")
    PROVE  Settled'
<1>1. TestConsent' = TestConsent
  BY DEF TestConsent, Recorded
<1>2. verification' = verification => (VerifyConsent' = VerifyConsent)
  BY DEF VerifyConsent, CallsLLM, Recorded
<1> QED
  BY <1>1, <1>2 DEF Settled

\* A node that returns: past a gate only with the answer the gate asked for.
LEMMA CommitSettles ==
    ASSUME IInv, CInv, NEW s \in Stages, NEW r \in {"passed", "failed", "skipped"}, NEW c, NEW t,
           CommitRetry(s, r, c, t), node = s, proc = "running",
           s = "init" => r = "failed",
           UNCHANGED <<cfg, runs, decisionFile, pendingGate, status, lost>>,
           r # "failed" /\ s \in {"test", "verify"} => TestConsent',
           r # "failed" /\ s = "verify" => VerifyConsent'
    PROVE  CInv'
<1>1. /\ r = "failed" => node' = "END"
      /\ r # "failed" => node' = After[s]
      /\ stage' = s /\ UNCHANGED <<proc, host, runId>>
  BY CommitMoves DEF IInv, TInv
<1>2. phase' \in {"enter", "return"} /\ resume' = NoAnswer
  BY DEF CommitRetry
<1>3. s # "complete" /\ s # "END"
  BY DEF Stages
<1>4. Menu'
  BY DEF CInv, Menu
<1>5. Offered' /\ Answering'
  BY <1>1, <1>2 DEF Offered, Answering
<1>6. Settled'
  <2>1. CASE r = "failed"
    BY <2>1, <1>1, <1>3 DEF Settled
  <2>2. CASE r # "failed"
    <3>1. node' \in {"verify", "complete"} => s \in {"test", "verify"}
      BY <2>2, <1>1, AfterTyped DEF Stages
    <3>2. node' = "complete" => s = "verify"
      BY <2>2, <1>1, AfterTyped DEF Stages
    <3> QED  BY <2>2, <3>1, <3>2, <1>1, <1>3 DEF Settled
  <2> QED  BY <2>1, <2>2
<1>7. Announced'
  <2>1. node' # "init"
    BY <1>1, AfterTyped
  <2>2. node' # "END" => node \notin {"init", "END"}
    BY <1>1, <1>3
  <2>3. host = "api" => /\ runId # 0 /\ runId = runs
                        /\ "status" \notin lost[runId] => status[runId] = "paused"
    BY DEF CInv, Announced
  <2> QED
    BY <1>1, <1>2, <2>1, <2>2, <2>3 DEF CInv, Announced
<1> QED
  BY <1>4, <1>5, <1>6, <1>7 DEF CInv

\* A node that raises a gate.
LEMMA AskSettles ==
    ASSUME IInv, CInv, NEW n \in {"design", "test", "verify"}, NEW g \in GatesOf[n], NEW options,
           At(n, "enter"), host # "dashboard", RaiseGate(g, options),
           g \in Asked => options = Offer[g],
           n # "test" => UNCHANGED evidence,
           UNCHANGED <<cfg, runs, decisionFile, pendingGate, status, lost>>
    PROVE  CInv'
<1>1. /\ proc = "running" /\ node = n /\ phase' = "gate"
      /\ exc' = [gate |-> g, options |-> options]
      /\ UNCHANGED <<proc, host, node, resume, runId, stage>>
  BY DEF At, RaiseGate, stateVars
<1>2. stage # "complete"
  BY <1>1, Places
<1>3. Menu' /\ Offered'
  BY <1>1 DEF CInv, Menu, Offered
<1>4. Settled'
  <2>1. n # "test" => TestConsent' = TestConsent
    BY <1>1 DEF TestConsent, Recorded
  <2> QED
    BY <2>1, <1>1, <1>2 DEF CInv, Settled
<1>5. Announced'
  BY <1>1 DEF CInv, Announced
<1>6. Answering'
  BY <1>1 DEF CInv, Answering
<1> QED
  BY <1>3, <1>4, <1>5, <1>6 DEF CInv

\* The invocation dies.
LEMMA CrashSettles ==
    ASSUME IInv, CInv, Crash,
           UNCHANGED <<cfg, decisionFile, status, evidence, verification>>,
           phase = "interrupted" => UNCHANGED <<pendingGate, lost>>,
           "status" \in lost'[runId] <=> "status" \in lost[runId],
           runs' = runs \/ node = "init"
    PROVE  CInv'
<1>1. proc' = "crashed" /\ UNCHANGED <<host, node, phase, exc, resume, runId, stage>>
  BY DEF Crash, stateVars
<1>2. Menu' /\ Offered'
  BY <1>1 DEF CInv, Menu, Offered, Recorded
<1>3. Settled'
  BY <1>1, SettledStays DEF CInv
<1>4. Announced'
  BY <1>1 DEF CInv, Announced, GateShown
<1>5. Answering'
  BY <1>1 DEF CInv, Answering
<1> QED
  BY <1>2, <1>3, <1>4, <1>5 DEF CInv

\* An answer is recorded: one of the options, under the gate that is handled.
LEMMA SaveSettles ==
    ASSUME IInv, CInv, AtGate, NEW choice, SaveDecision(choice),
           "status" \in lost'[runId] <=> "status" \in lost[runId],
           UNCHANGED <<cfg, runs, status, evidence, verification>>
    PROVE  CInv'
<1>1. /\ proc' = "running" /\ phase = "gate" /\ phase' = "act"
      /\ UNCHANGED <<host, node, exc, resume, runId, stage>>
      /\ decisionFile' = [decisionFile EXCEPT ![runId][exc.gate] = choice]
  BY DEF SaveDecision, AtGate, stateVars
<1>2. /\ node \in {"design", "test", "verify"} /\ exc.gate \in GatesOf[node]
      /\ exc.gate \in Gates /\ runId \in Runs /\ stage # "complete"
      /\ decisionFile \in [Runs -> ChoiceRecord]
  BY <1>1, Places
<1>3. Recorded(exc.gate)' = choice
      /\ \A g \in Gates : g # exc.gate => Recorded(g)' = Recorded(g)
  BY <1>1, <1>2 DEF Recorded, ChoiceRecord
<1>4. exc.gate \in Asked => exc.options = Offer[exc.gate] /\ choice \in Picks[exc.gate]
  <2>1. exc.gate \in Asked => exc.options = Offer[exc.gate]
    BY <1>1 DEF CInv, Offered
  <2>2. \E i \in DOMAIN exc.options : exc.options[i] = choice
    BY DEF SaveDecision, Allowed
  <2> QED
    BY <2>1, <2>2, OffersArePicks
<1>5. Menu'
  <2> SUFFICES ASSUME NEW r \in Runs, NEW g \in Asked
               PROVE  decisionFile'[r][g] \in Picks[g] \cup {Absent}
    BY DEF Menu
  <2>1. g \in Gates
    BY DEF Asked, Gates
  <2>2. CASE r = runId /\ g = exc.gate
    BY <2>2, <1>1, <1>3, <1>4 DEF Recorded
  <2>3. CASE ~(r = runId /\ g = exc.gate)
    <3>1. decisionFile'[r][g] = decisionFile[r][g]
      BY <2>1, <2>3, <1>1, <1>2 DEF ChoiceRecord
    <3> QED  BY <3>1 DEF CInv, Menu
  <2> QED  BY <2>2, <2>3
<1>6. Offered'
  BY <1>1, <1>3, <1>4, OffersAreNotEmpty DEF Offered
<1>7. Settled'
  <2>1. node = "verify" => Recorded("test_failure_triage")' = Recorded("test_failure_triage")
    BY <1>2, <1>3 DEF GatesOf, Gates
  <2>2. node = "verify" => TestConsent' = TestConsent
    BY <2>1, <1>1 DEF TestConsent
  <2> QED
    BY <2>2, <1>1, <1>2 DEF CInv, Settled
<1>8. Announced'
  BY <1>1 DEF CInv, Announced
<1>9. Answering'
  BY <1>1 DEF CInv, Answering
<1> QED
  BY <1>5, <1>6, <1>7, <1>8, <1>9 DEF CInv

\* A person or the runner answers the gate that is shown.
LEMMA ResumeSettles ==
    ASSUME IInv, CInv, NEW by \in {"api", "dashboard"}, NEW asked, Resume(by, asked),
           by = "api" => proc = "paused" /\ asked = exc
    PROVE  CInv'
<1>1. /\ proc' = "running" /\ host' = by /\ phase' = "enter"
      /\ UNCHANGED <<cfg, node, runId, stage, runs, decisionFile, status, evidence, verification,
                     lost>>
  BY DEF Resume, stateVars, runFiles, artifacts
<1>0. PICK choice \in (IF Answers(asked) = {} THEN {Absent} ELSE Answers(asked)) :
        resume' = [gate |-> asked.gate, choice |-> choice]
  BY DEF Resume
<1>2. Menu' /\ Offered'
  BY <1>1 DEF CInv, Menu, Offered
<1>3. Settled'
  BY <1>1, SettledStays DEF CInv
<1>4. Announced'
  BY <1>1 DEF CInv, Announced
<1>5. Answering'
  <2> SUFFICES ASSUME by = "api"
               PROVE  /\ node \in {"design", "test", "verify"} /\ cfg.policy[node] = "pause"
                      /\ exc.gate \in GatesOf[node]
                      /\ exc.gate \in Asked => choice \in Picks[exc.gate]
    BY <1>0, <1>1 DEF Answering
  <2>1. /\ GateShown /\ node \in {"design", "test", "verify"}
        /\ exc.gate \in GatesOf[node]
    BY Places DEF CInv, Announced
  <2>2. ASSUME exc.gate \in Asked
        PROVE  choice \in Picks[exc.gate]
    <3>1. exc.options = Offer[exc.gate]
      BY <2>2 DEF CInv, Offered
    <3>2. choice \in Answers(exc)
      BY <1>0, <3>1, <2>2, OffersAreNotEmpty DEF Answers
    <3> QED  BY <3>1, <3>2, <2>2, OffersArePicks DEF Answers
  <2> QED  BY <2>1, <2>2 DEF GateShown
<1> QED
  BY <1>2, <1>3, <1>4, <1>5 DEF CInv

\* A failed or a repaired write of the gate file says nothing about the status file.
LEMMA GateFileOnly ==
    ASSUME IInv, Kept("gate") \/ Lost("gate")
    PROVE  "status" \in lost'[runId] <=> "status" \in lost[runId]
BY Places DEF Kept, Lost

LEMMA ConsentInit == Init => CInv
<1> SUFFICES ASSUME Init PROVE CInv
  OBVIOUS
<1>1. Menu
  BY DEF Init, Menu, NoChoices, Asked, Gates
<1> QED
  BY <1>1 DEF Init, CInv, Offered, Settled, Announced, Answering

LEMMA ConsentStep == IInv /\ CInv /\ [Next]_vars => CInv'
<1> SUFFICES ASSUME IInv, CInv, [Next]_vars PROVE CInv'
  OBVIOUS
<1>1. CASE InitMissingIntake
  BY <1>1, CommitSettles DEF InitMissingIntake, At, Commit, Stages, runFiles
<1>2. CASE InitOk
  <2>1. /\ runId' = runs' /\ node' = "bootstrap" /\ stage' = "init" /\ phase' = "enter"
        /\ proc' = "running" /\ UNCHANGED <<host, resume, decisionFile>>
        /\ node = "init" /\ host # "dashboard"
    BY <1>2 DEF InitOk, At
  <2>2. Menu' /\ Offered' /\ Settled'
    BY <2>1 DEF CInv, Menu, Offered, Settled
  <2>3. Announced' /\ Answering'
    BY <2>1 DEF CInv, Announced, Answering
  <2> QED  BY <2>2, <2>3 DEF CInv
<1>3. CASE InitCrash
  BY <1>3, CrashSettles DEF InitCrash, At, artifacts
<1>4. CASE Bootstrap
  BY <1>4, CommitSettles DEF Bootstrap, At, Commit, Stages, runFiles
<1>5. CASE DesignFails
  BY <1>5, CommitSettles DEF DesignFails, At, Commit, Stages, runFiles
<1>6. CASE DesignPasses
  BY <1>6, CommitSettles DEF DesignPasses, At, Commit, Stages, runFiles
<1>7. CASE DesignAsks
  BY <1>7, AskSettles DEF DesignAsks, At, runFiles, GatesOf, Asked
<1>8. CASE DesignAgain
  BY <1>8, CommitSettles DEF DesignAgain, At, Commit, Stages, runFiles
<1>9. CASE Implement
  <2>1. PICK r \in {"passed", "failed"}, t \in {retryCount, retryCount + 1} :
          CommitRetry("implement", r, Absent, t)
    BY <1>9 DEF Implement
  <2> QED
    BY <1>9, <2>1, CommitSettles DEF Implement, At, Stages, runFiles
<1>10. CASE Extract
  BY <1>10, CommitSettles DEF Extract, At, Commit, Stages, runFiles
<1>11. CASE TestFails
  BY <1>11, CommitSettles DEF TestFails, At, Commit, Stages, runFiles
<1>12. CASE TestPasses
  <2>1. node = "test" /\ Commit("test", "passed", Absent) /\ RunChecks("pass")
    BY <1>12 DEF TestPasses, At
  <2>2. evidence'[runId] = "pass" /\ runId' = runId
    BY <2>1, Places DEF RunChecks, Commit, CommitRetry
  <2>3. TestConsent'
    BY <2>2 DEF TestConsent
  <2> QED
    BY <1>12, <2>1, <2>3, CommitSettles DEF TestPasses, At, Commit, Stages, RunChecks
<1>13. CASE TestAsks
  BY <1>13, AskSettles DEF TestAsks, At, RunChecks, GatesOf, Asked, Offer
<1>14. CASE TestAborted
  BY <1>14, CommitSettles DEF TestAborted, At, Commit, Stages, runFiles
<1>15. CASE TestAgain
  <2>1. PICK verdict \in {"pass", "fail"} : RunChecks(verdict)
    BY <1>15 DEF TestAgain
  <2>2. node = "test" /\ phase = "act" /\ Commit("test", "passed", Chosen) /\ Chosen # "abort"
    BY <1>15 DEF TestAgain, At
  <2>3. runId \in Runs /\ exc.gate = "test_failure_triage"
    BY <2>2, Places DEF GatesOf
  <2>4. Recorded("test_failure_triage") = "continue"
    BY <2>2, <2>3 DEF CInv, Menu, Offered, Chosen, Recorded, Asked, Picks
  <2>5. Recorded("test_failure_triage")' = "continue"
    BY <2>1, <2>2, <2>4 DEF Commit, CommitRetry, RunChecks, Recorded
  <2>6. TestConsent'
    BY <2>5 DEF TestConsent
  <2> QED
    BY <1>15, <2>1, <2>2, <2>6, CommitSettles DEF TestAgain, At, Commit, Stages, RunChecks
<1>16. CASE VerifyFails
  BY <1>16, CommitSettles DEF VerifyFails, At, Commit, Stages, runFiles
<1>17. CASE VerifyByRule
  <2>1. /\ At("verify", "enter") /\ Commit("verify", "passed", Absent) /\ ~CallsLLM
        /\ UNCHANGED <<cfg, runFiles>>
    BY <1>17 DEF VerifyByRule
  <2>2. TestConsent'
    BY <2>1 DEF At, CInv, Settled, TestConsent, Recorded, Commit, CommitRetry, runFiles
  <2>3. VerifyConsent'
    BY <2>1 DEF VerifyConsent, CallsLLM, Commit, CommitRetry, runFiles
  <2> QED
    BY <2>1, <2>2, <2>3, CommitSettles DEF At, Commit, Stages, runFiles
<1>18. CASE VerifyByLLM
  <2>1. /\ At("verify", "enter") /\ host # "dashboard" /\ UNCHANGED <<cfg, runFiles>>
        /\ Recorded("verification_review") # "reject"
    BY <1>18 DEF VerifyByLLM
  <2>2. PICK rejected \in BOOLEAN, suspicious \in BOOLEAN :
          /\ verification' = [run |-> runId, rejected |-> rejected]
          /\ IF suspicious /\ Recorded("prompt_injection_review") = Absent
             THEN RaiseGate("prompt_injection_review", <<"accept_verdict", "reject_and_halt">>)
             ELSE IF rejected /\ Recorded("verification_review") = Absent
             THEN RaiseGate("verification_review", <<"accept", "reject">>)
             ELSE Commit("verify", "passed", Absent)
    BY <1>18 DEF VerifyByLLM
  <2>3. ASSUME NEW g \in {"prompt_injection_review", "verification_review"},
               RaiseGate(g, Offer[g])
        PROVE  CInv'
    BY <2>1, <2>3, AskSettles DEF runFiles, GatesOf
  <2>4. ASSUME Commit("verify", "passed", Absent),
               rejected => Recorded("verification_review") # Absent
        PROVE  CInv'
    <3>1. node = "verify" /\ runId \in Runs
      BY <2>1, Places DEF At
    <3>2. rejected => Recorded("verification_review") = "accept"
      BY <2>1, <2>4, <3>1 DEF CInv, Menu, Recorded, Asked, Picks
    <3>3. runId' = runId /\ decisionFile' = decisionFile /\ cfg' = cfg /\ evidence' = evidence
      BY <2>1, <2>4 DEF Commit, CommitRetry, runFiles
    <3>4. TestConsent'
      BY <3>1, <3>3 DEF CInv, Settled, TestConsent, Recorded
    <3>5. VerifyConsent'
      BY <2>2, <3>2, <3>3 DEF VerifyConsent, Recorded
    <3> QED
      BY <2>1, <2>4, <3>4, <3>5, CommitSettles DEF At, Commit, Stages, runFiles
  <2> QED
    BY <2>2, <2>3, <2>4 DEF Offer
<1>19. CASE VerifyDecided
  <2>1. /\ At("verify", "act") /\ UNCHANGED <<cfg, runFiles, artifacts>>
        /\ Commit("verify", IF Chosen = "reject" THEN "failed" ELSE "passed", Chosen)
    BY <1>19 DEF VerifyDecided
  <2>2. /\ exc.gate \in {"prompt_injection_review", "verification_review"} /\ runId \in Runs
    BY <2>1, Places DEF At, GatesOf
  <2>3. Recorded(exc.gate) \in Picks[exc.gate]
    BY <2>1, <2>2 DEF At, CInv, Menu, Offered, Recorded, Asked
  <2>4. Chosen # "reject" => \/ Recorded("verification_review") = "accept"
                             \/ Recorded("prompt_injection_review") # Absent
    BY <2>2, <2>3 DEF Chosen, Picks, Absent
  <2>5. UNCHANGED <<cfg, runId, decisionFile, evidence>>
    BY <2>1 DEF Commit, CommitRetry, runFiles
  <2>6. TestConsent'
    BY <2>1, <2>5 DEF At, CInv, Settled, TestConsent, Recorded
  <2>7. Chosen # "reject" => VerifyConsent'
    BY <2>4, <2>5 DEF VerifyConsent, Recorded
  <2> QED
    BY <2>1, <2>6, <2>7, CommitSettles DEF At, Commit, Stages, runFiles
<1>20. CASE Complete
  <2>1. /\ node = "complete" /\ node' = "END" /\ phase' = "return" /\ proc' = "running"
        /\ UNCHANGED <<cfg, host, resume, runId, decisionFile, evidence, verification, runs,
                       status, lost>>
    BY <1>20 DEF Complete, At, runFiles, artifacts
  <2>2. TestConsent' /\ VerifyConsent'
    BY <2>1 DEF CInv, Settled, TestConsent, VerifyConsent, CallsLLM, Recorded
  <2>3. Menu' /\ Offered' /\ Settled'
    BY <2>1, <2>2 DEF CInv, Menu, Offered, Settled
  <2>4. Announced' /\ Answering'
    BY <2>1 DEF CInv, Announced, Answering
  <2> QED  BY <2>3, <2>4 DEF CInv
<1>21. CASE GateSkip
  <2>1. /\ proc = "running" /\ node \in {"design", "test", "verify"}
        /\ cfg.policy[node] = "skip" /\ UNCHANGED <<cfg, runFiles>>
        /\ Commit(node, IF node = "design" THEN "skipped" ELSE "passed", Absent)
    BY <1>21, Places DEF GateSkip, AtGate, Policy
  <2>2. node = "test" => TestConsent'
    BY <2>1 DEF TestConsent
  <2>3. node = "verify" => TestConsent' /\ VerifyConsent'
    BY <2>1 DEF CInv, Settled, TestConsent, VerifyConsent, Recorded, Commit, CommitRetry, runFiles
  <2> QED
    BY <2>1, <2>2, <2>3, CommitSettles DEF Commit, Stages, runFiles
<1>22. CASE GateAuto
  BY <1>22, SaveSettles, CrashSettles DEF GateAuto, RefuseDecision, AtGate, artifacts
<1>23. CASE GatePause
  <2>1. /\ phase = "gate" /\ phase' = "interrupted" /\ proc = "running" /\ resume = NoAnswer
        /\ cfg.policy[node] = "pause" /\ WritePendingGate
        /\ UNCHANGED <<cfg, proc, host, node, exc, resume, runId, stage, decisionFile, runs,
                       evidence, status, verification>>
    BY <1>23 DEF GatePause, AtGate, Policy, stateVars, artifacts
  <2>2. /\ runId \in Runs
        /\ "gate" \notin lost'[runId] => pendingGate'[runId] = exc
        /\ "status" \in lost'[runId] <=> "status" \in lost[runId]
    BY <2>1, Places, GateFileOnly DEF WritePendingGate, Shown, Kept, Lost
  <2>3. Menu' /\ Offered'
    BY <2>1 DEF CInv, Menu, Offered
  <2>4. Settled'
    BY <2>1, SettledStays DEF CInv
  <2>5. GateShown'
    BY <2>1, <2>2 DEF GateShown
  <2>6. Announced'
    BY <2>1, <2>2, <2>5 DEF CInv, Announced
  <2>7. Answering'
    BY <2>1 DEF Answering
  <2> QED  BY <2>3, <2>4, <2>6, <2>7 DEF CInv
<1>24. CASE GateResume
  <2>1. "status" \in lost'[runId] <=> "status" \in lost[runId]
    BY <1>24, GateFileOnly DEF GateResume, ClearPendingGate
  <2> QED
    BY <1>24, <2>1, SaveSettles, CrashSettles DEF GateResume, RefuseDecision, AtGate, artifacts
<1>25. CASE TaskAgainCrashes
  BY <1>25, CrashSettles DEF TaskAgainCrashes, runFiles, artifacts
<1>26. CASE Return
  <2>1. /\ phase \in {"interrupted", "return"} /\ phase' \in {"enter", "return"}
        /\ proc = "running" /\ proc' \in {"paused", "returned"}
        /\ proc' = "paused" <=> phase = "interrupted"
        /\ IF WritesStatus THEN WriteRunStatus ELSE UNCHANGED <<status, lost>>
        /\ UNCHANGED <<cfg, host, node, exc, resume, runId, stage, decisionFile, runs, pendingGate,
                       evidence, verification>>
    BY <1>26 DEF Return, stateVars, artifacts
  <2>2. Menu' /\ Offered'
    BY <2>1 DEF CInv, Menu, Offered
  <2>3. Settled'
    BY <2>1, SettledStays DEF CInv
  <2>4. proc' = "paused" /\ "status" \notin lost'[runId] => status'[runId] = "paused"
    <3>1. SUFFICES ASSUME phase = "interrupted", "status" \notin lost'[runId]
                   PROVE  status'[runId] = "paused"
      BY <2>1
    <3>2. runId \in Runs /\ RunStatus = "paused" /\ DOMAIN status = Runs
      BY <3>1, Places DEF RunStatus
    <3>3. CASE WritesStatus
      <4>1. status' = [status EXCEPT ![runId] = RunStatus]
        BY <3>1, <3>2, <3>3, <2>1, Places DEF WriteRunStatus, Lost
      <4> QED  BY <4>1, <3>2 DEF IInv, TInv, TypeOK, FilesTypeOK
    <3>4. CASE ~WritesStatus
      <4>1. host = "api"
        BY <3>1, <3>2, <3>4 DEF WritesStatus, CInv, Announced, IInv, TInv, TypeOK, CallTypeOK, Runs
      <4> QED  BY <4>1, <3>1, <3>4, <2>1 DEF CInv, Announced
    <3> QED  BY <3>3, <3>4
  <2>5. host = "api" => status' = status /\ lost' = lost
    BY <2>1 DEF WritesStatus
  <2>6. proc' = "paused" => node # "init" /\ runId # 0 /\ runId = runs /\ GateShown
    BY <2>1, Places DEF CInv, Announced, Runs
  <2>9. proc' = "paused" => GateShown'
    <3>1. proc' = "paused" => ("gate" \in lost'[runId] <=> "gate" \in lost[runId])
      BY <2>1, <2>6, Places DEF WriteRunStatus, Kept, Lost
    <3> QED  BY <2>1, <2>6, <3>1 DEF GateShown
  <2>7. Announced'
    BY <2>1, <2>4, <2>5, <2>6, <2>9 DEF CInv, Announced
  <2>8. Answering'
    BY <2>1 DEF CInv, Answering
  <2> QED  BY <2>2, <2>3, <2>7, <2>8 DEF CInv
<1>27. CASE Kill
  BY <1>27, CrashSettles DEF Kill, runFiles, artifacts
<1>28. ASSUME NEW sameThread \in BOOLEAN, Launch(sameThread) PROVE CInv'
  <2>1. /\ proc' = "running" /\ host' = "runner" /\ node' = "init" /\ phase' = "enter"
        /\ resume' = NoAnswer /\ stage' = "init" /\ decisionFile' = decisionFile
    BY <1>28 DEF Launch, runFiles
  <2> QED
    BY <2>1 DEF CInv, Menu, Offered, Settled, Announced, Answering
<1>29. CASE ApiResume
  BY <1>29, ResumeSettles DEF ApiResume
<1>30. CASE DashboardResume
  BY <1>30, ResumeSettles DEF DashboardResume
<1>31. CASE UNCHANGED vars
  <2>1. UNCHANGED <<cfg, proc, host, node, phase, exc, resume, runId, stage, runs, decisionFile,
                    pendingGate, status, evidence, lost, verification>>
    BY <1>31 DEF vars, callVars, stateVars, runFiles, artifacts
  <2>2. Settled'
    BY <2>1, SettledStays DEF CInv
  <2>3. Menu' /\ Offered' /\ Announced' /\ Answering'
    BY <2>1 DEF CInv, Menu, Offered, Announced, GateShown, Answering, Recorded
  <2> QED  BY <2>2, <2>3 DEF CInv
<1> QED
  BY <1>1, <1>2, <1>3, <1>4, <1>5, <1>6, <1>7, <1>8, <1>9, <1>10, <1>11, <1>12, <1>13, <1>14,
     <1>15, <1>16, <1>17, <1>18, <1>19, <1>20, <1>21, <1>22, <1>23, <1>24, <1>25, <1>26, <1>27,
     <1>28, <1>29, <1>30, <1>31
  DEF Next, Step, InitNode, DesignNode, TestNode, VerifyNode, Gate

-----------------------------------------------------------------------------
LEMMA ConsentAlways == Spec => [](IInv /\ CInv)
<1>1. Init => CInv
  BY ConsentInit
<1>2. IInv /\ CInv /\ [Next]_vars => CInv'
  BY ConsentStep
<1> QED
  BY <1>1, <1>2, InvAlways, PTL DEF Spec

\* Failing checks and a rejected verdict get past a gate whose policy is pause only with
\* an answer on record, on every path an interrupted node can be run again.
THEOREM ConsentOnRecord == Spec => []ConsentIsOnRecord
<1>1. CInv => ConsentIsOnRecord
  BY DEF CInv, Settled, TestConsent, VerifyConsent, ConsentIsOnRecord
<1> QED
  BY <1>1, ConsentAlways, PTL

\* A waiting invocation shows the form of the gate it raised, for the newest run, however
\* it was resumed before - unless one of the two files could not be written.
THEOREM PauseVisible == Spec => []PauseIsVisible
<1>1. IInv /\ CInv => PauseIsVisible
  <2> SUFFICES ASSUME IInv, CInv, proc = "paused", lost[runId] = {}
               PROVE  FormShown /\ pendingGate[runId] = exc
    BY DEF PauseIsVisible
  <2>1. /\ runId # 0 /\ runId = runs /\ status[runId] = "paused"
        /\ pendingGate[runId] = exc
    BY DEF CInv, Announced, GateShown
  <2>2. exc # NoGate
    BY Places DEF Gates, NoGate, Absent
  <2> QED  BY <2>1, <2>2 DEF FormShown
<1> QED
  BY <1>1, ConsentAlways, PTL

\* An answer given for one gate is never recorded for another, although a node that is
\* run again may raise its other gate first: save_decision refuses it there.
THEOREM AnswersKeepTheirGate == Spec => AnswersStayWithTheirGate
<1> DEFINE SameGate ==
        \A g \in Gates :
            runId # 0 /\ resume # NoAnswer /\ decisionFile'[runId][g] # decisionFile[runId][g]
                => g = resume.gate /\ decisionFile'[runId][g] = resume.choice
<1>1. IInv /\ CInv /\ [Next]_vars => [SameGate]_decisionFile
  <2> SUFFICES ASSUME IInv, CInv, [Next]_vars, NEW g \in Gates, resume # NoAnswer,
                      decisionFile'[runId][g] # decisionFile[runId][g]
               PROVE  g = resume.gate /\ decisionFile'[runId][g] = resume.choice
    OBVIOUS
  <2>1. GateAuto \/ GateResume
    BY DEF Next, Step, InitNode, DesignNode, TestNode, VerifyNode, Gate, InitMissingIntake, InitOk,
           InitCrash, Bootstrap, DesignFails, DesignPasses, DesignAsks, DesignAgain, Implement,
           Extract, TestFails, TestPasses, TestAsks, TestAborted, TestAgain, RunChecks, VerifyFails,
           VerifyByRule, VerifyByLLM, VerifyDecided, Complete, GateSkip, GatePause,
           TaskAgainCrashes, Return, Kill, Launch, ApiResume, DashboardResume, Resume, runFiles,
           vars
  <2>2. AtGate /\ phase = "gate" /\ host # "dashboard"
    BY <2>1 DEF GateAuto, GateResume, AtGate, CInv, Announced
  <2>3. /\ node \in {"design", "test", "verify"} /\ exc.gate \in GatesOf[node]
        /\ runId \in Runs /\ decisionFile \in [Runs -> ChoiceRecord] /\ exc.gate \in Gates
    BY <2>2, Places
  <2>4. /\ cfg.policy[node] = "pause" /\ resume.gate \in GatesOf[node]
        /\ resume.gate \in Asked => resume.choice \in Picks[resume.gate]
    BY <2>2 DEF CInv, Answering
  <2>5. GateResume
    BY <2>1, <2>4 DEF GateAuto, Policy
  <2>6. SaveDecision(resume.choice)
    BY <2>5 DEF GateResume, RefuseDecision
  <2>7. /\ Allowed(resume.choice) /\ g = exc.gate /\ decisionFile'[runId][g] = resume.choice
    BY <2>3, <2>6 DEF SaveDecision, ChoiceRecord
  <2>8. exc.gate = resume.gate
    <3>1. CASE node # "verify"
      BY <3>1, <2>3, <2>4 DEF GatesOf
    <3>2. CASE node = "verify"
      <4>1. exc.gate \in Asked /\ resume.gate \in Asked
        BY <3>2, <2>3, <2>4 DEF GatesOf, Asked
      <4>2. resume.choice \in Picks[exc.gate]
        BY <4>1, <2>2, <2>7, OffersArePicks DEF Allowed, CInv, Offered
      <4> QED  BY <3>2, <4>1, <4>2, <2>3, <2>4 DEF GatesOf, Picks
    <3> QED  BY <3>1, <3>2
  <2> QED  BY <2>7, <2>8
<1> QED
  BY <1>1, ConsentAlways, PTL DEF Spec, AnswersStayWithTheirGate
=============================================================================
