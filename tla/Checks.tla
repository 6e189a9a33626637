------------------------------- MODULE Checks -------------------------------
(***************************************************************************)
(* test_system of tasks/test.py over the sandbox: which checks run, where, *)
(* what evidence they leave (engine/evidence.py), and what the stage makes *)
(* of it. A stage may be executed again in the same run, after the answer  *)
(* to its gate or after a crash, with another list of checks; the evidence *)
(* of the run is never cleared.                                            *)
(***************************************************************************)
EXTENDS Sequences, SequencesExt, Sandbox

VARIABLES
    checks,     \* per process: the names of the checks of this execution
    done,       \* per process: how many have run
    evidence,   \* per process: the files of runs/<run_id>/evidence: name -> record
    decision,   \* per process: the recorded test_failure_triage
    execution   \* per process: how often the stage was executed

stageVars == <<checks, done, evidence, decision, execution>>
vars == <<sandboxVars, stageVars>>

Resting  == {"idle", "failed", "asked", "passed"}
InSandbox == {"docker", "node", "lookup", "copying", "create", "install", "save", "saving"}
Working  == {"begin", "enter", "checking", "compliance", "verdict"} \cup InSandbox

Sentinel   == "no_checks_configured"
Compliance == "contract-compliance"

-----------------------------------------------------------------------------
(***************************************************************************)
(* The checks.                                                             *)
(***************************************************************************)
Given(name, has) == IF name \in has THEN <<name>> ELSE <<>>

NodeChecks(has) ==
    <<"install">> \o Given("typecheck", has) \o Given("build", has) \o Given("lint", has)
                  \o Given("test", has)

\* "tool.pytest" is the text [tool.pytest in pyproject.toml, which has to exist for it.
UsesPytest(has) ==
    \/ {"pyproject.toml", "tool.pytest"} \subseteq has
    \/ has \cap {"tests", "pytest.ini"} # {}

PythonChecks(has) ==
    <<"install", "syntax-check", "import-check">>
        \o (IF UsesPytest(has) THEN <<"test">> ELSE <<>>)
        \o <<"lint", "typecheck">>

AutoDetected(has) ==
    CASE ProjectType(has) = "node"    -> NodeChecks(has)
      [] ProjectType(has) = "python"  -> PythonChecks(has)
      [] ProjectType(has) = "unknown" -> <<>>

Record(p, exit, where) == [exit |-> exit, where |-> where, by |-> execution[p]]

\* A record of the same name is overwritten.
SaveEvidence(p, name, record) ==
    evidence' = [evidence EXCEPT ![p] = Put(@, name, record)]

Failing(records) ==
    {name \in DOMAIN records \ {Sentinel} : records[name].exit # "ok"}

-----------------------------------------------------------------------------
(***************************************************************************)
(* The stage.                                                              *)
(***************************************************************************)
Execute(p) ==
    /\ at[p] \in Resting /\ execution[p] < job[p].executions
    /\ at' = [at EXCEPT ![p] = "begin"]
    /\ execution' = [execution EXCEPT ![p] = @ + 1]
    /\ checks' = [checks EXCEPT ![p] = <<>>] /\ done' = [done EXCEPT ![p] = 0]
    /\ UNCHANGED <<cacheVars, procVars, evidence, decision>>

Aborted(p) ==
    /\ Goto(p, "begin", "failed")
    /\ decision[p] = "abort"
    /\ UNCHANGED <<cacheVars, procVars, stageVars>>

\* What config.yml lists, or else what the project's files suggest.
ChooseChecks(p) ==
    /\ at[p] = "begin" /\ decision[p] # "abort"
    /\ \E configured \in job[p].lists :
        checks' = [checks EXCEPT ![p] = IF configured # <<>> THEN configured
                                        ELSE AutoDetected(job[p].has)]
    /\ at' = [at EXCEPT ![p] = IF checks'[p] = <<>> THEN "compliance"
                               ELSE IF job[p].cfg.enabled THEN "enter" ELSE "checking"]
    /\ IF checks'[p] = <<>>
       THEN SaveEvidence(p, Sentinel, Record(p, "failed", "none"))
       ELSE UNCHANGED evidence
    /\ IF checks'[p] # <<>> /\ ~job[p].cfg.enabled
       THEN Box(p, [NoBox EXCEPT !.where = "host"])
       ELSE UNCHANGED box
    /\ UNCHANGED <<cacheVars, job, todo, seen, excused, done, decision, execution>>

\* The command ends, is stopped by its timeout, or can not be started: a record anyway.
RunCheck(p) ==
    /\ at[p] = "checking" /\ done[p] < Len(checks[p])
    /\ \E exit \in {"ok", "failed"} :
        SaveEvidence(p, checks[p][done[p] + 1], Record(p, exit, box[p].where))
    /\ done' = [done EXCEPT ![p] = @ + 1]
    /\ UNCHANGED <<cacheVars, procVars, checks, decision, execution, at>>

\* The command can not be split into words, which is noticed after it ran: no record of
\* this check and of those behind it.
RunCheckRaises(p) ==
    /\ Goto(p, "checking", "failed")
    /\ done[p] < Len(checks[p])
    /\ Leave(p)
    /\ UNCHANGED <<cacheVars, job, stageVars>>

\* Faulty variant: the workspace stays.
ChecksEndLeaving(p) ==
    /\ Goto(p, "checking", "compliance")
    /\ done[p] = Len(checks[p])
    /\ UNCHANGED <<cacheVars, procVars, stageVars>>

\* The workspace is removed, whichever way the checks ended.
ChecksEnd(p) ==
    /\ Goto(p, "checking", "compliance")
    /\ done[p] = Len(checks[p])
    /\ Leave(p)
    /\ UNCHANGED <<cacheVars, job, stageVars>>

\* The project itself is checked against the contract, not the workspace.
CheckContract(p) ==
    /\ Goto(p, "compliance", "verdict")
    /\ IF job[p].contract
       THEN \E exit \in {"ok", "failed"} : SaveEvidence(p, Compliance, Record(p, exit, "none"))
       ELSE UNCHANGED evidence
    /\ UNCHANGED <<cacheVars, procVars, checks, done, decision, execution>>

\* Faulty variant: the sentinel's exit code counts, no other failure does.
VerdictOfSentinel(p) ==
    /\ Goto(p, "verdict", IF Sentinel \in DOMAIN evidence[p] /\ decision[p] = "none"
                          THEN "asked" ELSE "passed")
    /\ UNCHANGED <<cacheVars, procVars, stageVars>>

\* Faulty variant: the checks run until they pass.
VerdictUntilPassed(p) ==
    /\ Goto(p, "verdict", IF Failing(evidence[p]) # {} THEN "begin" ELSE "passed")
    /\ UNCHANGED <<cacheVars, procVars, stageVars>>

\* Over everything in the evidence directory, the records of earlier executions included.
Verdict(p) ==
    /\ Goto(p, "verdict", IF Failing(evidence[p]) # {} /\ decision[p] = "none"
                          THEN "asked" ELSE "passed")
    /\ UNCHANGED <<cacheVars, procVars, stageVars>>

Decide(p) ==
    /\ at[p] = "asked" /\ decision[p] = "none"
    /\ \E choice \in {"continue", "abort"} : decision' = [decision EXCEPT ![p] = choice]
    /\ UNCHANGED <<sandboxVars, checks, done, evidence, execution>>

\* The workspace of a process that dies stays behind, and nobody looks at it again.
Crash(p) ==
    /\ at[p] \in Working
    /\ at' = [at EXCEPT ![p] = "failed"]
    /\ CutShort(p)
    /\ Leave(p)
    /\ UNCHANGED <<venvs, images, evicting, job, stageVars>>

-----------------------------------------------------------------------------
Init ==
    /\ InitSandbox
    /\ checks = [p \in Procs |-> <<>>] /\ done = [p \in Procs |-> 0]
    /\ evidence = [p \in Procs |-> [name \in {} |-> Record(p, "ok", "none")]]
    /\ decision = [p \in Procs |-> "none"] /\ execution = [p \in Procs |-> 0]

SandboxStep(p) == Entering(p) /\ UNCHANGED stageVars

Stage(p) ==
    \/ Aborted(p) \/ ChooseChecks(p) \/ SandboxStep(p)
    \/ RunCheck(p) \/ RunCheckRaises(p) \/ ChecksEnd(p)
    \/ CheckContract(p) \/ Verdict(p)

Next ==
    \/ \E p \in Procs : Execute(p) \/ Stage(p) \/ Decide(p) \/ Crash(p)
    \/ Evict /\ UNCHANGED stageVars

\* A stage that runs goes on: each of its subprocesses has a timeout.
Spec == Init /\ [][Next]_vars /\ \A p \in Procs : WF_vars(Stage(p))
-----------------------------------------------------------------------------
(***************************************************************************)
(* Properties.                                                             *)
(***************************************************************************)
Ready(p) == at[p] = "checking" /\ box[p].where = "local"
                /\ ProjectType(job[p].has) # "node"

\* The variables keep their types; a process that does not work holds no workspace, and
\* only one entry is evicted at a time.
TypeOK ==
    /\ Cardinality(evicting) <= 1 /\ evicting \subseteq DOMAIN venvs
    /\ \A key \in DOMAIN venvs : PiecesOf(venvs[key]) \subseteq Pieces
    /\ \A p \in Procs :
        /\ at[p] \in Resting \cup Working
        /\ done[p] \in 0 .. Len(checks[p])
        /\ at[p] \in Resting => box[p] = NoBox
        /\ todo[p] \subseteq Pieces /\ execution[p] \in 0 .. job[p].executions
        /\ decision[p] \in {"none", "continue", "abort"}
        /\ \A name \in DOMAIN evidence[p] : evidence[p][name].by \in 1 .. execution[p]

\* The packages in a sandbox are those of its project's dependency file, whoever built the
\* virtualenv; the project's own package may be an older one, but only from the cache.
DependenciesMatchSpec ==
    \A p \in Procs : Ready(p) =>
        \A piece \in box[p].venv :
            /\ piece.what = "deps" => piece.of = job[p].deps
            /\ piece.what = "package" /\ piece.of # p => box[p].hit

\* A sandbox that claims its dependencies has all of them, unless it was copied from an
\* entry that was not whole or changed meanwhile; and an entry is not whole only while it
\* is saved or evicted, or after it was saved or removed in part.
DepsClaimIsHonest ==
    /\ \A p \in Procs : Ready(p) /\ box[p].deps =>
        Whole(Key(job[p]), box[p].venv) \/ (box[p].hit /\ excused[p])
    /\ \A key \in DOMAIN venvs :
        Whole(key, venvs[key]) \/ Saving(key) \/ key \in evicting \cup short

\* With the docker backend no check of a Python project runs outside a container, and with
\* the sandbox enabled none runs in the project itself.
IsolationKept ==
    \A p \in Procs : \A name \in DOMAIN evidence[p] \ {Sentinel, Compliance} :
        /\ UsesDocker(job[p]) /\ job[p].cfg.enabled => evidence[p][name].where = "docker"
        /\ job[p].cfg.enabled => evidence[p][name].where # "host"

Reserved == {Sentinel, Compliance}

\* The stage passes without asking only when every check of this execution succeeded, if
\* no two have one name or the name of another record; and it asks only for a failure of
\* this execution or of a check that is no longer among its checks.
VerdictCoversChecks ==
    \A p \in Procs :
        /\ at[p] = "passed" /\ decision[p] = "none" /\ IsInjective(checks[p]) =>
            \A name \in ToSet(checks[p]) \ Reserved :
                evidence[p][name].exit = "ok" /\ evidence[p][name].by = execution[p]
        /\ at[p] = "asked" /\ decision[p] = "none" =>
            \E name \in Failing(evidence[p]) :
                evidence[p][name].by = execution[p] \/ name \notin ToSet(checks[p])

\* Every execution of the stage passes, asks or fails, whatever other runs do to the cache.
StageEnds == \A p \in Procs : at[p] \in Working ~> at[p] \in Resting
=============================================================================
