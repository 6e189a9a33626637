---------------------------- MODULE ChecksProofs ----------------------------
(***************************************************************************)
(* Theorems about Checks, for every set of processes and every setting     *)
(* they may find.                                                          *)
(*                                                                         *)
(* What a sandbox holds when the checks begin was decided on the way in,   *)
(* over a cache that other processes were writing and evicting: the        *)
(* invariant says where a process may be with what (Boxed, Contained),     *)
(* what a copy and a save have done so far (Copied, Saved), that an entry  *)
(* has one writer and none while it is evicted (OneSaver, Saved), and      *)
(* that entries are filed under what they hold (Filed, Accounted).  The    *)
(* verdict needs what the records of an execution are while it runs        *)
(* (Counted, Recorded).                                                    *)
(***************************************************************************)
EXTENDS Checks, FiniteSetTheorems, TLAPS

-----------------------------------------------------------------------------
(***************************************************************************)
(* The stage of one process.                                               *)
(***************************************************************************)
Entered == {"enter"} \cup InSandbox
Names   == {"install", "typecheck", "build", "lint", "test", "syntax-check", "import-check"}

\* done counts the checks of this execution that left a record.
Counted(p) ==
    /\ Len(checks[p]) \in Nat /\ DOMAIN checks[p] = 1 .. Len(checks[p])
    /\ done[p] \in 0 .. Len(checks[p])
    /\ at[p] \in {"begin"} \cup Entered => done[p] = 0
    /\ at[p] \in {"compliance", "verdict", "asked", "passed"} => done[p] = Len(checks[p])
    /\ execution[p] \in 0 .. job[p].executions
    /\ at[p] \in Working => execution[p] >= 1

Recorded(p) ==
    /\ \A name \in DOMAIN evidence[p] : evidence[p][name].by \in 1 .. execution[p]
    /\ \A i \in 1 .. done[p] : /\ checks[p][i] \in DOMAIN evidence[p]
                               /\ evidence[p][checks[p][i]].by = execution[p]

\* The verdict was over the evidence as it is.
Judged(p) ==
    /\ decision[p] \in {"none", "continue", "abort"}
    /\ at[p] = "passed" /\ decision[p] = "none" => Failing(evidence[p]) = {}
    /\ at[p] = "asked" /\ decision[p] = "none" => Failing(evidence[p]) # {}

\* What docker is to run stays in docker on its way to the checks.
Contained(p) ==
    /\ at[p] \in Entered => job[p].cfg.enabled
    /\ at[p] = "docker" => UsesDocker(job[p])
    /\ at[p] \in InSandbox \ {"docker"} => ~UsesDocker(job[p])
    /\ at[p] = "node" => ProjectType(job[p].has) = "node"
    /\ at[p] = "checking" /\ job[p].cfg.enabled =>
          box[p].where = IF UsesDocker(job[p]) THEN "docker" ELSE "local"

Isolated(p) ==
    \A name \in DOMAIN evidence[p] \ Reserved :
        /\ UsesDocker(job[p]) /\ job[p].cfg.enabled => evidence[p][name].where = "docker"
        /\ job[p].cfg.enabled => evidence[p][name].where # "host"

StageInv(p) ==
    /\ at[p] \in Resting \cup Working
    /\ Counted(p) /\ Recorded(p) /\ Judged(p) /\ Contained(p) /\ Isolated(p)

-----------------------------------------------------------------------------
(***************************************************************************)
(* The sandbox of one process.                                             *)
(***************************************************************************)
IsBox(b) == b = [workspace |-> b.workspace, venv |-> b.venv, deps |-> b.deps, hit |-> b.hit,
                 where |-> b.where]

Boxed(p) ==
    /\ IsBox(box[p]) /\ todo[p] \subseteq Pieces
    /\ at[p] \in Resting \cup {"begin", "enter", "compliance", "verdict"} => box[p] = NoBox
    /\ at[p] \in {"docker", "node", "lookup", "copying", "create", "install"} => ~box[p].deps
    /\ at[p] \in {"docker", "node", "lookup", "copying", "create", "install", "save", "saving"}
            => ~box[p].hit
    /\ at[p] \in {"lookup", "create"} => box[p].venv = {}
    /\ at[p] = "install" => box[p].venv = {Python}

\* What is in the virtualenv is the job's own, but for the package in a copy.
Own(p) ==
    \A piece \in box[p].venv :
        /\ piece.what \in Pieces
        /\ piece.what = "deps" => piece.of = job[p].deps /\ DepsFile(job[p].has) # "no-deps"
        /\ piece.what = "package" /\ piece.of # p => at[p] = "copying" \/ box[p].hit

Honest(p) ==
    at[p] \in {"save", "saving"} \/ Ready(p) =>
        (box[p].deps => Whole(Key(job[p]), box[p].venv) \/ (box[p].hit /\ excused[p]))

\* A copy that nothing disturbed holds what the entry holds, as far as it got.
Copied(p) ==
    at[p] = "copying" /\ ~excused[p] =>
        LET key == Key(job[p]) IN
        /\ key \in DOMAIN venvs /\ key \notin evicting
        /\ venvs[key] = seen[p] /\ Whole(key, seen[p])
        /\ box[p].venv = {piece \in seen[p] : piece.what \notin todo[p]}

\* A save puts into the entry what is in the sandbox, as far as it got.
Saved(p) ==
    at[p] = "saving" =>
        LET key == Key(job[p]) IN
        /\ key \in DOMAIN venvs /\ key \notin evicting
        /\ venvs[key] = {piece \in box[p].venv : piece.what \notin todo[p]}
        /\ Whole(key, box[p].venv) \/ key \in short

BoxInv(p) == Boxed(p) /\ Own(p) /\ Honest(p) /\ Copied(p) /\ Saved(p)

-----------------------------------------------------------------------------
(***************************************************************************)
(* The cache.                                                              *)
(***************************************************************************)
\* An entry has at most one writer: it appears when the save begins.
OneSaver ==
    \A p, q \in Procs : at[p] = "saving" /\ at[q] = "saving" /\ p # q => Key(job[p]) # Key(job[q])

Evicting == evicting = {} \/ \E key \in DOMAIN venvs : evicting = {key}

\* Dependencies are cached under the list that they were installed from.
Filed ==
    \A key \in DOMAIN venvs : \A piece \in venvs[key] :
        /\ piece.what \in Pieces
        /\ piece.what = "deps" => key.spec # "no-deps" /\ piece.of = key.deps

Accounted ==
    \A key \in DOMAIN venvs :
        Whole(key, venvs[key]) \/ Saving(key) \/ key \in evicting \cup short

CacheInv == OneSaver /\ Evicting /\ Filed /\ Accounted

Shapes ==
    /\ DOMAIN at = Procs /\ DOMAIN box = Procs /\ DOMAIN todo = Procs /\ DOMAIN seen = Procs
    /\ DOMAIN excused = Procs /\ DOMAIN checks = Procs /\ DOMAIN done = Procs
    /\ DOMAIN evidence = Procs /\ DOMAIN decision = Procs /\ DOMAIN execution = Procs
    /\ job \in Settings

StageInvs == \A p \in Procs : StageInv(p)
BoxInvs == \A p \in Procs : BoxInv(p)

IInv == Shapes /\ CacheInv /\ \A p \in Procs : StageInv(p) /\ BoxInv(p)

-----------------------------------------------------------------------------
(***************************************************************************)
(* The operators.                                                          *)
(***************************************************************************)
LEMMA JobGiven ==
    ASSUME job \in Settings, NEW p \in Procs
    PROVE  /\ job[p].executions \in Nat /\ job[p].lists \subseteq Seq(STRING)
           /\ job[p].cfg.enabled \in BOOLEAN
BY SandboxAssumption

LEMMA AutoDetectedIsList ==
    ASSUME NEW has
    PROVE  AutoDetected(has) \in Seq(Names)
<1>1. \A n \in Names : Given(n, has) \in Seq(Names)
  BY DEF Given
<1>2. NodeChecks(has) \in Seq(Names)
  BY <1>1 DEF NodeChecks, Names
<1>3. PythonChecks(has) \in Seq(Names)
  <2>1. <<"install", "syntax-check", "import-check">> \in Seq(Names)
    BY DEF Names
  <2>2. <<"test">> \in Seq(Names) /\ <<>> \in Seq(Names)
    BY DEF Names
  <2>3. <<"lint", "typecheck">> \in Seq(Names)
    BY DEF Names
  <2> QED
    BY <2>1, <2>2, <2>3 DEF PythonChecks
<1>4. ProjectType(has) \in {"node", "python", "unknown"}
  BY DEF ProjectType
<1>5. CASE ProjectType(has) = "node"
  BY <1>5, <1>2 DEF AutoDetected
<1>6. CASE ProjectType(has) = "python"
  BY <1>6, <1>3 DEF AutoDetected
<1>7. CASE ProjectType(has) = "unknown"
  BY <1>7 DEF AutoDetected
<1> QED
  BY <1>4, <1>5, <1>6, <1>7

LEMMA NoBoxIs ==
    /\ IsBox(NoBox) /\ NoBox.venv = {} /\ NoBox.deps = FALSE /\ NoBox.hit = FALSE
    /\ NoBox.where = "none"
BY DEF IsBox, NoBox

LEMMA KeyIs ==
    ASSUME NEW j
    PROVE  /\ Key(j).spec = DepsFile(j.has)
           /\ DepsFile(j.has) # "no-deps" => Key(j).deps = j.deps
BY DEF Key, DependsOn

\* A successful installation completes the virtualenv.
LEMMA InstallCompletes ==
    ASSUME NEW j, NEW p, DepsFile(j.has) # "no-deps"
    PROVE  Whole(Key(j), {Python} \cup Installed(p, j))
<1> DEFINE all == {Python} \cup Installed(p, j)
<1>1. Python.what = "python" /\ Piece("deps", j.deps).what = "deps"
      /\ Piece("package", p).what = "package"
  BY DEF Python, Piece
<1>2. CASE DepsFile(j.has) = "pyproject.toml"
  <2>1. all = {Python, Piece("deps", j.deps), Piece("package", p)}
    BY <1>2 DEF Installed
  <2>2. PiecesOf(all) = {"python", "deps", "package"}
    BY <1>1, <2>1 DEF PiecesOf
  <2>3. Kinds(Key(j)) = {"python", "deps", "package"}
    BY <1>2, KeyIs DEF Kinds
  <2> QED  BY <2>2, <2>3 DEF Whole
<1>3. CASE DepsFile(j.has) # "pyproject.toml"
  <2>1. all = {Python, Piece("deps", j.deps)}
    BY <1>3 DEF Installed
  <2>2. PiecesOf(all) = {"python", "deps"}
    BY <1>1, <2>1 DEF PiecesOf
  <2>3. Kinds(Key(j)) = {"python", "deps"}
    BY <1>3, KeyIs DEF Kinds
  <2> QED  BY <2>2, <2>3 DEF Whole
<1> QED  BY <1>2, <1>3

LEMMA InstalledIsOwn ==
    ASSUME NEW j, NEW p, NEW piece \in {Python} \cup Installed(p, j)
    PROVE  /\ piece.what \in Pieces
           /\ piece.what = "deps" => piece.of = j.deps /\ DepsFile(j.has) # "no-deps"
           /\ piece.what = "package" => piece.of = p
BY DEF Installed, Python, Piece, Pieces

-----------------------------------------------------------------------------
(***************************************************************************)
(* Frames.                                                                 *)
(***************************************************************************)
SameStage(q) == /\ at'[q] = at[q] /\ checks'[q] = checks[q] /\ done'[q] = done[q]
                /\ evidence'[q] = evidence[q] /\ decision'[q] = decision[q]
                /\ execution'[q] = execution[q] /\ box'[q] = box[q]
SameBox(q)   == /\ at'[q] = at[q] /\ box'[q] = box[q] /\ todo'[q] = todo[q]
                /\ seen'[q] = seen[q] /\ excused'[q] = excused[q]
Others(p)    == \A q \in Procs \ {p} : SameStage(q) /\ SameBox(q)
CacheStill   == venvs' = venvs /\ evicting' = evicting /\ short \subseteq short'

LEMMA StageKept ==
    ASSUME NEW q \in Procs, StageInv(q), SameStage(q), job' = job
    PROVE  StageInv(q)'
<1>1. Counted(q)' /\ Recorded(q)' /\ Judged(q)'
  BY DEF StageInv, SameStage, Counted, Recorded, Judged
<1>2. Contained(q)' /\ Isolated(q)'
  BY DEF StageInv, SameStage, Contained, Isolated
<1> QED
  BY <1>1, <1>2 DEF StageInv, SameStage

\* The part of it that is about the process alone.
LEMMA SandboxKept ==
    ASSUME NEW q \in Procs, Boxed(q), Own(q), Honest(q), job' = job,
           at'[q] = at[q], box'[q] = box[q], todo'[q] = todo[q],
           excused'[q] = excused[q] \/ at[q] = "copying"
    PROVE  Boxed(q)' /\ Own(q)' /\ Honest(q)'
<1>1. Boxed(q)'
  BY DEF Boxed
<1>2. Own(q)'
  BY DEF Own
<1>3. Honest(q)'
  BY DEF Honest, Ready
<1> QED
  BY <1>1, <1>2, <1>3

LEMMA BoxKept ==
    ASSUME NEW q \in Procs, BoxInv(q), SameBox(q), job' = job, CacheStill
    PROVE  BoxInv(q)'
<1>1. Boxed(q)' /\ Own(q)' /\ Honest(q)'
  BY SandboxKept DEF BoxInv, SameBox
<1>2. Copied(q)' /\ Saved(q)'
  BY DEF BoxInv, SameBox, CacheStill, Copied, Saved
<1> QED
  BY <1>1, <1>2 DEF BoxInv

\* A step of one process that leaves the cache as it is.
LEMMA QuietStep ==
    ASSUME IInv, NEW p \in Procs, Others(p), CacheStill, Shapes', job' = job,
           StageInv(p)', BoxInv(p)', at'[p] # "saving",
           at[p] = "saving" => \/ Whole(Key(job[p]), venvs[Key(job[p])])
                               \/ Key(job[p]) \in short'
    PROVE  IInv'
<1>1. ASSUME NEW q \in Procs PROVE StageInv(q)' /\ BoxInv(q)'
  BY StageKept, BoxKept DEF IInv, Others
<1>2. OneSaver'
  BY DEF IInv, CacheInv, OneSaver, Others, SameBox
<1>3. Evicting' /\ Filed'
  BY DEF IInv, CacheInv, Evicting, Filed, CacheStill
<1>4. Accounted'
  <2> SUFFICES ASSUME NEW key \in DOMAIN venvs
               PROVE  Whole(key, venvs[key]) \/ Saving(key)' \/ key \in evicting \cup short'
    BY DEF Accounted, CacheStill
  <2>1. CASE Saving(key)
    <3>1. PICK q \in Procs : at[q] = "saving" /\ Key(job[q]) = key
      BY <2>1 DEF Saving
    <3> QED
      BY <3>1 DEF Others, SameBox, Saving
  <2> QED
    BY <2>1 DEF IInv, CacheInv, Accounted, CacheStill
<1> QED
  BY <1>1, <1>2, <1>3, <1>4 DEF IInv, CacheInv

\* A sandbox with nothing in it, at a place where that is right.
LEMMA EmptyBox ==
    ASSUME NEW p \in Procs, todo'[p] \subseteq Pieces, IsBox(box'[p]),
           box'[p].venv = {}, box'[p].deps = FALSE, box'[p].hit = FALSE,
           at'[p] \in Resting \cup {"begin", "enter", "compliance", "verdict"}
               => box'[p] = NoBox,
           at'[p] \notin {"install", "copying", "save", "saving"}
    PROVE  BoxInv(p)'
BY DEF BoxInv, Boxed, Own, Honest, Copied, Saved

\* Where the stage is while the sandbox is entered changes nothing of its records.
LEMMA EnteringStage ==
    ASSUME IInv, NEW p \in Procs, at[p] \in Entered,
           at'[p] \in InSandbox \cup {"checking", "failed"},
           UNCHANGED <<stageVars, job>>, Contained(p)'
    PROVE  StageInv(p)'
<1>1. StageInv(p)
  BY DEF IInv
<1>2. at'[p] \in Resting \cup Working
  BY DEF Resting, Working
<1>3. Counted(p)'
  BY <1>1 DEF StageInv, Counted, stageVars, Entered, Working, InSandbox
<1>4. Recorded(p)' /\ Isolated(p)'
  BY <1>1 DEF StageInv, Recorded, Isolated, stageVars
<1>5. Judged(p)'
  BY <1>1 DEF StageInv, Judged, stageVars, InSandbox
<1> QED
  BY <1>2, <1>3, <1>4, <1>5 DEF StageInv

-----------------------------------------------------------------------------
(***************************************************************************)
(* The steps of the stage.                                                 *)
(***************************************************************************)
LEMMA InvInit == Init => IInv
<1> SUFFICES ASSUME Init PROVE IInv
  OBVIOUS
<1>1. Shapes
  BY DEF Init, InitSandbox, Shapes
<1>2. CacheInv
  BY DEF Init, InitSandbox, CacheInv, OneSaver, Evicting, Filed, Accounted
<1>3. ASSUME NEW p \in Procs PROVE StageInv(p) /\ BoxInv(p)
  <2>1. /\ at[p] = "idle" /\ box[p] = NoBox /\ todo[p] = {} /\ checks[p] = <<>> /\ done[p] = 0
        /\ DOMAIN evidence[p] = {} /\ decision[p] = "none" /\ execution[p] = 0
    BY DEF Init, InitSandbox
  <2>2. BoxInv(p)
    BY <2>1, NoBoxIs DEF BoxInv, Boxed, Own, Honest, Ready, Copied, Saved, Resting
  <2>3. Counted(p)
    BY <2>1, JobGiven, <1>1 DEF Counted, Shapes, Working, InSandbox, Entered
  <2>4. Recorded(p) /\ Judged(p) /\ Isolated(p)
    BY <2>1 DEF Recorded, Judged, Isolated
  <2>5. Contained(p)
    BY <2>1 DEF Contained, Entered, InSandbox
  <2> QED  BY <2>1, <2>2, <2>3, <2>4, <2>5 DEF StageInv, Resting
<1> QED  BY <1>1, <1>2, <1>3 DEF IInv

LEMMA ExecuteKeeps ==
    ASSUME IInv, NEW p \in Procs, Execute(p)
    PROVE  IInv'
<1>1. /\ at[p] \in Resting /\ execution[p] < job[p].executions
      /\ at'[p] = "begin" /\ execution'[p] = execution[p] + 1 /\ checks'[p] = <<>>
      /\ done'[p] = 0 /\ evidence'[p] = evidence[p] /\ decision'[p] = decision[p]
      /\ box'[p] = box[p] /\ todo'[p] = todo[p] /\ job' = job
  BY DEF Execute, procVars, IInv, Shapes
<1>2. Others(p) /\ Shapes' /\ CacheStill
  BY DEF Execute, procVars, cacheVars, IInv, Shapes, Others, SameStage, SameBox, CacheStill
<1>3. StageInv(p)
  BY DEF IInv
<1>4. execution[p] \in Nat /\ job[p].executions \in Nat
  BY <1>3, JobGiven DEF IInv, Shapes, StageInv, Counted
<1>5. Counted(p)'
  BY <1>1, <1>4 DEF Counted, Entered, InSandbox, Working
<1>6. Recorded(p)'
  <2>1. \A name \in DOMAIN evidence[p] : evidence[p][name].by \in 1 .. execution[p]
    BY <1>3 DEF StageInv, Recorded
  <2>2. 1 .. execution[p] \subseteq 1 .. (execution[p] + 1)
    BY <1>4
  <2> QED  BY <1>1, <2>1, <2>2 DEF Recorded
<1>7. Judged(p)' /\ Contained(p)' /\ Isolated(p)'
  BY <1>1, <1>3 DEF StageInv, Judged, Contained, Isolated, Entered, InSandbox
<1>8. StageInv(p)'
  BY <1>1, <1>5, <1>6, <1>7 DEF StageInv, Working
<1>9. BoxInv(p)'
  BY <1>1, EmptyBox, NoBoxIs DEF IInv, BoxInv, Boxed
<1> QED
  BY <1>1, <1>2, <1>8, <1>9, QuietStep DEF Resting

LEMMA ChooseChecksKeeps ==
    ASSUME IInv, NEW p \in Procs, ChooseChecks(p)
    PROVE  IInv'
<1>1. PICK configured \in job[p].lists :
        checks'[p] = IF configured # <<>> THEN configured ELSE AutoDetected(job[p].has)
  BY DEF ChooseChecks, IInv, Shapes
<1>2. /\ at[p] = "begin" /\ done' = done /\ decision' = decision /\ execution' = execution
      /\ at'[p] = IF checks'[p] = <<>> THEN "compliance"
                  ELSE IF job[p].cfg.enabled THEN "enter" ELSE "checking"
      /\ todo' = todo /\ job' = job
  BY DEF ChooseChecks, IInv, Shapes
<1>3. evidence'[p] = IF checks'[p] = <<>>
                     THEN Put(evidence[p], Sentinel, Record(p, "failed", "none"))
                     ELSE evidence[p]
  BY DEF ChooseChecks, SaveEvidence, IInv, Shapes
<1>4. box'[p] = IF checks'[p] # <<>> /\ ~job[p].cfg.enabled THEN [NoBox EXCEPT !.where = "host"]
                ELSE box[p]
  BY DEF ChooseChecks, Box, IInv, Shapes
<1>5. Others(p)
  BY DEF ChooseChecks, SaveEvidence, Box, IInv, Shapes, Others, SameStage, SameBox
<1>6. Shapes' /\ CacheStill
  BY DEF ChooseChecks, SaveEvidence, Box, cacheVars, IInv, Shapes, CacheStill
<1>7. StageInv(p) /\ box[p] = NoBox /\ todo[p] \subseteq Pieces
  BY <1>2 DEF IInv, BoxInv, Boxed
<1>8. Len(checks'[p]) \in Nat /\ DOMAIN checks'[p] = 1 .. Len(checks'[p])
  <2>1. configured \in Seq(STRING)
    BY JobGiven DEF IInv, Shapes
  <2> QED  BY <1>1, <2>1, AutoDetectedIsList
<1>9. done[p] = 0 /\ execution[p] \in Nat /\ execution[p] >= 1
  BY <1>2, <1>7, JobGiven DEF StageInv, Counted, Working, IInv, Shapes
<1>10. Counted(p)'
  <2>1. checks'[p] = <<>> => Len(checks'[p]) = 0
    OBVIOUS
  <2> QED
    BY <1>2, <1>7, <1>8, <1>9, <2>1 DEF StageInv, Counted, Entered, InSandbox
<1>11. Recorded(p)' /\ Isolated(p)'
  <2>1. CASE checks'[p] = <<>>
    <3>1. /\ DOMAIN evidence'[p] = DOMAIN evidence[p] \cup {Sentinel}
          /\ evidence'[p][Sentinel].by = execution[p]
          /\ \A x \in DOMAIN evidence[p] \ {Sentinel} : evidence'[p][x] = evidence[p][x]
      <4>1. evidence'[p] = Put(evidence[p], Sentinel, Record(p, "failed", "none"))
        BY <1>3, <2>1
      <4>2. Record(p, "failed", "none").by = execution[p]
        BY DEF Record
      <4> QED  BY <4>1, <4>2 DEF Put
    <3> QED
      BY <3>1, <1>2, <1>7, <1>9 DEF StageInv, Recorded, Isolated, Reserved
  <2>2. CASE checks'[p] # <<>>
    BY <2>2, <1>2, <1>3, <1>7, <1>9 DEF StageInv, Recorded, Isolated
  <2> QED  BY <2>1, <2>2
<1>12. Judged(p)'
  BY <1>2, <1>7 DEF StageInv, Judged
<1>13. Contained(p)'
  BY <1>2, <1>4 DEF Contained, Entered, InSandbox
<1>14. StageInv(p)'
  BY <1>2, <1>10, <1>11, <1>12, <1>13 DEF StageInv, Working
<1>15. BoxInv(p)'
  <2>1. /\ IsBox(box'[p]) /\ box'[p].venv = {} /\ box'[p].deps = FALSE /\ box'[p].hit = FALSE
        /\ at'[p] # "checking" => box'[p] = NoBox
    <3>1. CASE checks'[p] # <<>> /\ ~job[p].cfg.enabled
      <4>1. box'[p] = [NoBox EXCEPT !.where = "host"] /\ at'[p] = "checking"
        BY <3>1, <1>2, <1>4
      <4> QED  BY <4>1 DEF NoBox, IsBox
    <3>2. CASE ~(checks'[p] # <<>> /\ ~job[p].cfg.enabled)
      BY <3>2, <1>4, <1>7, NoBoxIs
    <3> QED  BY <3>1, <3>2
  <2>2. at'[p] \in {"compliance", "enter", "checking"}
    BY <1>2
  <2> QED
    BY <1>2, <1>7, <2>1, <2>2, EmptyBox DEF Resting
<1> QED
  BY <1>2, <1>5, <1>6, <1>14, <1>15, QuietStep

LEMMA RunCheckKeeps ==
    ASSUME IInv, NEW p \in Procs, RunCheck(p)
    PROVE  IInv'
<1> DEFINE name == checks[p][done[p] + 1]
<1>1. PICK exit \in {"ok", "failed"} :
        evidence'[p] = Put(evidence[p], name, Record(p, exit, box[p].where))
  BY DEF RunCheck, SaveEvidence, IInv, Shapes
<1>2. /\ at[p] = "checking" /\ at' = at /\ done[p] < Len(checks[p]) /\ done'[p] = done[p] + 1
      /\ UNCHANGED <<job, box, todo, seen, excused, checks, decision, execution>>
  BY DEF RunCheck, procVars, IInv, Shapes
<1>3. Others(p) /\ Shapes' /\ CacheStill
  BY DEF RunCheck, SaveEvidence, procVars, cacheVars, IInv, Shapes, Others, SameStage, SameBox,
         CacheStill
<1>4. StageInv(p) /\ BoxInv(p)
  BY DEF IInv
<1>5. done[p] \in Nat /\ Len(checks[p]) \in Nat /\ execution[p] \in Nat /\ execution[p] >= 1
  BY <1>2, <1>4, JobGiven DEF StageInv, Counted, Working, IInv, Shapes
<1>6. Counted(p)'
  BY <1>2, <1>4, <1>5 DEF StageInv, Counted, Entered, InSandbox
<1>7. /\ DOMAIN evidence'[p] = DOMAIN evidence[p] \cup {name}
      /\ evidence'[p][name].by = execution[p] /\ evidence'[p][name].where = box[p].where
      /\ \A x \in DOMAIN evidence[p] \ {name} : evidence'[p][x] = evidence[p][x]
  <2>1. Record(p, exit, box[p].where).by = execution[p]
        /\ Record(p, exit, box[p].where).where = box[p].where
    BY DEF Record
  <2> QED  BY <1>1, <2>1 DEF Put
<1>8. Recorded(p)'
  <2>1. ASSUME NEW i \in 1 .. done'[p]
        PROVE  checks[p][i] \in DOMAIN evidence'[p] /\ evidence'[p][checks[p][i]].by = execution[p]
    <3>1. i \in 1 .. done[p] \/ i = done[p] + 1
      BY <1>2, <1>5, <2>1
    <3> QED
      BY <3>1, <1>4, <1>7 DEF StageInv, Recorded
  <2>2. ASSUME NEW x \in DOMAIN evidence'[p] PROVE evidence'[p][x].by \in 1 .. execution[p]
    BY <1>4, <1>5, <1>7 DEF StageInv, Recorded
  <2> QED  BY <2>1, <2>2, <1>2 DEF Recorded
<1>9. Isolated(p)'
  <2>1. job[p].cfg.enabled => /\ box[p].where # "host"
                              /\ UsesDocker(job[p]) => box[p].where = "docker"
    BY <1>2, <1>4 DEF StageInv, Contained
  <2> QED  BY <2>1, <1>2, <1>4, <1>7 DEF StageInv, Isolated
<1>10. Judged(p)' /\ Contained(p)'
  BY <1>2, <1>4 DEF StageInv, Judged, Contained
<1>11. StageInv(p)'
  BY <1>2, <1>4, <1>6, <1>8, <1>9, <1>10 DEF StageInv
<1>12. BoxInv(p)'
  BY <1>2, <1>3, <1>4, BoxKept DEF SameBox
<1> QED
  BY <1>2, <1>3, <1>11, <1>12, QuietStep

\* The steps that end, decide or judge the stage, and leave its records alone.
LEMMA LeaveIs ==
    ASSUME IInv, NEW p \in Procs, Leave(p), job' = job,
           at'[p] \in {"failed", "compliance"}
    PROVE  /\ box'[p] = NoBox /\ BoxInv(p)'
           /\ DOMAIN box' = Procs /\ DOMAIN todo' = Procs
           /\ DOMAIN seen' = Procs /\ DOMAIN excused' = Procs
           /\ \A q \in Procs \ {p} : /\ box'[q] = box[q] /\ todo'[q] = todo[q]
                                     /\ seen'[q] = seen[q] /\ excused'[q] = excused[q]
<1>1. box'[p] = NoBox /\ todo'[p] = {}
  BY DEF Leave, Box, IInv, Shapes
<1>2. BoxInv(p)'
  BY <1>1, EmptyBox, NoBoxIs
<1> QED
  BY <1>1, <1>2 DEF Leave, Box, IInv, Shapes

LEMMA FailedKeeps ==
    ASSUME IInv, NEW p \in Procs, Leave(p), UNCHANGED <<stageVars, job, venvs, evicting>>,
           at' = [at EXCEPT ![p] = "failed"], at[p] \in Working, short \subseteq short',
           at[p] = "saving" => Key(job[p]) \in short'
    PROVE  IInv'
<1>1. at'[p] = "failed" /\ Others(p) /\ Shapes' /\ CacheStill
  BY LeaveIs DEF stageVars, IInv, Shapes, Others, SameStage, SameBox, CacheStill
<1>2. StageInv(p)
  BY DEF IInv
<1>3. Counted(p)' /\ Recorded(p)' /\ Isolated(p)'
  BY <1>1, <1>2
  DEF stageVars, StageInv, Counted, Recorded, Isolated, Entered, InSandbox, Working
<1>4. Judged(p)' /\ Contained(p)'
  BY <1>1, <1>2 DEF stageVars, StageInv, Judged, Contained, Entered, InSandbox
<1>5. StageInv(p)'
  BY <1>1, <1>3, <1>4 DEF StageInv, Resting
<1> QED
  BY <1>1, <1>5, LeaveIs, QuietStep

LEMMA ChecksEndKeeps ==
    ASSUME IInv, NEW p \in Procs, ChecksEnd(p)
    PROVE  IInv'
<1>1. /\ at[p] = "checking" /\ at'[p] = "compliance" /\ done[p] = Len(checks[p])
      /\ UNCHANGED <<stageVars, job, cacheVars>> /\ Leave(p)
  BY DEF ChecksEnd, Goto, IInv, Shapes
<1>2. Others(p) /\ Shapes' /\ CacheStill
  BY <1>1, LeaveIs
  DEF ChecksEnd, Goto, stageVars, cacheVars, IInv, Shapes, Others, SameStage, SameBox, CacheStill
<1>3. StageInv(p)
  BY DEF IInv
<1>4. Counted(p)' /\ Recorded(p)' /\ Isolated(p)'
  BY <1>1, <1>3
  DEF stageVars, StageInv, Counted, Recorded, Isolated, Entered, InSandbox, Working
<1>5. Judged(p)' /\ Contained(p)'
  BY <1>1, <1>3 DEF stageVars, StageInv, Judged, Contained, Entered, InSandbox
<1>6. StageInv(p)'
  BY <1>1, <1>4, <1>5 DEF StageInv, Working
<1> QED
  BY <1>1, <1>2, <1>6, LeaveIs, QuietStep

\* The sandbox is gone: what a stage does after the checks has an empty box.
LEMMA BoxlessStep ==
    ASSUME IInv, NEW p \in Procs, UNCHANGED <<cacheVars, procVars>>, Others(p), Shapes',
           at[p] \in Resting \cup {"begin", "compliance", "verdict"},
           at'[p] \in Resting \cup {"begin", "compliance", "verdict"},
           StageInv(p)'
    PROVE  IInv'
<1>1. box[p] = NoBox /\ todo[p] \subseteq Pieces
  BY DEF IInv, BoxInv, Boxed
<1>2. BoxInv(p)'
  BY <1>1, EmptyBox, NoBoxIs DEF procVars, Resting
<1>3. at[p] # "saving" /\ at'[p] # "saving"
  BY DEF Resting
<1> QED
  BY <1>2, <1>3, QuietStep DEF CacheStill, cacheVars, procVars

LEMMA CheckContractKeeps ==
    ASSUME IInv, NEW p \in Procs, CheckContract(p)
    PROVE  IInv'
<1>1. /\ at[p] = "compliance" /\ at'[p] = "verdict"
      /\ UNCHANGED <<cacheVars, procVars, checks, done, decision, execution>>
  BY DEF CheckContract, Goto, IInv, Shapes
<1>2. Others(p) /\ Shapes'
  BY DEF CheckContract, Goto, SaveEvidence, procVars, IInv, Shapes, Others, SameStage, SameBox
<1>3. StageInv(p)
  BY DEF IInv
<1>4. execution[p] \in Nat /\ execution[p] >= 1
  BY <1>1, <1>3, JobGiven DEF StageInv, Counted, Working, IInv, Shapes
<1>5. Recorded(p)' /\ Isolated(p)'
  <2>1. CASE evidence'[p] = evidence[p]
    BY <2>1, <1>1, <1>3 DEF StageInv, Recorded, Isolated, procVars
  <2>2. ASSUME NEW exit, evidence'[p] = Put(evidence[p], Compliance, Record(p, exit, "none"))
        PROVE  Recorded(p)' /\ Isolated(p)'
    <3>1. /\ DOMAIN evidence'[p] = DOMAIN evidence[p] \cup {Compliance}
          /\ evidence'[p][Compliance].by = execution[p]
          /\ \A x \in DOMAIN evidence[p] \ {Compliance} : evidence'[p][x] = evidence[p][x]
      <4>1. Record(p, exit, "none").by = execution[p]
        BY DEF Record
      <4> QED  BY <2>2, <4>1 DEF Put
    <3>2. Recorded(p)'
      BY <3>1, <1>1, <1>3, <1>4 DEF StageInv, Recorded
    <3>3. Isolated(p)'
      BY <3>1, <1>1, <1>3 DEF StageInv, Isolated, Reserved, procVars
    <3> QED  BY <3>2, <3>3
  <2> QED
    BY <2>1, <2>2 DEF CheckContract, SaveEvidence, IInv, Shapes
<1>6. Counted(p)'
  BY <1>1, <1>3 DEF StageInv, Counted, procVars, Entered, InSandbox, Working
<1>7. Judged(p)' /\ Contained(p)'
  BY <1>1, <1>3 DEF StageInv, Judged, Contained, procVars, Entered, InSandbox
<1>8. StageInv(p)'
  BY <1>1, <1>5, <1>6, <1>7 DEF StageInv, Working
<1> QED
  BY <1>1, <1>2, <1>8, BoxlessStep

LEMMA AbortedKeeps ==
    ASSUME IInv, NEW p \in Procs, Aborted(p)
    PROVE  IInv'
<1>1. /\ at[p] = "begin" /\ at'[p] = "failed" /\ UNCHANGED <<cacheVars, procVars, stageVars>>
  BY DEF Aborted, Goto, IInv, Shapes
<1>2. Others(p) /\ Shapes'
  BY DEF Aborted, Goto, procVars, stageVars, IInv, Shapes, Others, SameStage, SameBox
<1>3. StageInv(p)
  BY DEF IInv
<1>4. Counted(p)' /\ Recorded(p)' /\ Isolated(p)'
  BY <1>1, <1>3
  DEF stageVars, procVars, StageInv, Counted, Recorded, Isolated, Entered, InSandbox, Working
<1>5. Judged(p)' /\ Contained(p)'
  BY <1>1, <1>3 DEF stageVars, procVars, StageInv, Judged, Contained, Entered, InSandbox
<1>6. StageInv(p)'
  BY <1>1, <1>4, <1>5 DEF StageInv, Resting
<1> QED
  BY <1>1, <1>2, <1>6, BoxlessStep DEF Resting

LEMMA VerdictKeeps ==
    ASSUME IInv, NEW p \in Procs, Verdict(p)
    PROVE  IInv'
<1>1. /\ at[p] = "verdict" /\ UNCHANGED <<cacheVars, procVars, stageVars>>
      /\ at'[p] = IF Failing(evidence[p]) # {} /\ decision[p] = "none" THEN "asked" ELSE "passed"
  BY DEF Verdict, Goto, IInv, Shapes
<1>2. Others(p) /\ Shapes'
  BY DEF Verdict, Goto, procVars, stageVars, IInv, Shapes, Others, SameStage, SameBox
<1>3. StageInv(p)
  BY DEF IInv
<1>4. Counted(p)' /\ Recorded(p)' /\ Isolated(p)'
  BY <1>1, <1>3
  DEF stageVars, procVars, StageInv, Counted, Recorded, Isolated, Entered, InSandbox, Working
<1>5. Judged(p)' /\ Contained(p)'
  BY <1>1, <1>3 DEF stageVars, procVars, StageInv, Judged, Contained, Entered, InSandbox
<1>6. StageInv(p)'
  BY <1>1, <1>4, <1>5 DEF StageInv, Resting
<1> QED
  BY <1>1, <1>2, <1>6, BoxlessStep DEF Resting

LEMMA DecideKeeps ==
    ASSUME IInv, NEW p \in Procs, Decide(p)
    PROVE  IInv'
<1>1. /\ at[p] = "asked" /\ decision'[p] \in {"continue", "abort"}
      /\ UNCHANGED <<at, cacheVars, procVars, checks, done, evidence, execution>>
  BY DEF Decide, sandboxVars, IInv, Shapes
<1>2. Others(p) /\ Shapes'
  BY DEF Decide, sandboxVars, procVars, IInv, Shapes, Others, SameStage, SameBox
<1>3. StageInv(p)
  BY DEF IInv
<1>4. Counted(p)' /\ Recorded(p)' /\ Isolated(p)' /\ Contained(p)'
  BY <1>1, <1>3 DEF procVars, StageInv, Counted, Recorded, Isolated, Contained
<1>5. Judged(p)'
  BY <1>1 DEF Judged
<1>6. StageInv(p)'
  BY <1>1, <1>3, <1>4, <1>5 DEF StageInv
<1> QED
  BY <1>1, <1>2, <1>6, BoxlessStep DEF Resting

-----------------------------------------------------------------------------
(***************************************************************************)
(* The steps of the sandbox that leave the cache as it is.                 *)
(***************************************************************************)
Quiet(p) ==
    /\ UNCHANGED <<stageVars, job>> /\ CacheStill /\ Others(p) /\ Shapes'

LEMMA EnteringStep ==
    ASSUME IInv, NEW p \in Procs, Quiet(p), at[p] \in Entered,
           at'[p] \in (InSandbox \ {"saving"}) \cup {"checking"}, Contained(p)', BoxInv(p)',
           at[p] = "saving" => \/ Whole(Key(job[p]), venvs[Key(job[p])])
                               \/ Key(job[p]) \in short'
    PROVE  IInv'
<1>1. StageInv(p)'
  BY EnteringStage DEF Quiet
<1>2. at'[p] # "saving"
  OBVIOUS
<1> QED
  BY <1>1, <1>2, QuietStep DEF Quiet

LEMMA CopyProjectKeeps ==
    ASSUME IInv, NEW p \in Procs, CopyProject(p), UNCHANGED stageVars
    PROVE  IInv'
<1>1. /\ at[p] = "enter" /\ todo' = todo /\ job' = job
      /\ box'[p] = [NoBox EXCEPT !.workspace = TRUE]
      /\ at'[p] = IF UsesDocker(job[p]) THEN "docker"
                  ELSE IF ProjectType(job[p].has) = "node" THEN "node" ELSE "lookup"
  BY DEF CopyProject, Goto, Box, IInv, Shapes
<1>2. Quiet(p)
  BY DEF CopyProject, Goto, Box, cacheVars, stageVars, Quiet, CacheStill, Others, SameStage, SameBox,
         IInv, Shapes
<1>3. StageInv(p) /\ todo[p] \subseteq Pieces
  BY DEF IInv, BoxInv, Boxed
<1>4. IsBox(box'[p]) /\ box'[p].venv = {} /\ box'[p].deps = FALSE /\ box'[p].hit = FALSE
  BY <1>1 DEF NoBox, IsBox
<1>5. BoxInv(p)'
  BY <1>1, <1>3, <1>4, EmptyBox DEF Resting
<1>6. Contained(p)'
  BY <1>1, <1>3 DEF StageInv, Contained, Entered, InSandbox
<1> QED
  BY <1>1, <1>2, <1>5, <1>6, EnteringStep DEF Entered, InSandbox

LEMMA EnterFailsKeeps ==
    ASSUME IInv, NEW p \in Procs, NEW from \in Entered \ {"saving"}, EnterFails(p, from),
           UNCHANGED stageVars
    PROVE  IInv'
<1>1. /\ at[p] = from /\ at' = [at EXCEPT ![p] = "failed"] /\ Leave(p)
      /\ UNCHANGED <<cacheVars, job>>
  BY DEF EnterFails, Goto
<1>2. at[p] \in Working
  BY <1>1 DEF Entered, Working
<1> QED
  BY <1>1, <1>2, FailedKeeps DEF cacheVars

LEMMA DockerReadyKeeps ==
    ASSUME IInv, NEW p \in Procs, DockerReady(p), UNCHANGED stageVars
    PROVE  IInv'
<1>1. /\ at[p] = "docker" /\ at'[p] = "checking" /\ todo' = todo /\ job' = job
      /\ \E h, d : box'[p] = [box[p] EXCEPT !.where = "docker", !.hit = h, !.deps = d]
  BY DEF DockerReady, Goto, Box, IInv, Shapes
<1>2. Quiet(p)
  BY DEF DockerReady, Goto, Box, stageVars, Quiet, CacheStill, Others, SameStage, SameBox, IInv,
         Shapes
<1>3. StageInv(p) /\ BoxInv(p)
  BY DEF IInv
<1>4. IsBox(box'[p]) /\ box'[p].where = "docker" /\ box'[p].venv = box[p].venv
  BY <1>1, <1>3 DEF BoxInv, Boxed, IsBox
<1>5. Boxed(p)' /\ Honest(p)' /\ Copied(p)' /\ Saved(p)'
  BY <1>1, <1>3, <1>4 DEF BoxInv, Boxed, Honest, Ready, Copied, Saved, Resting
<1>6. Own(p)'
  BY <1>1, <1>3, <1>4 DEF BoxInv, Boxed, Own
<1>7. Contained(p)'
  BY <1>1, <1>3, <1>4 DEF StageInv, Contained, Entered, InSandbox
<1> QED
  BY <1>1, <1>2, <1>5, <1>6, <1>7, EnteringStep DEF BoxInv, Entered, InSandbox

LEMMA NpmInstallKeeps ==
    ASSUME IInv, NEW p \in Procs, NpmInstall(p), UNCHANGED stageVars
    PROVE  IInv'
<1>1. /\ at[p] = "node" /\ at'[p] = "checking" /\ todo' = todo /\ job' = job
      /\ \E d : box'[p] = [box[p] EXCEPT !.where = "local", !.deps = d]
  BY DEF NpmInstall, Goto, Box, IInv, Shapes
<1>2. Quiet(p)
  BY DEF NpmInstall, Goto, Box, cacheVars, stageVars, Quiet, CacheStill, Others, SameStage, SameBox,
         IInv, Shapes
<1>3. StageInv(p) /\ BoxInv(p)
  BY DEF IInv
<1>4. IsBox(box'[p]) /\ box'[p].where = "local" /\ box'[p].venv = box[p].venv
      /\ box'[p].hit = box[p].hit
  BY <1>1, <1>3 DEF BoxInv, Boxed, IsBox
<1>5. ~UsesDocker(job[p]) /\ ProjectType(job[p].has) = "node"
  BY <1>1, <1>3 DEF StageInv, Contained, InSandbox
<1>6. Boxed(p)' /\ Honest(p)' /\ Copied(p)' /\ Saved(p)'
  BY <1>1, <1>3, <1>4, <1>5 DEF BoxInv, Boxed, Honest, Ready, Copied, Saved, Resting
<1>7. Own(p)'
  BY <1>1, <1>3, <1>4 DEF BoxInv, Own
<1>8. Contained(p)'
  BY <1>1, <1>4, <1>5 DEF Contained, Entered, InSandbox
<1> QED
  BY <1>1, <1>2, <1>6, <1>7, <1>8, EnteringStep DEF BoxInv, Entered, InSandbox

\* The copy begins with everything to come, and with an excuse unless the entry is whole
\* and nobody is at it.
LEMMA LookupKeeps ==
    ASSUME IInv, NEW p \in Procs, Lookup(p), UNCHANGED stageVars
    PROVE  IInv'
<1> DEFINE key == Key(job[p])
<1>1. /\ at[p] = "lookup" /\ job' = job /\ box' = box
      /\ at'[p] = IF Hit(job[p]) THEN "copying" ELSE "create"
      /\ seen'[p] = IF Hit(job[p]) THEN venvs[key] ELSE {}
      /\ todo'[p] = IF Hit(job[p]) THEN Kinds(key) ELSE {}
      /\ Hit(job[p]) /\ ~excused'[p] => Whole(key, venvs[key]) /\ key \notin evicting
      /\ venvs' = venvs /\ evicting' = evicting
  BY DEF Lookup, Goto, cacheVars, IInv, Shapes
<1>2. Quiet(p)
  BY DEF Lookup, Goto, cacheVars, stageVars, Quiet, CacheStill, Others, SameStage, SameBox, IInv,
         Shapes
<1>3. StageInv(p) /\ BoxInv(p)
  BY DEF IInv
<1>4. todo'[p] \subseteq Pieces
  BY <1>1 DEF Kinds, Pieces
<1>5. Boxed(p)'
  BY <1>1, <1>3, <1>4 DEF BoxInv, Boxed, Resting
<1>6. Own(p)' /\ Honest(p)' /\ Saved(p)'
  BY <1>1, <1>3 DEF BoxInv, Boxed, Own, Honest, Ready, Saved
<1>7. Copied(p)'
  <2> SUFFICES ASSUME Hit(job[p]), ~excused'[p]
               PROVE  /\ key \in DOMAIN venvs /\ key \notin evicting /\ Whole(key, venvs[key])
                      /\ box[p].venv = {piece \in venvs[key] : piece.what \notin Kinds(key)}
    BY <1>1 DEF Copied
  <2>1. key \in DOMAIN venvs /\ key \notin evicting /\ Whole(key, venvs[key])
    BY <1>1 DEF Hit
  <2>2. \A piece \in venvs[key] : piece.what \in Kinds(key)
    BY <2>1 DEF Whole, PiecesOf
  <2>3. box[p].venv = {}
    BY <1>1, <1>3 DEF BoxInv, Boxed
  <2> QED  BY <2>1, <2>2, <2>3
<1>8. Contained(p)'
  BY <1>1, <1>3 DEF StageInv, Contained, Entered, InSandbox
<1>9. BoxInv(p)'
  BY <1>5, <1>6, <1>7 DEF BoxInv
<1> QED
  BY <1>1, <1>2, <1>8, <1>9, EnteringStep DEF Entered, InSandbox

LEMMA CopyPieceKeeps ==
    ASSUME IInv, NEW p \in Procs, CopyPiece(p), UNCHANGED stageVars
    PROVE  IInv'
<1> DEFINE key == Key(job[p])
<1>1. PICK what \in todo[p] :
        /\ todo'[p] = todo[p] \ {what}
        /\ box'[p] = [box[p] EXCEPT !.venv = @ \cup {piece \in Entry(p) : piece.what = what}]
  BY DEF CopyPiece, Box, IInv, Shapes
<1>2. /\ at[p] = "copying" /\ at' = at /\ job' = job /\ seen' = seen /\ excused' = excused
      /\ venvs' = venvs /\ evicting' = evicting
  BY DEF CopyPiece, cacheVars
<1>3. Quiet(p)
  BY DEF CopyPiece, Box, cacheVars, stageVars, Quiet, CacheStill, Others, SameStage, SameBox, IInv,
         Shapes
<1>4. StageInv(p) /\ BoxInv(p)
  BY DEF IInv
<1>5. /\ IsBox(box'[p]) /\ box'[p].deps = box[p].deps /\ box'[p].hit = box[p].hit
      /\ box'[p].venv = box[p].venv \cup {piece \in Entry(p) : piece.what = what}
  BY <1>1, <1>4 DEF BoxInv, Boxed, IsBox
<1>6. Boxed(p)'
  BY <1>1, <1>2, <1>4, <1>5 DEF BoxInv, Boxed, Resting
<1>7. Own(p)'
  <2>1. ASSUME NEW piece \in Entry(p)
        PROVE  /\ piece.what \in Pieces
               /\ piece.what = "deps" => piece.of = job[p].deps /\ DepsFile(job[p].has) # "no-deps"
    <3>1. key \in DOMAIN venvs /\ piece \in venvs[key]
      BY <2>1 DEF Entry
    <3> QED
      BY <3>1, KeyIs DEF IInv, CacheInv, Filed
  <2> QED
    BY <2>1, <1>2, <1>4, <1>5 DEF BoxInv, Own
<1>8. Honest(p)' /\ Saved(p)'
  BY <1>2 DEF Honest, Ready, Saved
<1>9. Copied(p)'
  <2> SUFFICES ASSUME ~excused[p]
               PROVE  /\ key \in DOMAIN venvs /\ key \notin evicting
                      /\ venvs[key] = seen[p] /\ Whole(key, seen[p])
                      /\ box'[p].venv = {piece \in seen[p] : piece.what \notin todo'[p]}
    BY <1>2 DEF Copied
  <2>1. /\ key \in DOMAIN venvs /\ key \notin evicting
        /\ venvs[key] = seen[p] /\ Whole(key, seen[p])
        /\ box[p].venv = {piece \in seen[p] : piece.what \notin todo[p]}
    BY <1>2, <1>4 DEF BoxInv, Copied
  <2>2. Entry(p) = seen[p]
    BY <2>1 DEF Entry
  <2> QED
    BY <2>1, <2>2, <1>1, <1>5
<1>10. Contained(p)'
  BY <1>2, <1>4 DEF StageInv, Contained, Entered, InSandbox
<1>11. BoxInv(p)'
  BY <1>6, <1>7, <1>8, <1>9 DEF BoxInv
<1> QED
  BY <1>2, <1>3, <1>10, <1>11, EnteringStep DEF Entered, InSandbox

LEMMA CopyEndsKeeps ==
    ASSUME IInv, NEW p \in Procs, CopyEnds(p), UNCHANGED stageVars
    PROVE  IInv'
<1>1. /\ at[p] = "copying" /\ at'[p] = "checking" /\ todo[p] = {} /\ todo' = todo
      /\ box'[p] = [box[p] EXCEPT !.where = "local", !.hit = TRUE, !.deps = TRUE]
      /\ job' = job /\ excused' = excused
  BY DEF CopyEnds, Goto, Box, IInv, Shapes
<1>2. Quiet(p)
  BY DEF CopyEnds, Goto, Box, cacheVars, stageVars, Quiet, CacheStill, Others, SameStage, SameBox,
         IInv, Shapes
<1>3. StageInv(p) /\ BoxInv(p)
  BY DEF IInv
<1>4. /\ IsBox(box'[p]) /\ box'[p].where = "local" /\ box'[p].venv = box[p].venv
      /\ box'[p].hit = TRUE
  BY <1>1, <1>3 DEF BoxInv, Boxed, IsBox
<1>5. Boxed(p)' /\ Copied(p)' /\ Saved(p)'
  BY <1>1, <1>3, <1>4 DEF BoxInv, Boxed, Copied, Saved, Resting
<1>6. Own(p)'
  BY <1>1, <1>3, <1>4 DEF BoxInv, Own
<1>7. Honest(p)'
  <2>1. ~excused[p] => Whole(Key(job[p]), box[p].venv)
    <3>1. SUFFICES ASSUME ~excused[p] PROVE Whole(Key(job[p]), box[p].venv)
      OBVIOUS
    <3>2. /\ Whole(Key(job[p]), seen[p])
          /\ box[p].venv = {piece \in seen[p] : piece.what \notin todo[p]}
      BY <3>1, <1>1, <1>3 DEF BoxInv, Copied
    <3>3. box[p].venv = seen[p]
      BY <3>2, <1>1
    <3> QED  BY <3>2, <3>3
  <2> QED
    BY <2>1, <1>1, <1>4 DEF Honest
<1>8. Contained(p)'
  BY <1>1, <1>3, <1>4 DEF StageInv, Contained, Entered, InSandbox
<1> QED
  BY <1>1, <1>2, <1>5, <1>6, <1>7, <1>8, EnteringStep DEF BoxInv, Entered, InSandbox

LEMMA CreateVenvKeeps ==
    ASSUME IInv, NEW p \in Procs, CreateVenv(p), UNCHANGED stageVars
    PROVE  IInv'
<1>1. /\ at[p] = "create" /\ at'[p] \in {"install", "save"} /\ todo' = todo /\ job' = job
      /\ box'[p] = [box[p] EXCEPT !.venv = {Python}]
  BY DEF CreateVenv, Goto, Box, IInv, Shapes
<1>2. Quiet(p)
  BY DEF CreateVenv, Goto, Box, cacheVars, stageVars, Quiet, CacheStill, Others, SameStage, SameBox,
         IInv, Shapes
<1>3. StageInv(p) /\ BoxInv(p)
  BY DEF IInv
<1>4. /\ IsBox(box'[p]) /\ box'[p].venv = {Python} /\ ~box'[p].deps /\ ~box'[p].hit
  BY <1>1, <1>3 DEF BoxInv, Boxed, IsBox
<1>5. Boxed(p)' /\ Honest(p)' /\ Copied(p)' /\ Saved(p)'
  BY <1>1, <1>3, <1>4 DEF BoxInv, Boxed, Honest, Ready, Copied, Saved, Resting
<1>6. Own(p)'
  BY <1>4 DEF Own, Python, Piece, Pieces
<1>7. Contained(p)'
  BY <1>1, <1>3 DEF StageInv, Contained, Entered, InSandbox
<1> QED
  BY <1>1, <1>2, <1>5, <1>6, <1>7, EnteringStep DEF BoxInv, Entered, InSandbox

LEMMA CreateFailsKeeps ==
    ASSUME IInv, NEW p \in Procs, CreateFails(p), UNCHANGED stageVars
    PROVE  IInv'
<1>1. /\ at[p] = "create" /\ at'[p] = "checking" /\ todo' = todo /\ job' = job
      /\ box'[p] = [box[p] EXCEPT !.where = "local"]
  BY DEF CreateFails, Goto, Box, IInv, Shapes
<1>2. Quiet(p)
  BY DEF CreateFails, Goto, Box, cacheVars, stageVars, Quiet, CacheStill, Others, SameStage, SameBox,
         IInv, Shapes
<1>3. StageInv(p) /\ BoxInv(p)
  BY DEF IInv
<1>4. /\ IsBox(box'[p]) /\ box'[p].venv = {} /\ ~box'[p].deps /\ ~box'[p].hit
      /\ box'[p].where = "local"
  BY <1>1, <1>3 DEF BoxInv, Boxed, IsBox
<1>5. Boxed(p)' /\ Own(p)' /\ Honest(p)' /\ Copied(p)' /\ Saved(p)'
  BY <1>1, <1>3, <1>4 DEF BoxInv, Boxed, Own, Honest, Ready, Copied, Saved, Resting
<1>6. Contained(p)'
  BY <1>1, <1>3, <1>4 DEF StageInv, Contained, Entered, InSandbox
<1> QED
  BY <1>1, <1>2, <1>5, <1>6, EnteringStep DEF BoxInv, Entered, InSandbox

\* pip installed all of it and the flag says so, or a part of it and the flag does not.
LEMMA InstallsKeep ==
    ASSUME IInv, NEW p \in Procs, Install(p) \/ InstallFails(p), UNCHANGED stageVars
    PROVE  IInv'
<1>1. /\ at[p] = "install" /\ at'[p] = "save" /\ todo' = todo /\ job' = job
  BY DEF Install, InstallFails, Goto, IInv, Shapes
<1>2. Quiet(p)
  BY DEF Install, InstallFails, Goto, Box, cacheVars, stageVars, Quiet, CacheStill, Others,
         SameStage, SameBox, IInv, Shapes
<1>3. StageInv(p) /\ BoxInv(p) /\ IsBox(box[p]) /\ box[p].venv = {Python} /\ ~box[p].deps
      /\ ~box[p].hit
  BY <1>1 DEF IInv, BoxInv, Boxed
<1>4. /\ IsBox(box'[p]) /\ ~box'[p].hit
      /\ box'[p].venv \subseteq {Python} \cup Installed(p, job[p])
      /\ box'[p].deps => Whole(Key(job[p]), box'[p].venv)
  <2>1. CASE Install(p)
    <3>1. box'[p] = [box[p] EXCEPT !.venv = @ \cup Installed(p, job[p]),
                                   !.deps = DepsFile(job[p].has) # "no-deps"]
      BY <2>1 DEF Install, Box, IInv, Shapes
    <3>2. /\ IsBox(box'[p]) /\ ~box'[p].hit
          /\ box'[p].venv = {Python} \cup Installed(p, job[p])
          /\ box'[p].deps = (DepsFile(job[p].has) # "no-deps")
      BY <3>1, <1>3 DEF IsBox
    <3> QED
      BY <3>2, InstallCompletes
  <2>2. CASE InstallFails(p)
    <3>1. PICK some \in SUBSET Installed(p, job[p]) :
            box'[p] = [box[p] EXCEPT !.venv = @ \cup some]
      BY <2>2 DEF InstallFails, Box, IInv, Shapes
    <3>2. /\ IsBox(box'[p]) /\ ~box'[p].hit /\ box'[p].venv = {Python} \cup some
          /\ ~box'[p].deps
      BY <3>1, <1>3 DEF IsBox
    <3> QED
      BY <3>2
  <2> QED  BY <2>1, <2>2
<1>5. Boxed(p)' /\ Honest(p)' /\ Copied(p)' /\ Saved(p)'
  BY <1>1, <1>3, <1>4 DEF BoxInv, Boxed, Honest, Ready, Copied, Saved, Resting
<1>6. Own(p)'
  BY <1>1, <1>4, InstalledIsOwn DEF Own
<1>7. Contained(p)'
  BY <1>1, <1>3 DEF StageInv, Contained, Entered, InSandbox
<1> QED
  BY <1>1, <1>2, <1>5, <1>6, <1>7, EnteringStep DEF BoxInv, Entered, InSandbox

\* The save is skipped, done or given up: the sandbox is as it was, and an entry that this
\* process leaves is whole, or known to be short.
LEMMA SavesEnd ==
    ASSUME IInv, NEW p \in Procs, SaveSkipped(p) \/ SaveEnds(p) \/ SaveFails(p),
           UNCHANGED stageVars
    PROVE  IInv'
<1>1. /\ at[p] \in {"save", "saving"} /\ at'[p] = "checking" /\ job' = job /\ excused' = excused
      /\ box'[p] = [box[p] EXCEPT !.where = "local"] /\ todo'[p] \subseteq todo[p]
  BY DEF SaveSkipped, SaveEnds, SaveFails, Goto, Box, IInv, Shapes
<1>2. Quiet(p)
  BY DEF SaveSkipped, SaveEnds, SaveFails, Goto, Box, cacheVars, stageVars, Quiet, CacheStill, Others,
         SameStage, SameBox, IInv, Shapes
<1>3. StageInv(p) /\ BoxInv(p)
  BY DEF IInv
<1>4. /\ IsBox(box'[p]) /\ box'[p].where = "local" /\ box'[p].venv = box[p].venv
      /\ box'[p].deps = box[p].deps /\ box'[p].hit = box[p].hit
  BY <1>1, <1>3 DEF BoxInv, Boxed, IsBox
<1>5. Boxed(p)' /\ Copied(p)' /\ Saved(p)'
  BY <1>1, <1>3, <1>4 DEF BoxInv, Boxed, Copied, Saved, Resting
<1>6. Own(p)'
  BY <1>1, <1>3, <1>4 DEF BoxInv, Own
<1>7. Honest(p)'
  BY <1>1, <1>3, <1>4 DEF BoxInv, Honest
<1>8. Contained(p)'
  BY <1>1, <1>3, <1>4 DEF StageInv, Contained, Entered, InSandbox
<1>9. ASSUME at[p] = "saving"
      PROVE  Whole(Key(job[p]), venvs[Key(job[p])]) \/ Key(job[p]) \in short'
  <2>1. /\ venvs[Key(job[p])] = {piece \in box[p].venv : piece.what \notin todo[p]}
        /\ Whole(Key(job[p]), box[p].venv) \/ Key(job[p]) \in short
    BY <1>3, <1>9 DEF BoxInv, Saved
  <2>2. CASE SaveEnds(p)
    <3>1. todo[p] = {} /\ short' = short
      BY <2>2 DEF SaveEnds, cacheVars
    <3>2. venvs[Key(job[p])] = box[p].venv
      BY <2>1, <3>1
    <3> QED  BY <2>1, <3>1, <3>2
  <2>3. CASE SaveFails(p)
    BY <2>3 DEF SaveFails
  <2> QED  BY <2>2, <2>3, <1>9 DEF SaveSkipped, Goto
<1> QED
  BY <1>1, <1>2, <1>5, <1>6, <1>7, <1>8, <1>9, EnteringStep DEF BoxInv, Entered, InSandbox

-----------------------------------------------------------------------------
(***************************************************************************)
(* The steps that write the cache.                                         *)
(***************************************************************************)
\* An entry appears: nobody copied it, saved it or evicted it.
LEMMA StartSaveKeeps ==
    ASSUME IInv, NEW p \in Procs, StartSave(p), UNCHANGED stageVars
    PROVE  IInv'
<1> DEFINE key == Key(job[p])
<1>1. /\ at[p] = "save" /\ at'[p] = "saving" /\ key \notin DOMAIN venvs
      /\ todo'[p] = PiecesOf(box[p].venv) /\ venvs' = Put(venvs, key, {})
      /\ short \subseteq short' /\ (Whole(key, box[p].venv) \/ key \in short')
      /\ UNCHANGED <<job, box, seen, excused, evicting>>
  BY DEF StartSave, Goto, IInv, Shapes
<1>2. Others(p) /\ Shapes'
  BY DEF StartSave, Goto, stageVars, Others, SameStage, SameBox, IInv, Shapes
<1>3. /\ DOMAIN venvs' = DOMAIN venvs \cup {key} /\ venvs'[key] = {}
      /\ \A k \in DOMAIN venvs : venvs'[k] = venvs[k]
  BY <1>1 DEF Put
<1>4. StageInv(p) /\ BoxInv(p)
  BY DEF IInv
<1>5. StageInv(p)'
  <2>1. Contained(p)'
    BY <1>1, <1>4 DEF StageInv, Contained, Entered, InSandbox
  <2> QED
    BY <1>1, <2>1, EnteringStage DEF Entered, InSandbox
<1>6. key \notin evicting
  BY <1>1 DEF IInv, CacheInv, Evicting
<1>7. BoxInv(p)'
  <2>1. todo'[p] \subseteq Pieces
    BY <1>1, <1>4 DEF BoxInv, Own, PiecesOf
  <2>2. Boxed(p)'
    BY <1>1, <1>4, <2>1 DEF BoxInv, Boxed, Resting
  <2>3. Own(p)' /\ Honest(p)' /\ Copied(p)'
    BY <1>1, <1>4 DEF BoxInv, Own, Honest, Ready, Copied
  <2>4. Saved(p)'
    <3>1. \A piece \in box[p].venv : piece.what \in todo'[p]
      BY <1>1 DEF PiecesOf
    <3>2. {piece \in box[p].venv : piece.what \notin todo'[p]} = {}
      BY <3>1
    <3> QED
      BY <1>1, <1>3, <1>6, <3>2 DEF Saved
  <2> QED  BY <2>2, <2>3, <2>4 DEF BoxInv
<1>8. ASSUME NEW q \in Procs \ {p} PROVE StageInv(q)' /\ BoxInv(q)'
  <2>1. SameStage(q) /\ SameBox(q) /\ StageInv(q) /\ BoxInv(q)
    BY <1>2 DEF Others, IInv
  <2>2. StageInv(q)' /\ Boxed(q)' /\ Own(q)' /\ Honest(q)'
    BY <2>1, <1>1, StageKept, SandboxKept DEF BoxInv, SameBox
  <2>3. Copied(q)'
    BY <2>1, <1>1, <1>3 DEF BoxInv, SameBox, Copied
  <2>4. Saved(q)'
    BY <2>1, <1>1, <1>3 DEF BoxInv, SameBox, Saved
  <2> QED  BY <2>2, <2>3, <2>4 DEF BoxInv
<1>9. OneSaver'
  <2>1. ASSUME NEW q \in Procs \ {p}, at'[q] = "saving" PROVE Key(job[q]) # key
    BY <2>1, <1>1, <1>2 DEF Others, SameBox, IInv, BoxInv, Saved
  <2> QED
    BY <2>1, <1>1, <1>2 DEF Others, SameBox, IInv, CacheInv, OneSaver
<1>10. Evicting' /\ Filed'
  BY <1>1, <1>3 DEF IInv, CacheInv, Evicting, Filed
<1>11. Accounted'
  <2>1. Saving(key)'
    BY <1>1 DEF Saving
  <2>2. ASSUME NEW k \in DOMAIN venvs PROVE Saving(k) => Saving(k)'
    BY <1>1, <1>2 DEF Saving, Others, SameBox
  <2> QED
    BY <2>1, <2>2, <1>1, <1>3 DEF IInv, CacheInv, Accounted
<1> QED
  BY <1>2, <1>5, <1>7, <1>8, <1>9, <1>10, <1>11 DEF IInv, CacheInv

\* What a change of one entry leaves of a process: a copy of that entry is excused.
LEMMA DisturbedKeeps ==
    ASSUME IInv, NEW key, Disturb(key), NEW q \in Procs,
           UNCHANGED <<at, box, job, seen, stageVars>>, todo'[q] = todo[q],
           \A k \in DOMAIN venvs \ {key} : k \in DOMAIN venvs' /\ venvs'[k] = venvs[k],
           \A k \in DOMAIN venvs \ {key} : k \in evicting' => k \in evicting,
           \A k \in DOMAIN venvs \ {key} : k \in short => k \in short',
           at[q] = "saving" => Key(job[q]) # key
    PROVE  StageInv(q)' /\ BoxInv(q)'
<1>1. StageInv(q) /\ BoxInv(q)
  BY DEF IInv
<1>2. excused'[q] = (excused[q] \/ (at[q] = "copying" /\ Key(job[q]) = key))
  BY DEF Disturb
<1>3. StageInv(q)'
  BY <1>1, StageKept DEF SameStage, stageVars
<1>4. Boxed(q)' /\ Own(q)'
  BY <1>1 DEF BoxInv, Boxed, Own
<1>5. Honest(q)'
  <2>1. box[q].hit /\ excused[q] => box[q].hit /\ excused'[q]
    BY <1>2
  <2> QED
    BY <1>1, <2>1 DEF BoxInv, Honest, Ready
<1>6. Copied(q)'
  BY <1>1, <1>2 DEF BoxInv, Copied
<1>7. Saved(q)'
  BY <1>1 DEF BoxInv, Saved
<1> QED
  BY <1>3, <1>4, <1>5, <1>6, <1>7 DEF BoxInv

LEMMA SavePieceKeeps ==
    ASSUME IInv, NEW p \in Procs, SavePiece(p), UNCHANGED stageVars
    PROVE  IInv'
<1> DEFINE key == Key(job[p])
<1>1. PICK what \in todo[p] :
        /\ todo' = [todo EXCEPT ![p] = @ \ {what}]
        /\ venvs' = [venvs EXCEPT ![key] = @ \cup {piece \in box[p].venv : piece.what = what}]
  BY DEF SavePiece
<1>2. /\ at[p] = "saving" /\ Disturb(key)
      /\ UNCHANGED <<at, box, job, seen, evicting, short>>
  BY DEF SavePiece
<1>3. StageInv(p) /\ BoxInv(p)
  BY DEF IInv
<1>4. /\ key \in DOMAIN venvs /\ key \notin evicting
      /\ venvs[key] = {piece \in box[p].venv : piece.what \notin todo[p]}
      /\ Whole(key, box[p].venv) \/ key \in short
  BY <1>2, <1>3 DEF BoxInv, Saved
<1>5. /\ DOMAIN venvs' = DOMAIN venvs /\ \A k \in DOMAIN venvs \ {key} : venvs'[k] = venvs[k]
      /\ venvs'[key] = venvs[key] \cup {piece \in box[p].venv : piece.what = what}
  BY <1>1, <1>4
<1>6. Shapes'
  BY <1>1, <1>2 DEF IInv, Shapes, Disturb, stageVars
<1>7. ASSUME NEW q \in Procs \ {p} PROVE StageInv(q)' /\ BoxInv(q)'
  <2>1. todo'[q] = todo[q]
    BY <1>1 DEF IInv, Shapes
  <2>2. at[q] = "saving" => Key(job[q]) # key
    BY <1>2 DEF IInv, CacheInv, OneSaver
  <2> QED
    BY <2>1, <2>2, <1>2, <1>5, DisturbedKeeps
<1>8. StageInv(p)'
  BY <1>2, <1>3, StageKept DEF SameStage, stageVars
<1>9. BoxInv(p)'
  <2>1. todo'[p] = todo[p] \ {what}
    BY <1>1 DEF IInv, Shapes
  <2>2. Boxed(p)' /\ Own(p)' /\ Copied(p)'
    BY <2>1, <1>2, <1>3 DEF BoxInv, Boxed, Own, Copied
  <2>3. Honest(p)'
    <3>1. ~box[p].hit
      BY <1>2, <1>3 DEF BoxInv, Boxed
    <3> QED
      BY <3>1, <1>2, <1>3 DEF BoxInv, Honest, Ready
  <2>4. venvs'[key] = {piece \in box[p].venv : piece.what \notin todo'[p]}
    BY <2>1, <1>4, <1>5
  <2>5. Saved(p)'
    BY <2>4, <1>2, <1>4, <1>5 DEF Saved
  <2> QED  BY <2>2, <2>3, <2>5 DEF BoxInv
<1>10. OneSaver' /\ Evicting'
  BY <1>2, <1>5 DEF IInv, CacheInv, OneSaver, Evicting
<1>11. Filed'
  <2>1. ASSUME NEW piece \in box[p].venv
        PROVE  /\ piece.what \in Pieces
               /\ piece.what = "deps" => key.spec # "no-deps" /\ piece.of = key.deps
    BY <1>3, KeyIs DEF BoxInv, Own
  <2>2. ASSUME NEW k \in DOMAIN venvs, NEW piece \in venvs'[k]
        PROVE  piece \in venvs[k] \/ (k = key /\ piece \in box[p].venv)
    BY <1>5
  <2> QED
    BY <2>1, <2>2, <1>5 DEF IInv, CacheInv, Filed
<1>12. Accounted'
  <2>1. \A k \in DOMAIN venvs : Saving(k)' = Saving(k)
    BY <1>2 DEF Saving
  <2>2. Saving(key)
    BY <1>2 DEF Saving
  <2> QED
    BY <2>1, <2>2, <1>2, <1>5 DEF IInv, CacheInv, Accounted
<1> QED
  BY <1>6, <1>7, <1>8, <1>9, <1>10, <1>11, <1>12 DEF IInv, CacheInv

LEMMA StartEvictionKeeps ==
    ASSUME IInv, StartEviction, UNCHANGED stageVars
    PROVE  IInv'
<1>1. PICK key \in DOMAIN venvs : ~Saving(key) /\ evicting' = {key} /\ Disturb(key)
  BY DEF StartEviction
<1>2. UNCHANGED <<venvs, short, job, box, todo, seen, at>>
  BY DEF StartEviction
<1>3. ASSUME NEW q \in Procs PROVE StageInv(q)' /\ BoxInv(q)'
  <2>1. at[q] = "saving" => Key(job[q]) # key
    BY <1>1 DEF Saving
  <2> QED
    BY <2>1, <1>1, <1>2, DisturbedKeeps
<1>4. Shapes'
  BY <1>1, <1>2 DEF IInv, Shapes, Disturb, stageVars
<1>5. OneSaver' /\ Evicting' /\ Filed'
  BY <1>1, <1>2 DEF IInv, CacheInv, OneSaver, Evicting, Filed
<1>6. Accounted'
  <2>1. \A k \in DOMAIN venvs : Saving(k)' = Saving(k)
    BY <1>2 DEF Saving
  <2>2. evicting = {}
    BY DEF StartEviction
  <2> QED
    BY <2>1, <2>2, <1>1, <1>2 DEF IInv, CacheInv, Accounted
<1> QED
  BY <1>3, <1>4, <1>5, <1>6 DEF IInv, CacheInv

LEMMA EvictPieceKeeps ==
    ASSUME IInv, EvictPiece, UNCHANGED stageVars
    PROVE  IInv'
<1>1. PICK key \in evicting \cap DOMAIN venvs : \E piece \in venvs[key] :
        venvs' = [venvs EXCEPT ![key] = @ \ {piece}] /\ Disturb(key)
  BY DEF EvictPiece
<1>2. UNCHANGED <<evicting, short, job, box, todo, seen, at>>
  BY DEF EvictPiece
<1>3. /\ DOMAIN venvs' = DOMAIN venvs /\ \A k \in DOMAIN venvs \ {key} : venvs'[k] = venvs[k]
      /\ venvs'[key] \subseteq venvs[key]
  BY <1>1
<1>4. ASSUME NEW q \in Procs PROVE StageInv(q)' /\ BoxInv(q)'
  <2>1. at[q] = "saving" => Key(job[q]) # key
    BY <1>1 DEF IInv, BoxInv, Saved
  <2> QED
    BY <2>1, <1>1, <1>2, <1>3, DisturbedKeeps
<1>5. Shapes'
  BY <1>1, <1>2 DEF IInv, Shapes, Disturb, stageVars
<1>6. OneSaver' /\ Evicting' /\ Filed'
  BY <1>2, <1>3 DEF IInv, CacheInv, OneSaver, Evicting, Filed
<1>7. Accounted'
  <2>1. \A k \in DOMAIN venvs : Saving(k)' = Saving(k)
    BY <1>2 DEF Saving
  <2> QED
    BY <2>1, <1>1, <1>2, <1>3 DEF IInv, CacheInv, Accounted
<1> QED
  BY <1>4, <1>5, <1>6, <1>7 DEF IInv, CacheInv

\* A copy of the entry that is evicted is excused already, so the end disturbs nobody.
LEMMA EvictionEndsKeeps ==
    ASSUME IInv, EvictionEnds, UNCHANGED stageVars
    PROVE  IInv'
<1>1. PICK key \in evicting :
        /\ venvs' = IF venvs[key] = {} THEN [k \in DOMAIN venvs \ {key} |-> venvs[k]] ELSE venvs
        /\ short' = IF venvs[key] = {} THEN short \ {key} ELSE short \cup {key}
  BY DEF EvictionEnds
<1>2. evicting' = {} /\ UNCHANGED <<job, box, todo, seen, excused, at>>
  BY DEF EvictionEnds, procVars
<1>3. evicting = {key} /\ key \in DOMAIN venvs
  BY <1>1 DEF IInv, CacheInv, Evicting
<1>4. /\ DOMAIN venvs' \subseteq DOMAIN venvs
      /\ \A k \in DOMAIN venvs \ {key} : k \in DOMAIN venvs' /\ venvs'[k] = venvs[k]
      /\ \A k \in DOMAIN venvs \ {key} : k \in short' <=> k \in short
      /\ key \in DOMAIN venvs' => venvs'[key] = venvs[key] /\ key \in short'
  BY <1>1
<1>5. ASSUME NEW q \in Procs PROVE StageInv(q)' /\ BoxInv(q)'
  <2>1. StageInv(q) /\ BoxInv(q)
    BY DEF IInv
  <2>2. StageInv(q)'
    BY <2>1, <1>2, StageKept DEF SameStage, stageVars
  <2>3. Boxed(q)' /\ Own(q)' /\ Honest(q)'
    BY <2>1, <1>2, SandboxKept DEF BoxInv
  <2>4. Copied(q)'
    BY <2>1, <1>2, <1>3, <1>4 DEF BoxInv, Copied
  <2>5. Saved(q)'
    BY <2>1, <1>2, <1>3, <1>4 DEF BoxInv, Saved
  <2> QED  BY <2>2, <2>3, <2>4, <2>5 DEF BoxInv
<1>6. Shapes'
  BY <1>2 DEF IInv, Shapes, stageVars
<1>7. OneSaver' /\ Evicting' /\ Filed'
  BY <1>2, <1>4 DEF IInv, CacheInv, OneSaver, Evicting, Filed
<1>8. Accounted'
  <2>1. \A k \in DOMAIN venvs : Saving(k)' = Saving(k)
    BY <1>2 DEF Saving
  <2> QED
    BY <2>1, <1>2, <1>3, <1>4 DEF IInv, CacheInv, Accounted
<1> QED
  BY <1>5, <1>6, <1>7, <1>8 DEF IInv, CacheInv

-----------------------------------------------------------------------------
(***************************************************************************)
(* Every step.                                                             *)
(***************************************************************************)
LEMMA EnteringKeeps ==
    ASSUME IInv, NEW p \in Procs, Entering(p), UNCHANGED stageVars
    PROVE  IInv'
<1>1. CASE CopyProject(p) \/ DockerReady(p) \/ NpmInstall(p) \/ Lookup(p)
  BY <1>1, CopyProjectKeeps, DockerReadyKeeps, NpmInstallKeeps, LookupKeeps
<1>2. CASE EnterFails(p, "enter") \/ DockerFails(p) \/ CopyFails(p)
  BY <1>2, EnterFailsKeeps DEF DockerFails, CopyFails, Entered, InSandbox
<1>3. CASE CopyPiece(p) \/ CopyEnds(p) \/ CreateVenv(p) \/ CreateFails(p)
  BY <1>3, CopyPieceKeeps, CopyEndsKeeps, CreateVenvKeeps, CreateFailsKeeps
<1>4. CASE Install(p) \/ InstallFails(p) \/ SaveSkipped(p) \/ SaveEnds(p) \/ SaveFails(p)
  BY <1>4, InstallsKeep, SavesEnd
<1>5. CASE StartSave(p) \/ SavePiece(p)
  BY <1>5, StartSaveKeeps, SavePieceKeeps
<1> QED
  BY <1>1, <1>2, <1>3, <1>4, <1>5 DEF Entering

LEMMA CrashKeeps ==
    ASSUME IInv, NEW p \in Procs, Crash(p)
    PROVE  IInv'
<1>1. short \subseteq short' /\ (at[p] = "saving" => Key(job[p]) \in short')
  BY DEF Crash, CutShort
<1> QED
  BY <1>1, FailedKeeps DEF Crash

LEMMA RunCheckRaisesKeeps ==
    ASSUME IInv, NEW p \in Procs, RunCheckRaises(p)
    PROVE  IInv'
BY FailedKeeps DEF RunCheckRaises, Goto, cacheVars, Working

LEMMA InvStep == IInv /\ [Next]_vars => IInv'
<1> SUFFICES ASSUME IInv, [Next]_vars PROVE IInv'
  OBVIOUS
<1>1. ASSUME NEW p \in Procs, Stage(p) PROVE IInv'
  BY <1>1, AbortedKeeps, ChooseChecksKeeps, EnteringKeeps, RunCheckKeeps, RunCheckRaisesKeeps,
     ChecksEndKeeps, CheckContractKeeps, VerdictKeeps
  DEF Stage, SandboxStep
<1>2. ASSUME NEW p \in Procs, Execute(p) \/ Decide(p) \/ Crash(p) PROVE IInv'
  BY <1>2, ExecuteKeeps, DecideKeeps, CrashKeeps
<1>3. CASE Evict /\ UNCHANGED stageVars
  BY <1>3, StartEvictionKeeps, EvictPieceKeeps, EvictionEndsKeeps DEF Evict
<1>4. CASE UNCHANGED vars
  <2>1. ASSUME NEW q \in Procs PROVE StageInv(q)' /\ BoxInv(q)'
    BY <1>4, StageKept, BoxKept
    DEF vars, sandboxVars, cacheVars, procVars, stageVars, SameStage, SameBox, CacheStill, IInv
  <2>2. Shapes' /\ OneSaver' /\ Evicting' /\ Filed'
    BY <1>4
    DEF vars, sandboxVars, cacheVars, procVars, stageVars, Shapes, OneSaver, Evicting, Filed, IInv,
        CacheInv
  <2>3. Accounted'
    BY <1>4 DEF vars, sandboxVars, cacheVars, procVars, Accounted, Saving, IInv, CacheInv
  <2> QED  BY <2>1, <2>2, <2>3 DEF IInv, CacheInv
<1> QED
  BY <1>1, <1>2, <1>3, <1>4 DEF Next

LEMMA InvAlways == Spec => []IInv
<1> QED
  BY InvInit, InvStep, PTL DEF Spec

-----------------------------------------------------------------------------
(***************************************************************************)
(* The theorems.                                                           *)
(***************************************************************************)
\* Whatever other runs do to the cache, a process that does not work holds no workspace,
\* records are of executions there were, and one entry at most is evicted at a time.
THEOREM TypeCorrect == Spec => []TypeOK
<1>1. IInv => TypeOK
  <2> SUFFICES ASSUME IInv PROVE TypeOK
    OBVIOUS
  <2>1. Cardinality(evicting) <= 1 /\ evicting \subseteq DOMAIN venvs
    <3>1. evicting = {} \/ \E key \in DOMAIN venvs : evicting = {key}
      BY DEF IInv, CacheInv, Evicting
    <3>2. CASE evicting = {}
      BY <3>2, FS_EmptySet
    <3>3. ASSUME NEW key \in DOMAIN venvs, evicting = {key}
          PROVE  Cardinality(evicting) <= 1 /\ evicting \subseteq DOMAIN venvs
      <4>1. Cardinality({key}) = 1
        BY FS_Singleton
      <4> QED  BY <4>1, <3>3
    <3> QED  BY <3>1, <3>2, <3>3
  <2>2. \A key \in DOMAIN venvs : PiecesOf(venvs[key]) \subseteq Pieces
    BY DEF IInv, CacheInv, Filed, PiecesOf
  <2>3. ASSUME NEW p \in Procs
        PROVE  /\ at[p] \in Resting \cup Working
               /\ done[p] \in 0 .. Len(checks[p])
               /\ at[p] \in Resting => box[p] = NoBox
               /\ todo[p] \subseteq Pieces /\ execution[p] \in 0 .. job[p].executions
               /\ decision[p] \in {"none", "continue", "abort"}
               /\ \A name \in DOMAIN evidence[p] : evidence[p][name].by \in 1 .. execution[p]
    BY DEF IInv, StageInv, Counted, Recorded, Judged, BoxInv, Boxed
  <2> QED
    BY <2>1, <2>2, <2>3 DEF TypeOK
<1> QED
  BY <1>1, InvAlways, PTL

\* The packages in a sandbox are those its project's dependency file lists, whoever filled
\* the entry of the cache they came from and whatever else was written there since.
THEOREM DependenciesMatch == Spec => []DependenciesMatchSpec
<1>1. IInv => DependenciesMatchSpec
  BY DEF IInv, BoxInv, Own, Ready, DependenciesMatchSpec
<1> QED
  BY <1>1, InvAlways, PTL

\* A sandbox that says its dependencies are installed has all of them, or is a copy of an
\* entry that was not whole or was touched; and every entry that is not whole is being
\* saved or evicted, or was left short.
THEOREM DepsHonest == Spec => []DepsClaimIsHonest
<1>1. IInv => DepsClaimIsHonest
  BY DEF IInv, BoxInv, Honest, CacheInv, Accounted, DepsClaimIsHonest
<1> QED
  BY <1>1, InvAlways, PTL

\* With docker configured no check of a Python project ever runs on the host, and with the
\* sandbox enabled none runs in the project itself: no path on the way in falls back.
THEOREM IsolationAlways == Spec => []IsolationKept
<1>1. IInv => IsolationKept
  BY DEF IInv, StageInv, Isolated, Reserved, IsolationKept
<1> QED
  BY <1>1, InvAlways, PTL

\* The stage passes without asking only if every check of this execution left a record that
\* says it succeeded, although records of earlier executions lie in the same directory.
THEOREM VerdictCovers == Spec => []VerdictCoversChecks
<1>1. IInv => VerdictCoversChecks
  <2> SUFFICES ASSUME IInv, NEW p \in Procs, at[p] \in {"passed", "asked"}, decision[p] = "none"
               PROVE  /\ at[p] = "passed" => \A name \in ToSet(checks[p]) \ Reserved :
                            evidence[p][name].exit = "ok" /\ evidence[p][name].by = execution[p]
                      /\ at[p] = "asked" => \E name \in Failing(evidence[p]) :
                            evidence[p][name].by = execution[p] \/ name \notin ToSet(checks[p])
    BY DEF VerdictCoversChecks
  <2>1. ASSUME NEW name \in ToSet(checks[p])
        PROVE  name \in DOMAIN evidence[p] /\ evidence[p][name].by = execution[p]
    <3>1. PICK i \in 1 .. done[p] : checks[p][i] = name
      BY DEF ToSet, IInv, StageInv, Counted
    <3> QED
      BY <3>1 DEF IInv, StageInv, Recorded
  <2>2. at[p] = "passed" => Failing(evidence[p]) = {}
    BY DEF IInv, StageInv, Judged
  <2>3. at[p] = "asked" => Failing(evidence[p]) # {}
    BY DEF IInv, StageInv, Judged
  <2>4. at[p] = "passed" => \A name \in ToSet(checks[p]) \ Reserved :
            evidence[p][name].exit = "ok" /\ evidence[p][name].by = execution[p]
    BY <2>1, <2>2 DEF Failing, Reserved
  <2>5. at[p] = "asked" => \E name \in Failing(evidence[p]) :
            evidence[p][name].by = execution[p] \/ name \notin ToSet(checks[p])
    BY <2>1, <2>3
  <2> QED  BY <2>4, <2>5
<1> QED
  BY <1>1, InvAlways, PTL
=============================================================================
