------------------------------ MODULE Sandbox ------------------------------
(***************************************************************************)
(* create_sandbox of engine/sandbox.py and its docker backend: the         *)
(* workspace of a test stage, the virtualenv in it, and the two caches the *)
(* stages of concurrent runs share, a directory of virtualenvs and the     *)
(* docker images.                                                          *)
(*                                                                         *)
(* A virtualenv is the set of what is in it: the interpreter, the packages *)
(* of a dependency list, and with pyproject.toml the project's own package *)
(* as it was when it was installed. Trees are copied and removed piece by  *)
(* piece, and nothing keeps a copy, a save and an eviction of one entry    *)
(* apart.                                                                  *)
(***************************************************************************)
EXTENDS Naturals, Sequences, FiniteSets, TLC

CONSTANTS
    Procs,    \* processes of the engine on one project, each at the test stage of its run
    Settings  \* what they may find there: functions from Procs to jobs

\* has: the files and scripts the code looks for; deps: what the dependency file lists;
\* contract: there is a design contract; cfg: the section "sandbox" of config.yml, and
\* lists: the lists of checks that may be in it; executions: how often its run may execute
\* the stage (a bound).
ASSUME SandboxAssumption ==
    \A setting \in Settings : \A p \in Procs :
        /\ setting[p].contract \in BOOLEAN /\ setting[p].executions \in Nat
        /\ setting[p].cfg.enabled \in BOOLEAN /\ setting[p].cfg.install \in BOOLEAN
        /\ setting[p].cfg.backend \in {"local", "docker"}
        /\ setting[p].lists \subseteq Seq(STRING)

VARIABLES
    venvs,     \* state/sandbox_cache/venvs: key -> what the entry holds
    images,    \* tags of the images docker has
    evicting,  \* entries that the init stage of some run is removing
    short,     \* history: entries that were saved without their dependencies or cut short
    at, job,   \* per process: where it is, and its project and configuration
    box,       \* per process: the sandbox it builds and uses
    todo,      \* per process: pieces its copytree has not come to
    seen,      \* per process: history: the cached entry when the copy out began
    excused    \* per process: history: the entry it copied was not whole, or was touched

cacheVars == <<venvs, images, evicting, short>>
procVars  == <<job, box, todo, seen, excused>>
sandboxVars == <<cacheVars, procVars, at>>

Pieces == {"python", "deps", "package"}
Piece(what, of) == [what |-> what, of |-> of]
Python == Piece("python", "venv")

NoBox == [workspace |-> FALSE, venv |-> {}, deps |-> FALSE, hit |-> FALSE, where |-> "none"]

\* A dictionary with an entry more, or with another value in an entry.
Put(f, d, e) == [x \in DOMAIN f \cup {d} |-> IF x = d THEN e ELSE f[x]]

Goto(p, from, to) == at[p] = from /\ at' = [at EXCEPT ![p] = to]
Box(p, new)       == box' = [box EXCEPT ![p] = new]

\* The workspace is removed; what copytree was doing is forgotten with it.
Leave(p) ==
    /\ Box(p, NoBox)
    /\ todo' = [todo EXCEPT ![p] = {}] /\ seen' = [seen EXCEPT ![p] = {}]
    /\ excused' = [excused EXCEPT ![p] = FALSE]

-----------------------------------------------------------------------------
(***************************************************************************)
(* Detection and keys.                                                     *)
(***************************************************************************)
ProjectType(has) ==
    IF "package.json" \in has THEN "node"
    ELSE IF has \cap {"requirements.txt", "pyproject.toml", "setup.py"} # {} THEN "python"
    ELSE "unknown"

DepsFile(has) ==
    IF "requirements.txt" \in has THEN "requirements.txt"
    ELSE IF "pyproject.toml" \in has THEN "pyproject.toml"
    ELSE "no-deps"

DependsOn(j) == IF DepsFile(j.has) = "no-deps" THEN "nothing" ELSE j.deps

\* Faulty variant: the key has the kind of the dependency file, not what is in it.
KeyOfKind(j) == [spec |-> DepsFile(j.has), deps |-> "any", cfg |-> j.cfg]

\* The sources of the project are not part of the key, although with pyproject.toml they
\* are installed into what is cached.
Key(j) == [spec |-> DepsFile(j.has), deps |-> DependsOn(j), cfg |-> j.cfg]

Tag(j) == [spec |-> DepsFile(j.has), deps |-> DependsOn(j)]

\* What a successful installation adds to p's virtualenv.
Installed(p, j) ==
    IF DepsFile(j.has) = "no-deps" THEN {}
    ELSE {Piece("deps", j.deps)}
        \cup (IF DepsFile(j.has) = "pyproject.toml" THEN {Piece("package", p)} ELSE {})

PiecesOf(venv) == {piece.what : piece \in venv}

Kinds(key) ==
    {"python"} \cup (IF key.spec # "no-deps" THEN {"deps"} ELSE {})
               \cup (IF key.spec = "pyproject.toml" THEN {"package"} ELSE {})

\* The entry has the interpreter and every kind of piece that its dependency list gives.
Whole(key, venv) == PiecesOf(venv) = Kinds(key)

Saving(key) == \E p \in Procs : at[p] = "saving" /\ Key(job[p]) = key

-----------------------------------------------------------------------------
(***************************************************************************)
(* Entering the sandbox.                                                   *)
(***************************************************************************)
UsesDocker(j) == j.cfg.backend = "docker" /\ ProjectType(j.has) # "node"

CopyProject(p) ==
    /\ Goto(p, "enter", IF UsesDocker(job[p]) THEN "docker"
                        ELSE IF ProjectType(job[p].has) = "node" THEN "node"
                        ELSE "lookup")
    /\ Box(p, [NoBox EXCEPT !.workspace = TRUE])
    /\ UNCHANGED <<cacheVars, job, todo, seen, excused>>

\* An exception on the way in removes the workspace and leaves test_system.
EnterFails(p, from) ==
    /\ Goto(p, from, "failed")
    /\ Leave(p)
    /\ UNCHANGED <<cacheVars, job>>

\* The image is there, or it is built now; the flag is about the files, not the image.
DockerReady(p) ==
    /\ Goto(p, "docker", "checking")
    /\ images' = images \cup {Tag(job[p])}
    /\ Box(p, [box[p] EXCEPT !.where = "docker", !.hit = Tag(job[p]) \in images,
                             !.deps = DepsFile(job[p].has) # "no-deps" /\ job[p].cfg.install])
    /\ UNCHANGED <<venvs, evicting, short, job, todo, seen, excused>>

\* Faulty variant: no docker, so the virtualenv it is.
DockerFallsBack(p) ==
    /\ Goto(p, "docker", "lookup")
    /\ UNCHANGED <<cacheVars, procVars>>

\* No docker, or a build that fails: an error, never another backend.
DockerFails(p) == EnterFails(p, "docker")

NpmInstall(p) ==
    /\ Goto(p, "node", "checking")
    /\ \E ok \in BOOLEAN :
        /\ ~job[p].cfg.install => ~ok
        /\ Box(p, [box[p] EXCEPT !.where = "local", !.deps = ok])
    /\ UNCHANGED <<cacheVars, job, todo, seen, excused>>

-----------------------------------------------------------------------------
(***************************************************************************)
(* The virtualenv: from the cache, or new.                                 *)
(***************************************************************************)
Hit(j) == Key(j) \in DOMAIN venvs /\ Python \in venvs[Key(j)]

Lookup(p) ==
    /\ Goto(p, "lookup", IF Hit(job[p]) THEN "copying" ELSE "create")
    /\ seen'    = [seen EXCEPT ![p] = IF Hit(job[p]) THEN venvs[Key(job[p])] ELSE {}]
    /\ todo'    = [todo EXCEPT ![p] = IF Hit(job[p]) THEN Kinds(Key(job[p])) ELSE {}]
    /\ excused' = [excused EXCEPT ![p] =
                    Hit(job[p]) /\ \/ ~Whole(Key(job[p]), venvs[Key(job[p])])
                                   \/ Saving(Key(job[p])) \/ Key(job[p]) \in evicting]
    /\ UNCHANGED <<cacheVars, job, box>>

Entry(p) == IF Key(job[p]) \in DOMAIN venvs THEN venvs[Key(job[p])] ELSE {}

\* copytree comes to a directory and copies what is left there. What an eviction took
\* before the directory was listed is not missed.
CopyPiece(p) ==
    /\ at[p] = "copying"
    /\ \E what \in todo[p] :
        /\ todo' = [todo EXCEPT ![p] = @ \ {what}]
        /\ Box(p, [box[p] EXCEPT !.venv = @ \cup {piece \in Entry(p) : piece.what = what}])
    /\ UNCHANGED <<cacheVars, job, seen, excused, at>>

\* A file that was listed is gone: copytree raises, nobody catches it.
CopyFails(p) ==
    /\ EnterFails(p, "copying")
    /\ ~(seen[p] \subseteq Entry(p))

CopyEnds(p) ==
    /\ Goto(p, "copying", "checking")
    /\ todo[p] = {}
    /\ Box(p, [box[p] EXCEPT !.where = "local", !.hit = TRUE, !.deps = TRUE])
    /\ seen' = [seen EXCEPT ![p] = {}]
    /\ UNCHANGED <<cacheVars, job, todo, excused>>

CreateVenv(p) ==
    /\ Goto(p, "create", IF job[p].cfg.install THEN "install" ELSE "save")
    /\ Box(p, [box[p] EXCEPT !.venv = {Python}])
    /\ UNCHANGED <<cacheVars, job, todo, seen, excused>>

\* Without a virtualenv the checks run all the same, with what is on the host's PATH.
CreateFails(p) ==
    /\ Goto(p, "create", "checking")
    /\ Box(p, [box[p] EXCEPT !.where = "local"])
    /\ UNCHANGED <<cacheVars, job, todo, seen, excused>>

Install(p) ==
    /\ Goto(p, "install", "save")
    /\ Box(p, [box[p] EXCEPT !.venv = @ \cup Installed(p, job[p]),
                             !.deps = DepsFile(job[p].has) # "no-deps"])
    /\ UNCHANGED <<cacheVars, job, todo, seen, excused>>

\* Faulty variant: pip's exit code is not looked at.
InstallFailsUnnoticed(p) ==
    /\ Goto(p, "install", "save")
    /\ Installed(p, job[p]) # {}
    /\ Box(p, [box[p] EXCEPT !.deps = TRUE])
    /\ UNCHANGED <<cacheVars, job, todo, seen, excused>>

\* pip fails before it installs, or after a part of it.
InstallFails(p) ==
    /\ Goto(p, "install", "save")
    /\ Installed(p, job[p]) # {}
    /\ \E some \in {{}, {piece \in Installed(p, job[p]) : piece.what = "deps"}} :
        Box(p, [box[p] EXCEPT !.venv = @ \cup some])
    /\ UNCHANGED <<cacheVars, job, todo, seen, excused>>

-----------------------------------------------------------------------------
(***************************************************************************)
(* Saving to the cache, and eviction from it.                              *)
(***************************************************************************)
\* Copies in progress from an entry that changes are excused.
Disturb(key) ==
    excused' = [p \in Procs |-> excused[p] \/ (at[p] = "copying" /\ Key(job[p]) = key)]

\* Whatever is under the key stays, a part of an entry included.
SaveSkipped(p) ==
    /\ Goto(p, "save", "checking")
    /\ Key(job[p]) \in DOMAIN venvs
    /\ Box(p, [box[p] EXCEPT !.where = "local"])
    /\ UNCHANGED <<cacheVars, job, todo, seen, excused>>

StartSave(p) ==
    /\ Goto(p, "save", "saving")
    /\ Key(job[p]) \notin DOMAIN venvs
    /\ todo'  = [todo EXCEPT ![p] = PiecesOf(box[p].venv)]
    /\ venvs' = Put(venvs, Key(job[p]), {})
    /\ short' = IF Whole(Key(job[p]), box[p].venv) THEN short ELSE short \cup {Key(job[p])}
    /\ UNCHANGED <<images, evicting, job, box, seen, excused>>

SavePiece(p) ==
    /\ at[p] = "saving"
    /\ \E what \in todo[p] :
        /\ todo'  = [todo EXCEPT ![p] = @ \ {what}]
        /\ venvs' = [venvs EXCEPT ![Key(job[p])] =
                        @ \cup {piece \in box[p].venv : piece.what = what}]
    /\ Disturb(Key(job[p]))
    /\ UNCHANGED <<images, evicting, short, job, box, seen, at>>

SaveEnds(p) ==
    /\ Goto(p, "saving", "checking")
    /\ todo[p] = {}
    /\ Box(p, [box[p] EXCEPT !.where = "local"])
    /\ UNCHANGED <<cacheVars, job, todo, seen, excused>>

\* The disk is full: swallowed, and what was copied stays.
SaveFails(p) ==
    /\ Goto(p, "saving", "checking")
    /\ todo[p] # {}
    /\ short' = short \cup {Key(job[p])}
    /\ Box(p, [box[p] EXCEPT !.where = "local"])
    /\ todo' = [todo EXCEPT ![p] = {}]
    /\ UNCHANGED <<venvs, images, evicting, job, seen, excused>>

\* The init stage of a run finds an entry too old, by the time of its directory: days, so
\* nobody is still saving it.
StartEviction ==
    /\ evicting = {}
    /\ \E key \in DOMAIN venvs :
        /\ ~Saving(key)
        /\ evicting' = {key} /\ Disturb(key)
    /\ UNCHANGED <<venvs, images, short, job, box, todo, seen, at>>

EvictPiece ==
    /\ \E key \in evicting \cap DOMAIN venvs : \E piece \in venvs[key] :
        /\ venvs' = [venvs EXCEPT ![key] = @ \ {piece}]
        /\ Disturb(key)
    /\ UNCHANGED <<images, evicting, short, job, box, todo, seen, at>>

\* rmtree ignores what it can not remove, and its process may die: then a part stays.
EvictionEnds ==
    /\ \E key \in evicting :
        /\ venvs' = IF venvs[key] = {} THEN [k \in DOMAIN venvs \ {key} |-> venvs[k]] ELSE venvs
        /\ short' = IF venvs[key] = {} THEN short \ {key} ELSE short \cup {key}
    /\ evicting' = {}
    /\ UNCHANGED <<images, procVars, at>>

Evict == StartEviction \/ EvictPiece \/ EvictionEnds

\* A process that dies while it saves leaves a part of the entry.
CutShort(p) ==
    short' = IF at[p] = "saving" THEN short \cup {Key(job[p])} ELSE short

-----------------------------------------------------------------------------
InitSandbox ==
    /\ venvs = [k \in {} |-> {}] /\ images = {} /\ evicting = {} /\ short = {}
    /\ job \in Settings
    /\ at = [p \in Procs |-> "idle"] /\ box = [p \in Procs |-> NoBox]
    /\ todo = [p \in Procs |-> {}] /\ seen = [p \in Procs |-> {}]
    /\ excused = [p \in Procs |-> FALSE]

Entering(p) ==
    \/ CopyProject(p) \/ EnterFails(p, "enter") \/ DockerReady(p) \/ DockerFails(p)
    \/ NpmInstall(p) \/ Lookup(p) \/ CopyPiece(p) \/ CopyFails(p) \/ CopyEnds(p)
    \/ CreateVenv(p) \/ CreateFails(p) \/ Install(p) \/ InstallFails(p)
    \/ SaveSkipped(p) \/ StartSave(p) \/ SavePiece(p) \/ SaveEnds(p) \/ SaveFails(p)
=============================================================================
