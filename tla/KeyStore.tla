------------------------------- MODULE KeyStore -------------------------------
(***************************************************************************)
(* Where the signing key of a finished run lives, and how the processes    *)
(* that verify the run's audit trail find it: _load_hmac_key and           *)
(* _migrate_legacy_key of engine/tracer.py, called twice by each           *)
(* invocation of the CLI engine/verify_trace.py.                           *)
(*                                                                         *)
(* A run of an older version left the key beside its trace. The first      *)
(* verification that finds it there moves it: into the directory that its  *)
(* own environment names, in place and without a lock. Invocations run     *)
(* concurrently (CI, dashboard, operator), may die between any two steps,  *)
(* and may be repeated any number of times.                                *)
(***************************************************************************)
EXTENDS Naturals

CONSTANTS
    Verifiers,
    Dirs        \* directories AE_TRACE_KEY_DIR may name; the default is one of them

Keyrings == {"keyring", "keyring without library", "keyring without service"}

ASSUME KeyStoreAssumption == Dirs \cap (Keyrings \cup {"none", "truncated"}) = {}

VARIABLES
    trace,      \* trace.jsonl as it was left; an empty file counts as altered
    legacy,     \* the key beside it
    stored,     \* directory -> <run_id>.key
    keyring,    \* whether the OS keyring has the key
    breadcrumb, \* the directory that the note in the legacy place names
    pc, place, sees, call, held,
    valid,      \* what the first of the two calls found
    exit,       \* the exit code, "none" while it runs
    cut,        \* history: directories where a migration stopped halfway
    excused     \* per verifier: history: the key was moved meanwhile, or the disk failed

keyVars == <<legacy, stored, keyring, breadcrumb, cut>>
runVars == <<place, sees, call, held, valid, exit>>
vars == <<trace, keyVars, runVars, pc, excused>>

Places  == Dirs \cup Keyrings
Resting == {"idle", "exited"}
Steps   == {"load", "legacy", "copy", "create", "write",
            "note", "text", "unlink", "judge"}

\* The variables keep their types: a legacy key is whole or gone, a stored one may be empty.
TypeOK ==
    /\ trace \in {"absent", "genuine", "altered"}
    /\ legacy \in {"absent", "whole"} /\ keyring \in BOOLEAN
    /\ stored \in [Dirs -> {"absent", "empty", "whole"}]
    /\ breadcrumb \in Dirs \cup {"none", "truncated"}
    /\ pc \in [Verifiers -> Resting \cup Steps]
    /\ place \in [Verifiers -> Places] /\ sees \in [Verifiers -> BOOLEAN]
    /\ call \in [Verifiers -> {1, 2}]
    /\ held \in [Verifiers -> {"none", "empty", "whole"}]
    /\ valid \in [Verifiers -> BOOLEAN] /\ exit \in [Verifiers -> {"none", "0", "1", "2"}]
    /\ cut \subseteq Dirs /\ excused \in [Verifiers -> BOOLEAN]

-----------------------------------------------------------------------------
At(v, step)   == pc[v] = step
Goto(v, step) == pc' = [pc EXCEPT ![v] = step]
Active(v)     == pc[v] \notin Resting

\* Moving the key under another invocation that is running excuses its verdict.
Moves(v) == excused' = [w \in Verifiers |-> excused[w] \/ (w # v /\ Active(w))]
Fails(v) == excused' = [excused EXCEPT ![v] = TRUE]

Hold(v, key, next) ==
    /\ held' = [held EXCEPT ![v] = key] /\ Goto(v, next)
    /\ UNCHANGED <<place, sees, call, valid, exit>>

\* Nothing of an invocation outlives its process.
Forget(v) ==
    /\ place' = [place EXCEPT ![v] = "keyring"] /\ sees' = [sees EXCEPT ![v] = FALSE]
    /\ call' = [call EXCEPT ![v] = 1] /\ held' = [held EXCEPT ![v] = "none"]
    /\ valid' = [valid EXCEPT ![v] = FALSE]

Exit(v, code) == Goto(v, "exited") /\ exit' = [exit EXCEPT ![v] = code] /\ Forget(v)

\* An exception nobody catches ends the interpreter with exit code 1.
Raise(v) == Exit(v, "1")

\* The outcome of one of the two calls; missing is what the second one tells.
Return(v, ok, missing) ==
    \/ /\ call[v] = 1
       /\ valid' = [valid EXCEPT ![v] = ok] /\ call' = [call EXCEPT ![v] = 2]
       /\ held' = [held EXCEPT ![v] = "none"]
       /\ Goto(v, "load") /\ UNCHANGED <<place, sees, exit>>
    \/ /\ call[v] = 2
       /\ Exit(v, IF valid[v] THEN "0" ELSE IF missing THEN "2" ELSE "1")

-----------------------------------------------------------------------------
(***************************************************************************)
(* main of the CLI. --state-dir says where the trace is; the legacy key is *)
(* looked for in the state directory of the engine, which may be another.  *)
(***************************************************************************)
Start(v) ==
    /\ pc[v] \in Resting
    /\ \E p \in Places, s \in BOOLEAN :
          /\ s => p \in Dirs     \* the keyring has no legacy
          /\ place' = [place EXCEPT ![v] = p] /\ sees' = [sees EXCEPT ![v] = s]
    /\ exit' = [exit EXCEPT ![v] = "none"] /\ UNCHANGED <<call, held, valid>>
    /\ excused' = [excused EXCEPT ![v] = \E w \in Verifiers \ {v} : At(w, "write")]
    /\ Goto(v, "load")
    /\ UNCHANGED <<trace, keyVars>>

TraceMissing(v) ==
    /\ At(v, "load") /\ trace = "absent" /\ Return(v, FALSE, TRUE)
    /\ UNCHANGED <<trace, keyVars, excused>>

LoadFromKeyring(v) ==
    /\ At(v, "load") /\ trace # "absent" /\ place[v] \notin Dirs
    /\ \/ place[v] = "keyring without service" /\ Raise(v)
       \/ place[v] = "keyring" /\ keyring /\ Hold(v, "whole", "judge")
       \/ place[v] = "keyring" /\ ~keyring /\ Return(v, FALSE, TRUE)
       \/ place[v] = "keyring without library" /\ Return(v, FALSE, TRUE)
    /\ UNCHANGED <<trace, keyVars, excused>>

\* new_path.exists() tells that the file is there, not that it is written.
\* Nothing removes it again, so the two calls see it as one would.
ReadKey(v) ==
    /\ At(v, "load") /\ trace # "absent" /\ place[v] \in Dirs
    /\ stored[place[v]] # "absent"
    /\ Hold(v, stored[place[v]], "judge")
    /\ UNCHANGED <<trace, keyVars, excused>>

KeyMissing(v) ==
    /\ At(v, "load") /\ trace # "absent" /\ place[v] \in Dirs
    /\ stored[place[v]] = "absent" /\ Goto(v, "legacy")
    /\ UNCHANGED <<trace, keyVars, runVars, excused>>

-----------------------------------------------------------------------------
(***************************************************************************)
(* _migrate_legacy_key, one file operation after the other.                *)
(***************************************************************************)
\* Faulty variant: a legacy key that is not there is reported in words the CLI does not know.
FindLegacyReworded(v) ==
    /\ At(v, "legacy")
    /\ \/ sees[v] /\ legacy = "whole" /\ Goto(v, "copy") /\ UNCHANGED runVars
       \/ ~(sees[v] /\ legacy = "whole") /\ Return(v, FALSE, FALSE)
    /\ UNCHANGED <<trace, keyVars, excused>>

FindLegacy(v) ==
    /\ At(v, "legacy")
    /\ \/ sees[v] /\ legacy = "whole" /\ Goto(v, "copy") /\ UNCHANGED runVars
       \/ ~(sees[v] /\ legacy = "whole") /\ Return(v, FALSE, TRUE)
    /\ UNCHANGED <<trace, keyVars, excused>>

\* Faulty variant: the read is not checked.
ReadLegacyUnchecked(v) ==
    /\ At(v, "copy") /\ Hold(v, legacy, "create")
    /\ UNCHANGED <<trace, keyVars, excused>>

ReadLegacy(v) ==
    /\ At(v, "copy") /\ legacy = "whole" /\ Hold(v, "whole", "create")
    /\ UNCHANGED <<trace, keyVars, excused>>

LegacyVanished(v) ==
    /\ At(v, "copy") /\ legacy = "absent" /\ Raise(v)
    /\ UNCHANGED <<trace, keyVars, excused>>

\* O_CREAT | O_EXCL: the empty file is visible before the key is in it.
Create(v) ==
    /\ At(v, "create") /\ stored[place[v]] = "absent"
    /\ stored' = [stored EXCEPT ![place[v]] = "empty"]
    /\ Goto(v, "write") /\ Moves(v)
    /\ UNCHANGED <<trace, legacy, keyring, breadcrumb, cut, runVars>>

\* Faulty variant: it waits for the other one to be gone.
CollideRetrying(v) ==
    /\ At(v, "create") /\ stored[place[v]] # "absent" /\ Goto(v, "create")
    /\ UNCHANGED <<trace, keyVars, runVars, excused>>

Collide(v) ==
    /\ At(v, "create") /\ stored[place[v]] # "absent" /\ Raise(v)
    /\ UNCHANGED <<trace, keyVars, excused>>

\* The directory cannot be made, or the file not created in it.
CreateFails(v) ==
    /\ At(v, "create") /\ Raise(v) /\ Fails(v)
    /\ UNCHANGED <<trace, keyVars>>

Write(v) ==
    /\ At(v, "write")
    /\ stored' = [stored EXCEPT ![place[v]] = held[v]]
    /\ Goto(v, "note") /\ Moves(v)
    /\ UNCHANGED <<trace, legacy, keyring, breadcrumb, cut, runVars>>

\* Faulty variant: a failed write goes on.
WriteFailsUnnoticed(v) ==
    /\ At(v, "write") /\ Goto(v, "note") /\ Fails(v)
    /\ cut' = cut \cup {place[v]}
    /\ UNCHANGED <<trace, legacy, stored, keyring, breadcrumb, runVars>>

\* The file stays, empty, and every later lookup in this directory finds it.
WriteFails(v) ==
    /\ At(v, "write") /\ Raise(v) /\ Fails(v)
    /\ cut' = cut \cup {place[v]}
    /\ UNCHANGED <<trace, legacy, stored, keyring, breadcrumb>>

\* write_text of the breadcrumb truncates it, then writes it.
OpenNote(v) ==
    /\ At(v, "note") /\ breadcrumb' = "truncated" /\ Goto(v, "text")
    /\ UNCHANGED <<trace, legacy, stored, keyring, cut, runVars, excused>>

WriteNote(v) ==
    /\ At(v, "text") /\ breadcrumb' = place[v] /\ Goto(v, "unlink")
    /\ UNCHANGED <<trace, legacy, stored, keyring, cut, runVars, excused>>

NoteFails(v) ==
    /\ pc[v] \in {"note", "text"} /\ Raise(v) /\ Fails(v)
    /\ UNCHANGED <<trace, keyVars>>

Unlink(v) ==
    /\ At(v, "unlink") /\ legacy' = "absent"
    /\ Goto(v, "judge") /\ Moves(v)
    /\ UNCHANGED <<trace, stored, keyring, breadcrumb, cut, runVars>>

UnlinkRefused(v) ==
    /\ At(v, "unlink") /\ Goto(v, "judge")
    /\ UNCHANGED <<trace, keyVars, runVars, excused>>

-----------------------------------------------------------------------------
\* The chain is replayed with whatever key was read; only a missing file is a
\* missing key, an empty one signs nothing the run wrote.
Judge(v) ==
    /\ At(v, "judge") /\ Return(v, trace = "genuine" /\ held[v] = "whole", FALSE)
    /\ UNCHANGED <<trace, keyVars, excused>>

Crash(v) ==
    /\ Active(v) /\ Goto(v, "idle")
    /\ cut' = cut \cup (IF At(v, "write") THEN {place[v]} ELSE {})
    /\ exit' = [exit EXCEPT ![v] = "none"] /\ Forget(v)
    /\ excused' = [excused EXCEPT ![v] = FALSE]
    /\ UNCHANGED <<trace, legacy, stored, keyring, breadcrumb>>

-----------------------------------------------------------------------------
\* The run left its key in one place: beside the trace (an older version), in
\* a directory, or in the keyring.
Init ==
    /\ trace \in {"absent", "genuine", "altered"}
    /\ \/ legacy = "whole" /\ keyring = FALSE /\ stored = [d \in Dirs |-> "absent"]
       \/ legacy = "absent" /\ keyring = TRUE /\ stored = [d \in Dirs |-> "absent"]
       \/ \E d \in Dirs :
             /\ legacy = "absent" /\ keyring = FALSE
             /\ stored = [e \in Dirs |-> IF e = d THEN "whole" ELSE "absent"]
    /\ breadcrumb = "none" /\ cut = {}
    /\ pc = [v \in Verifiers |-> "idle"]
    /\ place = [v \in Verifiers |-> "keyring"] /\ sees = [v \in Verifiers |-> FALSE]
    /\ call = [v \in Verifiers |-> 1] /\ held = [v \in Verifiers |-> "none"]
    /\ valid = [v \in Verifiers |-> FALSE] /\ exit = [v \in Verifiers |-> "none"]
    /\ excused = [v \in Verifiers |-> FALSE]

Migrates(v) ==
    \/ ReadLegacy(v) \/ LegacyVanished(v) \/ Create(v) \/ Collide(v)
    \/ Write(v) \/ OpenNote(v) \/ WriteNote(v) \/ Unlink(v)

Step(v) ==
    \/ TraceMissing(v) \/ LoadFromKeyring(v) \/ ReadKey(v) \/ KeyMissing(v) \/ FindLegacy(v)
    \/ Migrates(v) \/ Judge(v)

\* What the disk or the operating system may do to it, and need not.
Fault(v) ==
    \/ CreateFails(v) \/ WriteFails(v) \/ NoteFails(v) \/ UnlinkRefused(v) \/ Crash(v)

Next == \E v \in Verifiers : Start(v) \/ Step(v) \/ Fault(v)

Spec == Init /\ [][Next]_vars /\ \A v \in Verifiers : WF_vars(Step(v))

-----------------------------------------------------------------------------
(***************************************************************************)
(* Properties.                                                             *)
(***************************************************************************)

\* Whatever invocations die, race or run out of disk, a whole copy of the key
\* is on the machine, and a breadcrumb that names a directory names one that
\* has it (tracer.py:307-322).
KeyIsNeverLost ==
    /\ legacy = "whole" \/ keyring \/ \E d \in Dirs : stored[d] = "whole"
    /\ breadcrumb \in Dirs => stored[breadcrumb] = "whole"

\* Whether the environment of an invocation reaches the key, and the exit code
\* the invocation deserves.
Reached(v) ==
    \/ place[v] \in Dirs /\ stored[place[v]] = "whole"
    \/ place[v] = "keyring" /\ keyring

Deserved(v) ==
    IF trace = "absent" \/ ~Reached(v) THEN "2"
    ELSE IF trace = "genuine" THEN "0" ELSE "1"

\* An invocation during which nobody moves the key, in a directory where no
\* migration was cut short, tells a tampered trace from a missing key, though
\* it loads the key twice and the first time may move it (verify_trace.py:112).
QuietVerdictIsRight ==
    [][\A v \in Verifiers :
          Active(v) /\ pc'[v] = "exited" /\ ~excused'[v]
          /\ place[v] \notin cut' \cup {"keyring without service"}
             => exit'[v] = Deserved(v)]_vars

\* An invocation comes to its end, or is killed.
VerifierEnds == \A v \in Verifiers : Active(v) ~> ~Active(v)
=============================================================================
