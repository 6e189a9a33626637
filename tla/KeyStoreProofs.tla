---------------------------- MODULE KeyStoreProofs ----------------------------
(***************************************************************************)
(* For any number of verifiers and of key directories: the key of a run is *)
(* never lost, whatever dies, fails or races; and a verifier that nobody   *)
(* disturbs gives the right verdict.                                       *)
(*                                                                         *)
(* The inductive invariant says what a migration has achieved by the time  *)
(* it is at a step: before it writes it holds the key, and before it       *)
(* leaves a note or unlinks anything the copy in its directory is whole.   *)
(* The verdict needs more (QInv): that an empty key file has its writer at *)
(* work or was cut short, and that what the first of the two calls saw     *)
(* still stands when the second one is made.                               *)
(***************************************************************************)
EXTENDS KeyStore, TLAPS

Copied == {"note", "text", "unlink"}

\* A verifier that is writing holds the key and names a directory; one that
\* has written finds its copy whole.
Migration(v) ==
    /\ pc[v] \in {"legacy", "copy", "create", "write"} \cup Copied => place[v] \in Dirs
    /\ pc[v] \in {"create", "write"} \cup Copied => held[v] = "whole"
    /\ pc[v] \in Copied => stored[place[v]] = "whole"

IInv == TypeOK /\ KeyIsNeverLost /\ \A v \in Verifiers : Migration(v)

\* Every empty key file has its writer still at work, or is what a migration
\* left that died or failed.
Attended ==
    \A d \in Dirs : stored[d] = "empty" =>
        d \in cut \/ \E w \in Verifiers : pc[w] = "write" /\ place[w] = d

\* What an invocation relies on that nobody disturbs: the key stays where its
\* steps found it, a second call meets what the first one left, and the first
\* one's verdict still stands.
Quiet(v) == Active(v) /\ ~excused[v] /\ place[v] \notin cut

Relies(v) ==
    /\ \A w \in Verifiers \ {v} : pc[w] # "write"
    /\ pc[v] # "load" => trace # "absent"
    /\ pc[v] \in {"legacy", "copy", "create"} => stored[place[v]] = "absent"
    /\ pc[v] = "copy" => legacy = "whole"
    /\ pc[v] \in {"copy", "create", "write"} \cup Copied => call[v] = 1
    /\ pc[v] = "judge" => Reached(v) /\ held[v] = "whole"
    /\ call[v] = 2 =>
          /\ valid[v] <=> trace = "genuine" /\ Reached(v)
          /\ trace # "absent" /\ place[v] \in Dirs /\ sees[v] /\ legacy = "whole" =>
                stored[place[v]] # "absent"

\* Every invocation begins with its first call.
Fresh == \A v \in Verifiers : pc[v] \in Resting => call[v] = 1

QInv == IInv /\ Attended /\ Fresh /\ \A v \in Verifiers : Quiet(v) => Relies(v)

\* The part of the state that belongs to the invocations.
RunTypes ==
    /\ pc \in [Verifiers -> Resting \cup Steps]
    /\ place \in [Verifiers -> Places] /\ sees \in [Verifiers -> BOOLEAN]
    /\ call \in [Verifiers -> {1, 2}]
    /\ held \in [Verifiers -> {"none", "empty", "whole"}]
    /\ valid \in [Verifiers -> BOOLEAN] /\ exit \in [Verifiers -> {"none", "0", "1", "2"}]

\* A step of v moves no other invocation, and destroys no whole copy.
Same(w)  == /\ pc'[w] = pc[w] /\ place'[w] = place[w] /\ sees'[w] = sees[w]
            /\ call'[w] = call[w] /\ held'[w] = held[w] /\ valid'[w] = valid[w]
Alone(v) == \A w \in Verifiers \ {v} : Same(w)
Grows    == \A d \in Dirs : stored[d] = "whole" => stored'[d] = "whole"

-----------------------------------------------------------------------------
(***************************************************************************)
(* How an invocation moves on.                                             *)
(***************************************************************************)

\* The end of an invocation.
LEMMA ExitMoves ==
    ASSUME RunTypes, NEW v \in Verifiers, NEW code \in {"0", "1", "2"}, Exit(v, code)
    PROVE  RunTypes' /\ Alone(v) /\ pc'[v] = "exited"
<1>1. "exited" \in Resting \cup Steps /\ "keyring" \in Places
  BY DEF Resting, Steps, Places, Keyrings
<1>. QED
  BY <1>1 DEF RunTypes, Alone, Same, Exit, Goto, Forget

\* The end of one of the two calls.
LEMMA ReturnMoves ==
    ASSUME RunTypes, NEW v \in Verifiers, NEW ok \in BOOLEAN, NEW missing \in BOOLEAN,
           Return(v, ok, missing)
    PROVE  RunTypes' /\ Alone(v) /\ pc'[v] \in {"load", "exited"}
<1>1. CASE call[v] = 1 /\ Goto(v, "load") /\ UNCHANGED <<place, sees, exit>>
           /\ valid' = [valid EXCEPT ![v] = ok] /\ call' = [call EXCEPT ![v] = 2]
           /\ held' = [held EXCEPT ![v] = "none"]
  BY <1>1 DEF RunTypes, Alone, Same, Goto, Steps
<1>2. CASE Exit(v, IF valid[v] THEN "0" ELSE IF missing THEN "2" ELSE "1")
  <2>1. (IF valid[v] THEN "0" ELSE IF missing THEN "2" ELSE "1") \in {"0", "1", "2"}
    BY DEF RunTypes
  <2>. QED
    BY <1>2, <2>1, ExitMoves
<1>. QED
  BY <1>1, <1>2 DEF Return

\* A key has been read.
LEMMA HoldMoves ==
    ASSUME RunTypes, NEW v \in Verifiers, NEW key \in {"none", "empty", "whole"},
           NEW next \in Steps, Hold(v, key, next)
    PROVE  /\ RunTypes' /\ Alone(v) /\ pc'[v] = next /\ held'[v] = key
           /\ place' = place
BY DEF RunTypes, Alone, Same, Hold, Goto

\* Nothing but the program counter moves.
LEMMA GotoMoves ==
    ASSUME RunTypes, NEW v \in Verifiers, NEW next \in Steps, Goto(v, next), UNCHANGED runVars
    PROVE  RunTypes' /\ Alone(v) /\ pc'[v] = next /\ place' = place /\ held' = held
BY DEF RunTypes, Alone, Same, Goto, runVars

\* What a verifier has achieved outlives the steps of the others.
LEMMA OthersKeep ==
    ASSUME NEW v \in Verifiers, \A w \in Verifiers : Migration(w), Alone(v), Grows, Migration(v)'
    PROVE  \A w \in Verifiers : Migration(w)'
<1>. SUFFICES ASSUME NEW w \in Verifiers \ {v} PROVE Migration(w)'
  OBVIOUS
<1>1. pc'[w] = pc[w] /\ place'[w] = place[w] /\ held'[w] = held[w]
  BY DEF Alone, Same
<1>2. pc[w] \in Copied => place[w] \in Dirs /\ stored'[place[w]] = "whole"
  BY DEF Migration, Grows
<1>. QED
  BY <1>1, <1>2 DEF Migration

\* What the key store is left with.
LEMMA StoreKeeps ==
    ASSUME KeyIsNeverLost, Grows, UNCHANGED keyring,
           legacy' = legacy \/ \E d \in Dirs : stored'[d] = "whole",
           breadcrumb' \in Dirs => breadcrumb' = breadcrumb \/ stored'[breadcrumb'] = "whole"
    PROVE  KeyIsNeverLost'
BY DEF KeyIsNeverLost, Grows

-----------------------------------------------------------------------------
(***************************************************************************)
(* The invariant.                                                          *)
(***************************************************************************)
LEMMA InitHolds == Init => IInv
<1>. SUFFICES ASSUME Init PROVE IInv
  OBVIOUS
<1>1. TypeOK
  BY DEF Init, TypeOK, Resting, Steps, Places, Keyrings
<1>2. KeyIsNeverLost
  BY KeyStoreAssumption DEF Init, KeyIsNeverLost
<1>3. \A v \in Verifiers : Migration(v)
  BY DEF Init, Migration, Copied
<1>. QED
  BY <1>1, <1>2, <1>3 DEF IInv

\* A step that leaves the key store alone.
LEMMA StoreUntouched ==
    ASSUME IInv, NEW v \in Verifiers, UNCHANGED <<trace, keyVars>>, RunTypes', Alone(v),
           excused' \in [Verifiers -> BOOLEAN], Migration(v)'
    PROVE  IInv'
<1>1. TypeOK'
  BY DEF IInv, TypeOK, RunTypes, keyVars
<1>2. Grows
  BY DEF Grows, keyVars
<1>3. KeyIsNeverLost'
  BY <1>2, StoreKeeps DEF IInv, keyVars
<1>4. \A w \in Verifiers : Migration(w)'
  BY <1>2, OthersKeep DEF IInv
<1>. QED
  BY <1>1, <1>3, <1>4 DEF IInv

\* The steps that only read, and the ends of an invocation.
LEMMA ReadingKeeps ==
    ASSUME IInv, NEW v \in Verifiers,
           \/ TraceMissing(v) \/ LoadFromKeyring(v) \/ ReadKey(v) \/ KeyMissing(v)
           \/ FindLegacy(v) \/ ReadLegacy(v) \/ LegacyVanished(v) \/ Collide(v)
           \/ CreateFails(v) \/ NoteFails(v) \/ UnlinkRefused(v) \/ Judge(v)
    PROVE  IInv'
<1>1. RunTypes /\ Migration(v) /\ excused \in [Verifiers -> BOOLEAN]
  BY DEF IInv, TypeOK, RunTypes
<1>2. UNCHANGED <<trace, keyVars>>
  BY DEF TraceMissing, LoadFromKeyring, ReadKey, KeyMissing, FindLegacy, ReadLegacy,
         LegacyVanished, Collide, CreateFails, NoteFails, UnlinkRefused, Judge
<1>3. excused' \in [Verifiers -> BOOLEAN]
  BY <1>1 DEF TraceMissing, LoadFromKeyring, ReadKey, KeyMissing, FindLegacy, ReadLegacy,
         LegacyVanished, Collide, CreateFails, NoteFails, UnlinkRefused, Judge, Fails
<1>4. CASE Raise(v)
  BY <1>1, <1>2, <1>3, <1>4, ExitMoves, StoreUntouched DEF Raise, Migration, Copied
<1>5. CASE \E ok, missing \in BOOLEAN : Return(v, ok, missing)
  BY <1>1, <1>2, <1>3, <1>5, ReturnMoves, StoreUntouched DEF Migration, Copied
<1>6. CASE \E key \in {"empty", "whole"} : Hold(v, key, "judge")
  BY <1>1, <1>2, <1>3, <1>6, HoldMoves, StoreUntouched DEF Migration, Copied, Steps
<1>7. CASE At(v, "copy") /\ Hold(v, "whole", "create")
  <2>1. RunTypes' /\ Alone(v) /\ pc'[v] = "create" /\ held'[v] = "whole" /\ place' = place
    BY <1>1, <1>7, HoldMoves DEF Steps
  <2>2. Migration(v)'
    BY <1>1, <1>7, <2>1 DEF Migration, Copied, At
  <2>. QED
    BY <1>2, <1>3, <2>1, <2>2, StoreUntouched
<1>8. CASE \E next \in {"legacy", "copy"} :
              Goto(v, next) /\ UNCHANGED runVars /\ place[v] \in Dirs
  <2>1. RunTypes' /\ Alone(v) /\ pc'[v] \in {"legacy", "copy"} /\ place' = place
    BY <1>1, <1>8, GotoMoves DEF Steps
  <2>2. Migration(v)'
    BY <1>1, <1>8, <2>1 DEF Migration, Copied
  <2>. QED
    BY <1>2, <1>3, <2>1, <2>2, StoreUntouched
<1>9. CASE Goto(v, "judge") /\ UNCHANGED runVars
  BY <1>1, <1>2, <1>3, <1>9, GotoMoves, StoreUntouched DEF Migration, Copied, Steps
<1>. QED
  <2>1. CASE ReadKey(v)
    <3>1. stored[place[v]] \in {"empty", "whole"}
      BY <2>1 DEF ReadKey, IInv, TypeOK
    <3>. QED
      BY <1>6, <2>1, <3>1 DEF ReadKey
  <2>2. CASE FindLegacy(v) \/ KeyMissing(v)
    BY <1>1, <1>5, <1>8, <2>2 DEF FindLegacy, KeyMissing, Migration, Copied, At
  <2>3. CASE TraceMissing(v) \/ LoadFromKeyring(v) \/ Judge(v)
    BY <1>4, <1>5, <1>6, <2>3 DEF TraceMissing, LoadFromKeyring, Judge
  <2>4. CASE LegacyVanished(v) \/ Collide(v) \/ CreateFails(v) \/ NoteFails(v)
    BY <1>4, <2>4 DEF LegacyVanished, Collide, CreateFails, NoteFails
  <2>5. CASE ReadLegacy(v) \/ UnlinkRefused(v)
    BY <1>7, <1>9, <2>5 DEF ReadLegacy, UnlinkRefused
  <2>. QED
    BY <2>1, <2>2, <2>3, <2>4, <2>5

\* An invocation begins, or dies.
LEMMA LifeKeeps ==
    ASSUME IInv, NEW v \in Verifiers, Start(v) \/ Crash(v)
    PROVE  IInv'
<1>1. RunTypes /\ Migration(v) /\ excused \in [Verifiers -> BOOLEAN]
  BY DEF IInv, TypeOK, RunTypes
<1>2. CASE Start(v)
  <2>1. PICK p \in Places, b \in BOOLEAN :
           place' = [place EXCEPT ![v] = p] /\ sees' = [sees EXCEPT ![v] = b]
    BY <1>2 DEF Start
  <2>2. RunTypes' /\ Alone(v) /\ pc'[v] = "load"
    BY <1>1, <1>2, <2>1 DEF Start, RunTypes, Alone, Same, Goto, Steps
  <2>3. excused' \in [Verifiers -> BOOLEAN]
    BY <1>1, <1>2 DEF Start
  <2>. QED
    BY <1>2, <2>2, <2>3, StoreUntouched DEF Start, Migration, Copied
<1>3. CASE Crash(v)
  <2>1. RunTypes' /\ Alone(v) /\ pc'[v] = "idle"
    <3>1. "idle" \in Resting \cup Steps /\ "keyring" \in Places
      BY DEF Resting, Places, Keyrings
    <3>. QED
      BY <1>1, <1>3, <3>1 DEF Crash, RunTypes, Alone, Same, Goto, Forget
  <2>2. TypeOK'
    <3>1. cut' \subseteq Dirs
      BY <1>1, <1>3 DEF Crash, IInv, TypeOK, Migration, At
    <3>. QED
      BY <1>1, <1>3, <2>1, <3>1 DEF Crash, IInv, TypeOK, RunTypes
  <2>3. Grows /\ Migration(v)'
    BY <1>3, <2>1 DEF Crash, Grows, Migration, Copied
  <2>4. KeyIsNeverLost'
    BY <1>3, <2>3, StoreKeeps DEF Crash, IInv
  <2>. QED
    BY <2>1, <2>2, <2>3, <2>4, OthersKeep DEF IInv
<1>. QED
  BY <1>2, <1>3

\* The steps of a migration that touch the key store.
LEMMA MovingKeeps ==
    ASSUME IInv, NEW v \in Verifiers,
           \/ Create(v) \/ Write(v) \/ WriteFails(v) \/ OpenNote(v) \/ WriteNote(v) \/ Unlink(v)
    PROVE  IInv'
<1>1. RunTypes /\ Migration(v) /\ excused \in [Verifiers -> BOOLEAN]
  BY DEF IInv, TypeOK, RunTypes
<1>2. place[v] \in Dirs
  BY <1>1 DEF Create, Write, WriteFails, OpenNote, WriteNote, Unlink, At, Migration, Copied
<1>3. excused' \in [Verifiers -> BOOLEAN]
  BY <1>1 DEF Create, Write, WriteFails, OpenNote, WriteNote, Unlink, Moves, Fails
<1>4. RunTypes' /\ Alone(v)
  <2>1. CASE WriteFails(v)
    BY <1>1, <2>1, ExitMoves DEF WriteFails, Raise
  <2>2. CASE ~WriteFails(v)
    <3>1. PICK next \in Steps : Goto(v, next) /\ UNCHANGED runVars
      BY <2>2 DEF Create, Write, OpenNote, WriteNote, Unlink, Steps
    <3>. QED
      BY <1>1, <3>1, GotoMoves
  <2>. QED
    BY <2>1, <2>2
<1>5. TypeOK'
  BY <1>1, <1>2, <1>3, <1>4
     DEF IInv, TypeOK, RunTypes, Migration, At,
         Create, Write, WriteFails, OpenNote, WriteNote, Unlink
<1>6. Grows
  BY <1>1, <1>2 DEF Grows, IInv, TypeOK, Migration, At,
                    Create, Write, WriteFails, OpenNote, WriteNote, Unlink
<1>7. Migration(v)'
  <2>1. CASE WriteFails(v)
    BY <1>1, <2>1, ExitMoves DEF WriteFails, Raise, Migration, Copied
  <2>2. CASE Create(v)
    BY <1>1, <1>2, <2>2 DEF Create, RunTypes, Goto, runVars, At, Migration, Copied
  <2>3. CASE Write(v)
    BY <1>1, <1>2, <2>3 DEF Write, IInv, TypeOK, RunTypes, Goto, runVars, At, Migration, Copied
  <2>4. CASE OpenNote(v) \/ WriteNote(v) \/ Unlink(v)
    BY <1>1, <1>2, <2>4 DEF OpenNote, WriteNote, Unlink, RunTypes, Goto, runVars, At,
                            Migration, Copied
  <2>. QED
    BY <2>1, <2>2, <2>3, <2>4
<1>8. KeyIsNeverLost'
  <2>1. CASE Create(v) \/ Write(v) \/ WriteFails(v) \/ OpenNote(v)
    <3>1. /\ UNCHANGED <<legacy, keyring>>
          /\ breadcrumb' = breadcrumb \/ breadcrumb' = "truncated"
      BY <2>1 DEF Create, Write, WriteFails, OpenNote
    <3>2. "truncated" \notin Dirs
      BY KeyStoreAssumption DEF KeyStoreAssumption
    <3>. QED
      BY <1>6, <3>1, <3>2, StoreKeeps DEF IInv
  <2>2. CASE WriteNote(v)
    BY <1>1, <1>2, <1>6, <2>2, StoreKeeps DEF WriteNote, IInv, At, Migration, Copied
  <2>3. CASE Unlink(v)
    BY <1>1, <1>2, <1>6, <2>3, StoreKeeps DEF Unlink, IInv, At, Migration, Copied
  <2>. QED
    BY <2>1, <2>2, <2>3
<1>. QED
  BY <1>4, <1>5, <1>6, <1>7, <1>8, OthersKeep DEF IInv

LEMMA StepKeeps == IInv /\ [Next]_vars => IInv'
<1>. SUFFICES ASSUME IInv, [Next]_vars PROVE IInv'
  OBVIOUS
<1>1. CASE UNCHANGED vars
  BY <1>1 DEF vars, keyVars, runVars, IInv, TypeOK, KeyIsNeverLost, Migration
<1>2. ASSUME NEW v \in Verifiers, Start(v) \/ Step(v) \/ Fault(v)
      PROVE  IInv'
  BY <1>2, ReadingKeeps, LifeKeeps, MovingKeeps DEF Step, Migrates, Fault
<1>. QED
  BY <1>1, <1>2 DEF Next

-----------------------------------------------------------------------------
\* The inductive invariant holds in every reachable state.
THEOREM Invariance == Spec => []IInv
BY InitHolds, StepKeeps, PTL DEF Spec

\* The variables keep their types, for any verifiers and directories.
THEOREM TypeCorrect == Spec => []TypeOK
<1>1. IInv => TypeOK
  BY DEF IInv
<1>. QED
  BY <1>1, Invariance, PTL

\* A whole copy of the key is on the machine, and the breadcrumb names a
\* directory that has one, whatever invocations died or raced (tracer.py:282).
THEOREM KeyNeverLost == Spec => []KeyIsNeverLost
<1>1. IInv => KeyIsNeverLost
  BY DEF IInv
<1>. QED
  BY <1>1, Invariance, PTL

-----------------------------------------------------------------------------
(***************************************************************************)
(* The verdict of an undisturbed invocation is right.                      *)
(***************************************************************************)
LEMMA OnlyOneMoves ==
    ASSUME RunTypes, NEW v \in Verifiers, Start(v) \/ Step(v) \/ Fault(v)
    PROVE  Alone(v)
<1>1. ASSUME NEW code \in {"0", "1", "2"}, Exit(v, code) PROVE Alone(v)
  BY <1>1, ExitMoves
<1>2. ASSUME NEW ok \in BOOLEAN, NEW missing \in BOOLEAN, Return(v, ok, missing) PROVE Alone(v)
  BY <1>2, ReturnMoves
<1>3. ASSUME NEW next \in Steps, Goto(v, next), UNCHANGED runVars PROVE Alone(v)
  BY <1>3, GotoMoves
<1>4. CASE Start(v) \/ Crash(v)
  BY <1>4 DEF Start, Crash, RunTypes, Alone, Same, Goto, Forget
<1>5. CASE TraceMissing(v) \/ LoadFromKeyring(v) \/ ReadKey(v) \/ ReadLegacy(v) \/ Judge(v)
  <2>1. ASSUME NEW key, NEW next, Hold(v, key, next) PROVE Alone(v)
    BY <2>1 DEF RunTypes, Alone, Same, Hold, Goto
  <2>. QED
    BY <1>1, <1>2, <1>5, <2>1 DEF TraceMissing, LoadFromKeyring, ReadKey, ReadLegacy, Judge, Raise
<1>6. CASE KeyMissing(v) \/ FindLegacy(v)
  BY <1>2, <1>3, <1>6 DEF KeyMissing, FindLegacy, Steps
<1>7. CASE \/ LegacyVanished(v) \/ Collide(v) \/ CreateFails(v) \/ WriteFails(v) \/ NoteFails(v)
  BY <1>1, <1>7 DEF LegacyVanished, Collide, CreateFails, WriteFails, NoteFails, Raise
<1>8. CASE \/ Create(v) \/ Write(v) \/ OpenNote(v) \/ WriteNote(v) \/ Unlink(v) \/ UnlinkRefused(v)
  BY <1>3, <1>8 DEF Create, Write, OpenNote, WriteNote, Unlink, UnlinkRefused, Steps
<1>. QED
  BY <1>4, <1>5, <1>6, <1>7, <1>8 DEF Step, Migrates, Fault

\* Where a step may leave the invocation that takes it.
LEMMA Destinations ==
    ASSUME RunTypes, NEW v \in Verifiers, Start(v) \/ Step(v) \/ Fault(v)
    PROVE  /\ pc'[v] = "write" => Create(v)
           /\ pc'[v] \in Resting => call'[v] = 1
           /\ At(v, "write") => Write(v) \/ WriteFails(v) \/ Crash(v)
BY DEF Start, Step, Migrates, Fault, TraceMissing, LoadFromKeyring, ReadKey, KeyMissing, FindLegacy,
       ReadLegacy, LegacyVanished, Create, Collide, CreateFails, Write, WriteFails, OpenNote,
       WriteNote, NoteFails, Unlink, UnlinkRefused, Judge, Crash, Exit, Raise, Return, Hold, Forget,
       Goto, At, RunTypes, Resting, Active, runVars

\* What a step does to the key store, and whom it excuses.
LEMMA Effects ==
    ASSUME QInv, NEW v \in Verifiers, Start(v) \/ Step(v) \/ Fault(v)
    PROVE  /\ trace' = trace /\ keyring' = keyring /\ cut \subseteq cut'
           /\ \A w \in Verifiers \ {v} : excused[w] => excused'[w]
           /\ \/ UNCHANGED <<stored, legacy>>
              \/ /\ Create(v) \/ Write(v) \/ Unlink(v)
                 /\ \A w \in Verifiers \ {v} : Active(w) => excused'[w]
<1>1. excused \in [Verifiers -> BOOLEAN]
  BY DEF QInv, IInv, TypeOK
<1>2. CASE Start(v) \/ (Step(v) /\ ~(Create(v) \/ Write(v) \/ Unlink(v)))
  BY <1>1, <1>2 DEF Start, Step, Migrates, TraceMissing, LoadFromKeyring, ReadKey, KeyMissing, FindLegacy,
       ReadLegacy, LegacyVanished, Collide, OpenNote, WriteNote, Judge, keyVars
<1>3. CASE Fault(v)
  BY <1>1, <1>3 DEF Fault, CreateFails, WriteFails, NoteFails, UnlinkRefused, Crash, Fails, keyVars
<1>4. CASE Create(v) \/ Write(v) \/ Unlink(v)
  BY <1>1, <1>4 DEF Create, Write, Unlink, Moves, runVars
<1>. QED
  BY <1>2, <1>3, <1>4

LEMMA AttendedKeeps ==
    ASSUME QInv, NEW v \in Verifiers, Start(v) \/ Step(v) \/ Fault(v)
    PROVE  Attended'
<1>1. RunTypes /\ Attended /\ stored \in [Dirs -> {"absent", "empty", "whole"}] /\ Migration(v)
  BY DEF QInv, IInv, TypeOK, RunTypes
<1>2. Alone(v)
  BY <1>1, OnlyOneMoves
<1>. SUFFICES ASSUME NEW d \in Dirs, stored'[d] = "empty"
              PROVE  d \in cut' \/ \E w \in Verifiers : pc'[w] = "write" /\ place'[w] = d
  BY DEF Attended
<1>3. CASE Create(v) /\ d = place[v]
  BY <1>1, <1>3 DEF Create, Goto, RunTypes, runVars
<1>4. CASE stored[d] = "empty"
  <2>1. d \in cut => d \in cut'
    BY Effects
  <2>2. ASSUME NEW w \in Verifiers \ {v}, pc[w] = "write", place[w] = d
        PROVE  pc'[w] = "write" /\ place'[w] = d
    BY <1>2, <2>2 DEF Alone, Same
  <2>3. ASSUME pc[v] = "write", place[v] = d PROVE d \in cut'
    <3>1. CASE Write(v)
      BY <1>1, <1>4, <2>3, <3>1 DEF Write, Migration
    <3>2. CASE WriteFails(v) \/ Crash(v)
      BY <2>3, <3>2 DEF WriteFails, Crash, At
    <3>. QED
      BY <1>1, <2>3, <3>1, <3>2, Destinations DEF At
  <2>. QED
    BY <1>1, <1>4, <2>1, <2>2, <2>3 DEF Attended
<1>5. CASE stored[d] # "empty" /\ ~(Create(v) /\ d = place[v])
  BY <1>1, <1>5, Effects DEF Create, Write, Unlink, Migration, At
<1>. QED
  BY <1>3, <1>4, <1>5

LEMMA FreshKeeps ==
    ASSUME QInv, NEW v \in Verifiers, Start(v) \/ Step(v) \/ Fault(v)
    PROVE  Fresh'
<1>1. RunTypes /\ Fresh
  BY DEF QInv, IInv, TypeOK, RunTypes
<1>2. Alone(v)
  BY <1>1, OnlyOneMoves
<1>. QED
  BY <1>1, <1>2, Destinations DEF Fresh, Alone, Same

\* What an undisturbed invocation relies on outlives the steps of the others.
LEMMA OthersRely ==
    ASSUME QInv, NEW v \in Verifiers, Start(v) \/ Step(v) \/ Fault(v),
           NEW w \in Verifiers \ {v}, Quiet(w)'
    PROVE  Relies(w)'
<1>1. RunTypes /\ excused \in [Verifiers -> BOOLEAN]
  BY DEF QInv, IInv, TypeOK, RunTypes
<1>2. Same(w) /\ Alone(v)
  BY <1>1, OnlyOneMoves DEF Alone
<1>3. Quiet(w) /\ UNCHANGED <<trace, keyring, stored, legacy>>
  BY <1>2, Effects DEF Quiet, Active, Same
<1>4. Relies(w)
  BY <1>3 DEF QInv
<1>5. ~Create(v)
  BY <1>1, <1>2, <1>3 DEF Create, Moves, Quiet
<1>6. \A u \in Verifiers \ {w} : pc'[u] # "write"
  BY <1>1, <1>2, <1>4, <1>5, Destinations DEF Relies, Alone, Same
<1>7. /\ Reached(w)' <=> Reached(w)
      /\ valid'[w] = valid[w]
  BY <1>2, <1>3 DEF Reached, Same
<1>. QED
  BY <1>2, <1>3, <1>4, <1>6, <1>7 DEF Relies, Same

\* An undisturbed invocation finds a whole key or none.
LEMMA NeverEmpty ==
    ASSUME QInv, NEW v \in Verifiers, Quiet(v), place[v] \in Dirs, pc[v] # "write"
    PROVE  stored[place[v]] \in {"absent", "whole"}
<1>1. Relies(v) /\ Attended /\ stored \in [Dirs -> {"absent", "empty", "whole"}]
  BY DEF QInv, IInv, TypeOK
<1>. QED
  BY <1>1 DEF Attended, Relies, Quiet

\* After the first of the two calls, the invocation relies on what that call
\* found out and on the key being where it left it.
LEMMA FirstCall ==
    ASSUME QInv, NEW v \in Verifiers, NEW ok \in BOOLEAN, NEW missing \in BOOLEAN,
           Return(v, ok, missing), Active(v)', Relies(v), UNCHANGED <<trace, keyVars>>,
           ok <=> trace = "genuine" /\ Reached(v),
           trace # "absent" /\ place[v] \in Dirs /\ sees[v] /\ legacy = "whole" =>
               stored[place[v]] # "absent"
    PROVE  Relies(v)'
<1>1. RunTypes
  BY DEF QInv, IInv, TypeOK, RunTypes
<1>2. /\ pc'[v] = "load" /\ call'[v] = 2 /\ valid'[v] = ok
      /\ UNCHANGED <<place, sees>> /\ Alone(v)
  <2>1. ~Exit(v, IF valid[v] THEN "0" ELSE IF missing THEN "2" ELSE "1")
    BY <1>1 DEF Exit, Goto, Active, Resting, RunTypes
  <2>2. /\ Goto(v, "load") /\ UNCHANGED <<place, sees>>
        /\ valid' = [valid EXCEPT ![v] = ok] /\ call' = [call EXCEPT ![v] = 2]
    BY <2>1 DEF Return
  <2>3. pc'[v] = "load" /\ call'[v] = 2 /\ valid'[v] = ok
    BY <1>1, <2>2 DEF Goto, RunTypes
  <2>. QED
    BY <1>1, <2>2, <2>3, ReturnMoves
<1>3. Reached(v)' <=> Reached(v)
  BY <1>2 DEF Reached, keyVars
<1>4. UNCHANGED <<trace, stored, legacy>>
  BY DEF keyVars
<1>. QED
  BY <1>2, <1>3, <1>4 DEF Relies, Alone, Same, Copied

LEMMA OwnRelies ==
    ASSUME QInv, NEW v \in Verifiers, Start(v) \/ Step(v) \/ Fault(v), Quiet(v)'
    PROVE  Relies(v)'
<1>1. /\ RunTypes /\ excused \in [Verifiers -> BOOLEAN] /\ Migration(v)
      /\ stored \in [Dirs -> {"absent", "empty", "whole"}]
  BY DEF QInv, IInv, TypeOK, RunTypes
<1>2. Alone(v)
  BY <1>1, OnlyOneMoves
<1>3. CASE Start(v)
  <2>1. \A w \in Verifiers \ {v} : pc[w] # "write"
    BY <1>1, <1>3 DEF Start, Quiet, At
  <2>2. pc'[v] = "load" /\ call'[v] = 1
    BY <1>1, <1>3 DEF Start, Goto, RunTypes, QInv, Fresh
  <2>. QED
    BY <1>2, <2>1, <2>2 DEF Relies, Alone, Same, Copied
<1>. SUFFICES ASSUME ~Start(v) PROVE Relies(v)'
  BY <1>3
<1>4. /\ ~(Crash(v) \/ CreateFails(v) \/ WriteFails(v) \/ NoteFails(v))
      /\ ~Exit(v, "1")
  BY <1>1 DEF Crash, CreateFails, WriteFails, NoteFails, Fails, Exit, Goto, Quiet, Active, Resting, RunTypes
<1>5. excused'[v] = excused[v] /\ cut' = cut /\ trace' = trace /\ Active(v) /\ place' = place
  <2>1. Active(v)
    BY <1>4 DEF Step, Migrates, Fault, TraceMissing, LoadFromKeyring, ReadKey, KeyMissing, FindLegacy,
         ReadLegacy, LegacyVanished, Create, Collide, Write, OpenNote, WriteNote, Unlink,
         UnlinkRefused, Judge, Active, Resting, At
  <2>2. excused'[v] = excused[v] /\ cut' = cut /\ trace' = trace
    BY <1>1, <1>4 DEF Step, Migrates, Fault, TraceMissing, LoadFromKeyring, ReadKey, KeyMissing,
         FindLegacy, ReadLegacy, LegacyVanished, Create, Collide, Write, OpenNote, WriteNote, Unlink,
         UnlinkRefused, Judge, Moves, keyVars
  <2>3. ASSUME NEW ok, NEW missing, Return(v, ok, missing) PROVE place' = place
    BY <1>1, <2>3 DEF Return, Exit, Goto, Quiet, Active, Resting, RunTypes
  <2>4. place' = place
    BY <1>4, <2>3 DEF Step, Migrates, Fault, TraceMissing, LoadFromKeyring, ReadKey, KeyMissing,
         FindLegacy, ReadLegacy, LegacyVanished, Create, Collide, Write, OpenNote, WriteNote, Unlink,
         UnlinkRefused, Judge, Raise, Hold, runVars
  <2>. QED
    BY <2>1, <2>2, <2>4
<1>6. Quiet(v) /\ Relies(v)
  BY <1>5 DEF Quiet, QInv
<1>7. CASE TraceMissing(v)
  BY <1>6, <1>7, FirstCall DEF TraceMissing, Quiet
<1>8. CASE LoadFromKeyring(v)
  <2>1. CASE Hold(v, "whole", "judge") /\ place[v] = "keyring" /\ keyring
    BY <1>1, <1>2, <1>6, <1>8, <2>1
       DEF LoadFromKeyring, Hold, Goto, Relies, Reached, RunTypes, Alone, Same, Copied, keyVars
  <2>2. CASE Return(v, FALSE, TRUE) /\ ~(place[v] = "keyring" /\ keyring)
    BY <1>6, <1>8, <2>2, FirstCall DEF LoadFromKeyring, Quiet, Reached
  <2>. QED
    BY <1>4, <1>8, <2>1, <2>2 DEF LoadFromKeyring, Raise
<1>9. CASE ReadKey(v)
  <2>1. stored[place[v]] = "whole"
    BY <1>6, <1>9, NeverEmpty DEF ReadKey, At
  <2>. QED
    BY <1>1, <1>2, <1>6, <1>9, <2>1
       DEF ReadKey, Hold, Goto, Relies, Reached, RunTypes, Alone, Same, Copied, keyVars
<1>10. CASE KeyMissing(v)
  BY <1>1, <1>2, <1>6, <1>10
     DEF KeyMissing, Goto, Relies, Reached, RunTypes, Alone, Same, Copied, keyVars, runVars
<1>11. CASE FindLegacy(v)
  <2>1. pc[v] = "legacy" /\ place[v] \in Dirs /\ stored[place[v]] = "absent" /\ trace # "absent"
    BY <1>1, <1>6, <1>11 DEF FindLegacy, At, Migration, Relies
  <2>2. CASE sees[v] /\ legacy = "whole" /\ Goto(v, "copy") /\ UNCHANGED runVars
    <3>1. call[v] = 1
      BY <1>1, <1>6, <2>1, <2>2 DEF Relies, RunTypes
    <3>. QED
      BY <1>1, <1>2, <1>6, <1>11, <2>1, <2>2, <3>1
         DEF FindLegacy, Goto, Relies, Reached, RunTypes, Alone, Same, Copied, keyVars, runVars
  <2>3. CASE ~(sees[v] /\ legacy = "whole") /\ Return(v, FALSE, TRUE)
    <3>1. ~Reached(v)
      BY <2>1, KeyStoreAssumption DEF KeyStoreAssumption, Reached, Keyrings
    <3>. QED
      BY <1>6, <1>11, <2>3, <3>1, FirstCall DEF FindLegacy, Quiet
  <2>. QED
    BY <1>11, <2>2, <2>3 DEF FindLegacy
<1>12. CASE ReadLegacy(v)
  BY <1>1, <1>2, <1>6, <1>12
     DEF ReadLegacy, Hold, Goto, Relies, Reached, RunTypes, Alone, Same, Copied, At, keyVars
<1>13. CASE Create(v) \/ Write(v) \/ OpenNote(v) \/ WriteNote(v)
  BY <1>1, <1>2, <1>6, <1>13
     DEF Create, Write, OpenNote, WriteNote, Goto, Relies, Reached, RunTypes, Alone, Same,
         Copied, At, runVars
<1>14. CASE Unlink(v) \/ UnlinkRefused(v)
  <2>1. place[v] \in Dirs /\ stored[place[v]] = "whole" /\ held[v] = "whole" /\ trace # "absent"
        /\ call[v] = 1 /\ UNCHANGED <<runVars, stored>> /\ pc'[v] = "judge"
    BY <1>1, <1>6, <1>14
       DEF Unlink, UnlinkRefused, Goto, Migration, Relies, RunTypes, Copied, At, keyVars
  <2>. QED
    BY <1>2, <1>5, <1>6, <2>1 DEF Relies, Reached, Alone, Same, Copied, runVars
<1>15. CASE Judge(v)
  <2>1. Reached(v) /\ held[v] = "whole" /\ trace # "absent"
    BY <1>6, <1>15 DEF Judge, Relies, At
  <2>2. place[v] \in Dirs => stored[place[v]] # "absent"
    BY <2>1, KeyStoreAssumption DEF KeyStoreAssumption, Reached, Keyrings
  <2>. QED
    BY <1>6, <1>15, <2>1, <2>2, FirstCall DEF Judge, Quiet
<1>. QED
  BY <1>4, <1>7, <1>8, <1>9, <1>10, <1>11, <1>12, <1>13, <1>14, <1>15
     DEF Step, Migrates, Fault, LegacyVanished, Collide, Raise

LEMMA QuietKeeps == QInv /\ [Next]_vars => QInv'
<1>. SUFFICES ASSUME QInv, [Next]_vars PROVE QInv'
  OBVIOUS
<1>1. IInv'
  BY StepKeeps DEF QInv
<1>2. CASE UNCHANGED vars
  <2>1. Attended' /\ Fresh'
    BY <1>2 DEF QInv, Attended, Fresh, vars, keyVars, runVars
  <2>2. ASSUME NEW v \in Verifiers PROVE Quiet(v)' => Relies(v)'
    BY <1>2 DEF QInv, Quiet, Relies, Reached, Active, vars, keyVars, runVars
  <2>. QED
    BY <1>1, <2>1, <2>2 DEF QInv
<1>3. CASE Next
  <2>1. PICK v \in Verifiers : Start(v) \/ Step(v) \/ Fault(v)
    BY <1>3 DEF Next
  <2>. QED
    BY <1>1, <2>1, AttendedKeeps, FreshKeeps, OthersRely, OwnRelies DEF QInv
<1>. QED
  BY <1>2, <1>3

LEMMA QuietInvariance == Spec => []QInv
<1>1. Init => QInv
  <2>1. Init => Attended /\ Fresh
    BY DEF Init, Attended, Fresh
  <2>2. Init => \A v \in Verifiers : ~Active(v)
    BY DEF Init, Active, Resting
  <2>. QED
    BY <2>1, <2>2, InitHolds DEF QInv, Quiet
<1>. QED
  BY <1>1, QuietKeeps, PTL DEF Spec

LEMMA VerdictStep ==
    ASSUME QInv, [Next]_vars, NEW v \in Verifiers, Active(v), pc'[v] = "exited", ~excused'[v],
           place[v] \notin cut' \cup {"keyring without service"}
    PROVE  exit'[v] = Deserved(v)
<1>1. /\ RunTypes /\ excused \in [Verifiers -> BOOLEAN] /\ Migration(v)
      /\ stored \in [Dirs -> {"absent", "empty", "whole"}]
  BY DEF QInv, IInv, TypeOK, RunTypes
<1>2. pc[v] # "exited"
  BY DEF Active, Resting
<1>3. PICK w \in Verifiers : Start(w) \/ Step(w) \/ Fault(w)
  BY <1>2 DEF Next, vars
<1>4. w = v
  BY <1>1, <1>2, <1>3, OnlyOneMoves DEF Alone, Same
<1>5. ~(Start(v) \/ CreateFails(v) \/ WriteFails(v) \/ NoteFails(v) \/ Crash(v))
  BY <1>1 DEF Start, Crash, CreateFails, WriteFails, NoteFails, Fails, Goto, RunTypes
<1>6. \/ TraceMissing(v) \/ LoadFromKeyring(v) \/ FindLegacy(v) \/ LegacyVanished(v)
      \/ Collide(v) \/ Judge(v)
  BY <1>1, <1>3, <1>4, <1>5
     DEF Step, Migrates, Fault, ReadKey, KeyMissing, ReadLegacy, Create, Write, OpenNote, WriteNote,
         Unlink, UnlinkRefused, Hold, Goto, RunTypes
<1>7. Quiet(v) /\ Relies(v)
  <2>1. excused' = excused /\ cut' = cut
    BY <1>6 DEF TraceMissing, LoadFromKeyring, FindLegacy, LegacyVanished, Collide, Judge, keyVars
  <2>. QED
    BY <2>1 DEF Quiet, QInv
<1>8. ASSUME NEW ok \in BOOLEAN, NEW missing \in BOOLEAN, Return(v, ok, missing)
      PROVE  /\ exit'[v] = (IF valid[v] THEN "0" ELSE IF missing THEN "2" ELSE "1")
             /\ valid[v] <=> trace = "genuine" /\ Reached(v)
  <2>1. call[v] = 2 /\ Exit(v, IF valid[v] THEN "0" ELSE IF missing THEN "2" ELSE "1")
    BY <1>1, <1>8 DEF Return, Goto, RunTypes
  <2>. QED
    BY <1>1, <1>7, <2>1 DEF Relies, Exit, RunTypes
<1>9. CASE TraceMissing(v)
  BY <1>8, <1>9 DEF TraceMissing, Deserved
<1>10. CASE LoadFromKeyring(v)
  <2>1. Return(v, FALSE, TRUE) /\ ~Reached(v)
    BY <1>1, <1>10 DEF LoadFromKeyring, Hold, Goto, RunTypes, Reached
  <2>. QED
    BY <1>8, <2>1 DEF Deserved
<1>11. CASE FindLegacy(v)
  <2>1. Return(v, FALSE, TRUE)
    BY <1>1, <1>11 DEF FindLegacy, Goto, RunTypes
  <2>2. ~Reached(v)
    BY <1>1, <1>7, <1>11, KeyStoreAssumption
       DEF KeyStoreAssumption, FindLegacy, At, Migration, Relies, Reached, Keyrings
  <2>. QED
    BY <1>8, <2>1, <2>2 DEF Deserved
<1>12. CASE LegacyVanished(v) \/ Collide(v)
  BY <1>7, <1>12 DEF LegacyVanished, Collide, At, Relies
<1>13. CASE Judge(v)
  <2>1. Reached(v) /\ trace # "absent" /\ Return(v, trace = "genuine" /\ held[v] = "whole", FALSE)
    BY <1>7, <1>13 DEF Judge, At, Relies
  <2>. QED
    BY <1>8, <2>1 DEF Deserved
<1>. QED
  BY <1>6, <1>9, <1>10, <1>11, <1>12, <1>13

\* An invocation during which nobody moves the key, in a directory where no
\* migration was cut short, exits with the code it deserves (verify_trace.py:112).
THEOREM QuietVerdict == Spec => QuietVerdictIsRight
<1>1. QInv /\ [Next]_vars =>
        [\A v \in Verifiers :
            Active(v) /\ pc'[v] = "exited" /\ ~excused'[v]
            /\ place[v] \notin cut' \cup {"keyring without service"}
               => exit'[v] = Deserved(v)]_vars
  BY VerdictStep
<1>. QED
  BY <1>1, QuietInvariance, PTL DEF Spec, QuietVerdictIsRight
=============================================================================
