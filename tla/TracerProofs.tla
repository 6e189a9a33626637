---------------------------- MODULE TracerProofs ----------------------------
(***************************************************************************)
(* Theorems about the audit trail, for any number of calls.                *)
(*                                                                         *)
(* That the log verifies is not inductive: whether the next line fits      *)
(* depends on seq and prev_hash, which trace() brings up to date in two    *)
(* statements after the line is on file, and on the entry that a call -    *)
(* the pipeline's or the signal handler's - has built and not yet written. *)
(* Sound says, for the call in progress, where the tracer's state stands   *)
(* relative to the end of the chain; Handled says that the code a signal   *)
(* interrupted stays where it was; Keyed ties the key on file and in       *)
(* memory to the progress of init_run; Counted bounds seq by the entries   *)
(* built.                                                                  *)
(***************************************************************************)
EXTENDS Tracer, TLAPS

-----------------------------------------------------------------------------
(***************************************************************************)
(* What every state satisfies.                                             *)
(***************************************************************************)
\* How far init_run is decides the key in memory and the key on file.
Keyed ==
    /\ signKey = IF setup \in {"keyed", "created", "ready"} THEN "run" ELSE "empty"
    /\ keyFile = IF setup = "ready" THEN "run"
                 ELSE IF setup = "created" THEN "empty" ELSE "absent"
    /\ setup # "ready" => pc["main"] = "idle"

\* The handler runs after the signal, which finds the main thread where it stays
\* until it unwinds.
Handled ==
    /\ ~shuttingDown => pc["handler"] = "idle" /\ struck = "nowhere" /\ ~exiting
    /\ shuttingDown => IF setup = "ready" THEN pc["main"] \in {struck, "idle"}
                       ELSE struck = setup

\* Entries are counted: one per call of the pipeline and one of the handler, and
\* seq counts no entry before it was built.
Underway(c) == pc[c] \in {"built", "buffered", "flushed", "linked"}
Current(c)  == shuttingDown = (c = "handler")

Counted ==
    /\ seq <= built
    /\ \A c \in Callers : ~exiting /\ Current(c) /\ Underway(c) => seq < built
    /\ ~shuttingDown => built <= MaxCalls
    /\ ~shuttingDown /\ pc["main"] = "entered" => built < MaxCalls
    /\ shuttingDown /\ pc["handler"] = "entered" => built <= MaxCalls

\* An entry that has been flushed is in the file, and so is every one whose call
\* returned.
Filed(h) == \E i \in DOMAIN file : file[i].e.hash = h
Kept ==
    ~Torn => /\ \A h \in acked : Filed(h)
             /\ \A c \in Callers : pc[c] \in {"flushed", "linked"} => Filed(entry[c].hash)

\* The lines form a chain, and the call in progress is where it continues: until
\* the flush the tracer's state is the end of the chain, from the flush to the end
\* of the call it is one entry behind.
LastHash == IF file = <<>> THEN Genesis ELSE file[Len(file)].e.hash

Linked ==
    \A i \in DOMAIN file :
        /\ file[i].kind = "entry" /\ file[i].e.seq = i - 1
        /\ file[i].e.prev = IF i = 1 THEN Genesis ELSE file[i - 1].e.hash

Signed == setup = "ready" => \A i \in DOMAIN file : file[i].e.key = "run"

\* The state of the tracer, as the call in progress at "place" finds it.
Following(place) ==
    /\ place \in {"idle", "entered", "built", "buffered"} =>
          seq = Len(file) /\ prevHash = LastHash
    /\ place = "flushed" => seq + 1 = Len(file)
    /\ place = "linked"  => seq + 1 = Len(file) /\ prevHash = LastHash

\* The entry of the call in progress, while it is not on file.
Fitting(c) ==
    /\ pc[c] \in {"built", "buffered"} =>
          entry[c].seq = Len(file) /\ entry[c].prev = LastHash /\ entry[c].key = signKey
    /\ pc[c] = "flushed" => entry[c].hash = LastHash

MidWrite == {"created", "buffered", "flushed", "linked"}

Sound ==
    ~Torn /\ struck \notin MidWrite =>
        /\ Linked /\ Signed
        /\ setup # "ready" /\ ~shuttingDown => file = <<>>
        /\ \A c \in Callers : Current(c) => Fitting(c) /\ (~exiting => Following(pc[c]))

TInv == TypeOK /\ Keyed /\ Handled /\ Counted

-----------------------------------------------------------------------------
LEMMA TypeInit == Init => TInv
<1> SUFFICES ASSUME Init PROVE TInv
  OBVIOUS
<1>1. 0 \in Signature /\ 0 \in Nat
  BY TracerAssumption DEF Signature
<1>2. NoEntry \in Entry
  BY <1>1 DEF NoEntry, Genesis, Entry
<1>3. TypeOK
  <2>1. entry \in [Callers -> Entry] /\ pc \in [Callers -> Places]
    BY <1>2 DEF Init, Places
  <2>2. file \in Seq(Line)
    BY DEF Init
  <2>3. seq \in 0 .. MaxCalls + 1
    BY <1>1 DEF Init, Signature
  <2> QED BY <1>1, <2>1, <2>2, <2>3 DEF Init, TypeOK, Setups, Genesis
<1>4. Keyed
  BY DEF Init, Keyed, Callers
<1>5. Handled
  BY DEF Init, Handled, Callers
<1>6. Counted
  BY <1>1, TracerAssumption DEF Init, Counted, Underway, Callers
<1> QED BY <1>3, <1>4, <1>5, <1>6 DEF TInv

\* Writing a line keeps the file a sequence of lines.
LEMMA PutTyped ==
  ASSUME file \in Seq(Line), NEW kind \in {"entry", "cut"}, NEW e \in Entry, Put(kind, e)
  PROVE  file' \in Seq(Line)
<1>1. CASE file # <<>> /\ file[Len(file)].kind = "cut"
  <2>1. Len(file) \in DOMAIN file /\ file[Len(file)] \in Line
    BY <1>1
  <2>2. PICK k \in {"cut", "garbled"} : file' = [file EXCEPT ![Len(file)].kind = k]
    BY <1>1 DEF Put
  <2>3. [file[Len(file)] EXCEPT !.kind = k] \in Line
    BY <2>1, <2>2 DEF Line
  <2> QED BY <1>1, <2>1, <2>2, <2>3
<1>2. CASE ~(file # <<>> /\ file[Len(file)].kind = "cut")
  <2>1. [kind |-> kind, e |-> e] \in Line
    BY DEF Line
  <2>2. file' = Append(file, [kind |-> kind, e |-> e])
    BY <1>2 DEF Put
  <2> QED BY <2>1, <2>2
<1> QED BY <1>1, <1>2

\* The entry a call builds, and the signature it gets.
LEMMA EntryTyped ==
  ASSUME TInv, NEW c \in Callers, Build(c)
  PROVE  entry' \in [Callers -> Entry] /\ built' \in Signature
<1>1. built <= MaxCalls
  BY DEF TInv, Counted, Build, At, Executes, Callers
<1>2. built + 1 \in Signature
  BY <1>1, TracerAssumption DEF TInv, TypeOK, Signature
<1>3. [seq |-> seq, prev |-> prevHash, hash |-> built + 1, key |-> signKey] \in Entry
  BY <1>2 DEF TInv, TypeOK, Entry
<1> QED BY <1>2, <1>3 DEF TInv, TypeOK, Build

LEMMA TypeStep == TInv /\ [Next]_vars => TInv'
<1> SUFFICES ASSUME TInv, [Next]_vars PROVE TInv'
  OBVIOUS
<1> USE TracerAssumption
    DEF TInv, Callers, Executes, At, Goto, vars, chainVars, callVars, procVars, logVars
<1>1. ASSUME NameRun PROVE TInv'
  <2>1. TypeOK'
    BY <1>1 DEF NameRun, SetUp, TypeOK, Setups, Places, Signature, Genesis
  <2>2. Keyed' /\ Handled'
    BY <1>1 DEF NameRun, SetUp, Keyed, Handled, TypeOK, Places
  <2>3. Counted'
    BY <1>1 DEF NameRun, SetUp, Counted, Keyed, Handled, Underway, Current, TypeOK, Signature
  <2> QED BY <2>1, <2>2, <2>3
<1>2. ASSUME MakeRunDir PROVE TInv'
  <2>1. TypeOK'
    BY <1>2 DEF MakeRunDir, SetUp, TypeOK, Setups, Places, Signature, Genesis
  <2>2. Keyed' /\ Handled'
    BY <1>2 DEF MakeRunDir, SetUp, Keyed, Handled, TypeOK, Places
  <2>3. Counted'
    BY <1>2 DEF MakeRunDir, SetUp, Counted, Handled, Underway, Current, TypeOK
  <2> QED BY <2>1, <2>2, <2>3
<1>3. ASSUME SetKey PROVE TInv'
  <2>1. TypeOK'
    BY <1>3 DEF SetKey, SetUp, TypeOK, Setups, Places, Signature, Genesis
  <2>2. Keyed' /\ Handled'
    BY <1>3 DEF SetKey, SetUp, Keyed, Handled, TypeOK, Places
  <2>3. Counted'
    BY <1>3 DEF SetKey, SetUp, Counted, Handled, Underway, Current, TypeOK
  <2> QED BY <2>1, <2>2, <2>3
<1>4. ASSUME CreateKeyFile PROVE TInv'
  <2>1. TypeOK'
    BY <1>4 DEF CreateKeyFile, SetUp, TypeOK, Setups, Places, Signature, Genesis
  <2>2. Keyed' /\ Handled'
    BY <1>4 DEF CreateKeyFile, SetUp, Keyed, Handled, TypeOK, Places
  <2>3. Counted'
    BY <1>4 DEF CreateKeyFile, SetUp, Counted, Handled, Underway, Current, TypeOK
  <2> QED BY <2>1, <2>2, <2>3
<1>5. ASSUME WriteKeyFile PROVE TInv'
  <2>1. TypeOK'
    BY <1>5 DEF WriteKeyFile, SetUp, TypeOK, Setups, Places, Signature, Genesis
  <2>2. Keyed' /\ Handled'
    BY <1>5 DEF WriteKeyFile, SetUp, Keyed, Handled, TypeOK, Places
  <2>3. Counted'
    BY <1>5 DEF WriteKeyFile, SetUp, Counted, Handled, Underway, Current, TypeOK
  <2> QED BY <2>1, <2>2, <2>3
<1>6. ASSUME Call PROVE TInv'
  <2>1. TypeOK'
    BY <1>6 DEF Call, TypeOK, Setups, Places, Signature, Genesis
  <2>2. Keyed' /\ Handled'
    BY <1>6 DEF Call, Keyed, Handled, TypeOK, Places
  <2>3. Counted'
    BY <1>6 DEF Call, Counted, Handled, Underway, Current, TypeOK
  <2> QED BY <2>1, <2>2, <2>3
<1>7. ASSUME Exit PROVE TInv'
  <2>1. TypeOK'
    BY <1>7 DEF Exit, TypeOK, Setups, Places, Signature, Genesis
  <2>2. Keyed' /\ Handled'
    BY <1>7 DEF Exit, Keyed, Handled, TypeOK, Places
  <2>3. Counted'
    BY <1>7 DEF Exit, Counted, Handled, Underway, Current, TypeOK
  <2> QED BY <2>1, <2>2, <2>3
<1>8. ASSUME Signal PROVE TInv'
  <2>1. TypeOK'
    BY <1>8 DEF Signal, TypeOK, Setups, Places, Signature, Genesis
  <2>2. Keyed' /\ Handled'
    BY <1>8 DEF Signal, Keyed, Handled, TypeOK, Places
  <2>3. Counted'
    BY <1>8 DEF Signal, Counted, Handled, Underway, Current, TypeOK
  <2> QED BY <2>1, <2>2, <2>3
<1>9. ASSUME SecondSignal PROVE TInv'
  <2>1. TypeOK'
    BY <1>9 DEF SecondSignal, TypeOK, Setups, Places, Signature, Genesis
  <2>2. Keyed' /\ Handled'
    BY <1>9 DEF SecondSignal, Keyed, Handled, TypeOK, Places
  <2>3. Counted'
    BY <1>9 DEF SecondSignal, Counted, Handled, Underway, Current, TypeOK
  <2> QED BY <2>1, <2>2, <2>3
<1>10. ASSUME Kill PROVE TInv'
  <2>1. TypeOK'
    BY <1>10, PutTyped DEF Kill, TypeOK, Setups, Places, Signature, Genesis
  <2>2. Keyed' /\ Handled'
    BY <1>10 DEF Kill, Keyed, Handled, TypeOK, Places
  <2>3. Counted'
    BY <1>10 DEF Kill, Counted, Handled, Underway, Current, TypeOK
  <2> QED BY <2>1, <2>2, <2>3
<1>11. ASSUME NEW c \in Callers, Build(c) PROVE TInv'
  <2>1. TypeOK'
    <3>1. entry' \in [Callers -> Entry] /\ built' \in Signature
      BY <1>11, EntryTyped
    <3>2. pc' \in [Callers -> Places]
      BY <1>11 DEF Build, TypeOK, Places
    <3> QED BY <1>11, <3>1, <3>2 DEF Build, TypeOK
  <2>2. Keyed' /\ Handled'
    BY <1>11 DEF Build, Keyed, Handled, TypeOK, Places
  <2>3. Counted'
    BY <1>11 DEF Build, Counted, Handled, Underway, Current, TypeOK, Signature
  <2> QED BY <2>1, <2>2, <2>3
<1>12. ASSUME NEW c \in Callers, Buffer(c) PROVE TInv'
  <2>1. TypeOK'
    BY <1>12 DEF Buffer, Counted, Current, Underway, TypeOK, Setups, Places, Signature
  <2>2. Keyed' /\ Handled'
    BY <1>12 DEF Buffer, Keyed, Handled, TypeOK, Places
  <2>3. Counted'
    BY <1>12 DEF Buffer, Counted, Handled, Underway, Current, TypeOK, Signature
  <2> QED BY <2>1, <2>2, <2>3
<1>13. ASSUME NEW c \in Callers, Flush(c) PROVE TInv'
  <2>1. TypeOK'
    BY <1>13, PutTyped DEF Flush, Counted, Current, Underway, TypeOK, Setups, Places, Signature
  <2>2. Keyed' /\ Handled'
    BY <1>13 DEF Flush, Keyed, Handled, TypeOK, Places
  <2>3. Counted'
    BY <1>13 DEF Flush, Counted, Handled, Underway, Current, TypeOK, Signature
  <2> QED BY <2>1, <2>2, <2>3
<1>14. ASSUME NEW c \in Callers, Link(c) PROVE TInv'
  <2>1. TypeOK'
    BY <1>14 DEF Link, Entry, Counted, Current, Underway, TypeOK, Setups, Places, Signature
  <2>2. Keyed' /\ Handled'
    BY <1>14 DEF Link, Keyed, Handled, TypeOK, Places
  <2>3. Counted'
    BY <1>14 DEF Link, Counted, Handled, Underway, Current, TypeOK, Signature
  <2> QED BY <2>1, <2>2, <2>3
<1>15. ASSUME NEW c \in Callers, Return(c) PROVE TInv'
  <2>1. TypeOK'
    <3>1. seq < built
      BY <1>15 DEF Return, Counted, Current, Underway
    <3>2. seq' \in 0 .. MaxCalls + 1
      BY <1>15, <3>1 DEF Return, TypeOK, Signature
    <3>3. acked' \subseteq Signature
      BY <1>15 DEF Return, TypeOK, Entry
    <3>4. pc' \in [Callers -> Places] /\ exiting' \in BOOLEAN
      BY <1>15 DEF Return, EndCall, TypeOK, Places
    <3> QED BY <1>15, <3>2, <3>3, <3>4 DEF Return, TypeOK
  <2>2. Keyed' /\ Handled'
    BY <1>15 DEF Return, EndCall, Keyed, Handled, TypeOK, Places
  <2>3. Counted'
    BY <1>15 DEF Return, EndCall, Counted, Handled, Underway, Current, TypeOK, Signature
  <2> QED BY <2>1, <2>2, <2>3
<1>16. ASSUME NEW c \in Callers, OpenRaises(c) PROVE TInv'
  <2>1. TypeOK'
    BY <1>16 DEF OpenRaises, EndCall, Counted, Current, Underway, TypeOK, Setups, Places, Signature
  <2>2. Keyed' /\ Handled'
    BY <1>16 DEF OpenRaises, EndCall, Keyed, Handled, TypeOK, Places
  <2>3. Counted'
    BY <1>16 DEF OpenRaises, EndCall, Counted, Handled, Underway, Current, TypeOK, Signature
  <2> QED BY <2>1, <2>2, <2>3
<1>17. ASSUME NEW c \in Callers, WriteRaises(c) PROVE TInv'
  <2>1. TypeOK'
    BY <1>17, PutTyped DEF WriteRaises, EndCall, Counted, Current, Underway, TypeOK, Setups,
       Places, Signature
  <2>2. Keyed' /\ Handled'
    BY <1>17 DEF WriteRaises, EndCall, Keyed, Handled, TypeOK, Places
  <2>3. Counted'
    BY <1>17 DEF WriteRaises, EndCall, Counted, Handled, Underway, Current, TypeOK, Signature
  <2> QED BY <2>1, <2>2, <2>3
<1>18. ASSUME NEW c \in Callers, Unwind(c) PROVE TInv'
  <2>1. TypeOK'
    BY <1>18, PutTyped DEF Unwind, Counted, Current, Underway, TypeOK, Setups, Places, Signature
  <2>2. Keyed' /\ Handled'
    BY <1>18 DEF Unwind, Keyed, Handled, TypeOK, Places
  <2>3. Counted'
    BY <1>18 DEF Unwind, Counted, Handled, Underway, Current, TypeOK, Signature
  <2> QED BY <2>1, <2>2, <2>3
<1>19. ASSUME UNCHANGED vars PROVE TInv'
  BY <1>19 DEF TypeOK, Keyed, Handled, Counted, Underway, Current, Signature
<1> QED
  BY <1>1, <1>2, <1>3, <1>4, <1>5, <1>6, <1>7, <1>8, <1>9, <1>10, <1>11, <1>12, <1>13,
     <1>14, <1>15, <1>16, <1>17, <1>18, <1>19
  DEF Next, Step, InitRun, TraceCall

\* The tracer's variables keep their types; seq never passes the number of entries
\* the calls can build.
THEOREM TypeCorrect == Spec => []TypeOK
<1>1. Init => TInv
  BY TypeInit
<1>2. TInv /\ [Next]_vars => TInv'
  BY TypeStep
<1>3. TInv => TypeOK
  BY DEF TInv
<1> QED BY <1>1, <1>2, <1>3, PTL DEF Spec

-----------------------------------------------------------------------------
(***************************************************************************)
(* No acknowledged entry is lost.                                          *)
(***************************************************************************)
\* A cut stays in the log for good; without one, a write appends one whole entry.
LEMMA WholeWrite ==
  ASSUME file \in Seq(Line), NEW kind \in {"entry", "cut"}, NEW e \in Entry,
         Put(kind, e), ~Torn'
  PROVE  ~Torn /\ kind = "entry" /\ file' = Append(file, [kind |-> kind, e |-> e])
<1>1. CASE file # <<>> /\ file[Len(file)].kind = "cut"
  <2>1. Len(file) \in DOMAIN file'
    BY <1>1 DEF Put
  <2>2. file'[Len(file)].kind # "entry"
    BY <1>1 DEF Put, Line
  <2> QED BY <2>1, <2>2 DEF Torn
<1>2. CASE ~(file # <<>> /\ file[Len(file)].kind = "cut")
  <2>1. file' = Append(file, [kind |-> kind, e |-> e])
    BY <1>2 DEF Put
  <2>2. Len(file') = Len(file) + 1 /\ file'[Len(file) + 1] = [kind |-> kind, e |-> e]
    BY <2>1
  <2>3. kind = "entry"
    BY <2>2 DEF Torn
  <2>4. \A i \in DOMAIN file : i \in DOMAIN file' /\ file'[i] = file[i]
    BY <2>1
  <2>5. ~Torn
    BY <2>4 DEF Torn
  <2> QED BY <2>1, <2>3, <2>5
<1> QED BY <1>1, <1>2

\* A write keeps what was on file.
LEMMA WriteKeeps ==
  ASSUME file \in Seq(Line), NEW kind \in {"entry", "cut"}, NEW e \in Entry,
         Put(kind, e), ~Torn'
  PROVE  /\ \A h : Filed(h) => Filed(h)'
         /\ Filed(e.hash)'
<1>1. ~Torn /\ kind = "entry" /\ file' = Append(file, [kind |-> kind, e |-> e])
  BY WholeWrite
<1>2. \A i \in DOMAIN file : i \in DOMAIN file' /\ file'[i] = file[i]
  BY <1>1
<1>3. Len(file) + 1 \in DOMAIN file' /\ file'[Len(file) + 1].e = e
  BY <1>1
<1> QED BY <1>2, <1>3 DEF Filed

LEMMA KeptStep == TInv /\ Kept /\ [Next]_vars => Kept'
<1> SUFFICES ASSUME TInv, Kept, [Next]_vars PROVE Kept'
  OBVIOUS
<1> USE DEF Callers, Executes, At, Goto, vars, chainVars, callVars, procVars, logVars
<1>0. file \in Seq(Line) /\ entry \in [Callers -> Entry] /\ pc \in [Callers -> Places]
  BY DEF TInv, TypeOK
<1>1. ASSUME UNCHANGED <<file, acked, entry>>,
             \A c \in Callers : pc'[c] \in {"flushed", "linked"} => pc[c] \in {"flushed", "linked"}
      PROVE  Kept'
  BY <1>1 DEF Kept, Torn, Filed
<1>2. ASSUME InitRun \/ Call \/ Exit \/ Signal \/ SecondSignal \/ UNCHANGED vars PROVE Kept'
  BY <1>0, <1>1, <1>2 DEF InitRun, NameRun, MakeRunDir, SetKey, CreateKeyFile, WriteKeyFile, SetUp,
                          Call, Exit, Signal, SecondSignal
<1>3. ASSUME NEW c \in Callers, Buffer(c) \/ OpenRaises(c) PROVE Kept'
  BY <1>0, <1>1, <1>3 DEF Buffer, OpenRaises, EndCall
<1>4. ASSUME NEW c \in Callers, Build(c) PROVE Kept'
  BY <1>0, <1>4 DEF Build, Kept, Torn, Filed
<1>5. ASSUME NEW c \in Callers, Flush(c) PROVE Kept'
  <2>1. entry[c] \in Entry /\ Put("entry", entry[c])
    BY <1>0, <1>5 DEF Flush
  <2>2. ~Torn' => ~Torn /\ \A h : Filed(h) => Filed(h)'
    BY <1>0, <2>1, WriteKeeps, WholeWrite
  <2>3. ~Torn' => \E i \in DOMAIN file' : file'[i].e.hash = entry[c].hash
    BY <1>0, <2>1, WriteKeeps DEF Filed
  <2>4. ASSUME ~Torn', NEW h \in acked' PROVE Filed(h)'
    BY <1>5, <2>2, <2>4 DEF Flush, Kept
  <2>5. ASSUME ~Torn', NEW d \in Callers, pc'[d] \in {"flushed", "linked"}
        PROVE  Filed(entry[d].hash)' /\ entry' = entry
    <3>1. CASE d = c
      BY <1>5, <2>3, <2>5, <3>1 DEF Flush, Filed
    <3>2. CASE d # c
      <4>1. entry' = entry /\ pc[d] \in {"flushed", "linked"}
        BY <1>0, <1>5, <2>5, <3>2 DEF Flush
      <4>2. Filed(entry[d].hash)
        BY <2>2, <2>5, <4>1 DEF Kept
      <4> QED BY <2>2, <2>5, <4>1, <4>2 DEF Filed
    <3> QED BY <3>1, <3>2
  <2> QED BY <2>4, <2>5 DEF Kept
<1>6. ASSUME NEW c \in Callers, Link(c) PROVE Kept'
  BY <1>0, <1>1, <1>6 DEF Link
<1>7. ASSUME NEW c \in Callers, Return(c) PROVE Kept'
  BY <1>0, <1>7 DEF Return, EndCall, Kept, Torn, Filed
<1>8. ASSUME NEW c \in Callers, WriteRaises(c) \/ Unwind(c) PROVE Kept'
  <2>1. CASE UNCHANGED file
    BY <1>0, <1>1, <1>8, <2>1 DEF WriteRaises, Unwind, EndCall
  <2>2. CASE \E kind \in {"entry", "cut"} : Put(kind, entry[c])
    <3>1. ~Torn' => ~Torn /\ \A h : Filed(h) => Filed(h)'
      BY <1>0, <2>2, WriteKeeps, WholeWrite
    <3> QED BY <1>0, <1>8, <3>1 DEF WriteRaises, Unwind, EndCall, Kept
  <2> QED BY <1>8, <2>1, <2>2 DEF WriteRaises, Unwind
<1>9. ASSUME Kill PROVE Kept'
  <2>1. CASE UNCHANGED file
    BY <1>0, <1>1, <1>9, <2>1 DEF Kill
  <2>2. CASE \E c \in Callers : Put("cut", entry[c])
    <3>1. ~Torn' => ~Torn /\ \A h : Filed(h) => Filed(h)'
      BY <1>0, <2>2, WriteKeeps, WholeWrite
    <3> QED BY <1>0, <1>9, <3>1 DEF Kill, Kept
  <2> QED BY <1>9, <2>1, <2>2 DEF Kill
<1> QED
  BY <1>2, <1>3, <1>4, <1>5, <1>6, <1>7, <1>8, <1>9 DEF Next, Step, TraceCall

\* What trace() acknowledged stays in the log when the process is killed at any point: it
\* was flushed to the system before trace() returned. (Power loss is outside the model.)
THEOREM AcknowledgedKept == Spec => []AckedAreOnFile
<1>1. Init => TInv /\ Kept
  BY TypeInit DEF Init, Kept
<1>2. TInv /\ Kept /\ [Next]_vars => (TInv /\ Kept)'
  BY TypeStep, KeptStep
<1>3. TInv /\ Kept => AckedAreOnFile
  BY DEF Kept, AckedAreOnFile, Filed
<1> QED BY <1>1, <1>2, <1>3, PTL DEF Spec

\* verify_trace accepts, of all rearrangements of a valid log's lines, its prefixes
\* only: for a log of any length.
THEOREM PrefixesOnly == Spec => []OnlyPrefixesVerify
<1>1. TypeOK => OnlyPrefixesVerify
  <2> SUFFICES ASSUME TypeOK, Chain(file),
                      NEW n \in 0 .. Len(file), NEW pick \in [1 .. n -> DOMAIN file],
                      Chain([i \in 1 .. n |-> file[pick[i]]]), NEW i \in 1 .. n
               PROVE  file[pick[i]] = file[i]
    BY DEF OnlyPrefixesVerify, Verdict
  <2>1. file[pick[i]].e.seq = i - 1
    BY DEF Chain
  <2>2. pick[i] \in DOMAIN file /\ file[pick[i]].e.seq = pick[i] - 1
    BY DEF Chain
  <2>3. pick[i] \in Int /\ i \in Int
    BY <2>2 DEF TypeOK
  <2> QED BY <2>1, <2>2, <2>3
<1> QED BY <1>1, TypeCorrect, PTL

-----------------------------------------------------------------------------
(***************************************************************************)
(* The log breaks only in the middle of a write.                           *)
(***************************************************************************)
\* An entry that names the end of the chain continues it.
LEMMA ChainGrows ==
  ASSUME file \in Seq(Line), NEW e \in Entry, Put("entry", e), ~Torn',
         Linked, e.seq = Len(file), e.prev = LastHash
  PROVE  /\ Linked' /\ LastHash' = e.hash /\ Len(file') = Len(file) + 1
         /\ \A i \in DOMAIN file' : file'[i].e.key = e.key
                                   \/ (i \in DOMAIN file /\ file'[i].e.key = file[i].e.key)
<1> DEFINE n == Len(file)
<1>1. file' = Append(file, [kind |-> "entry", e |-> e])
  BY WholeWrite
<1>2. /\ n \in Nat /\ Len(file') = n + 1 /\ file' # <<>>
      /\ DOMAIN file' = 1 .. n + 1 /\ DOMAIN file = 1 .. n
      /\ file'[n + 1] = [kind |-> "entry", e |-> e]
  BY <1>1
<1>3. \A i \in 1 .. n : file'[i] = file[i]
  BY <1>1
<1>4. LastHash' = e.hash
  BY <1>2 DEF LastHash
<1>5. LastHash = IF n + 1 = 1 THEN Genesis ELSE file'[n].e.hash
  BY <1>2, <1>3 DEF LastHash
<1>6. Linked'
  <2> SUFFICES ASSUME NEW i \in 1 .. n + 1
               PROVE  /\ file'[i].kind = "entry" /\ file'[i].e.seq = i - 1
                      /\ file'[i].e.prev = IF i = 1 THEN Genesis ELSE file'[i - 1].e.hash
    BY <1>2 DEF Linked, Genesis
  <2>1. CASE i = n + 1
    BY <1>2, <1>5, <2>1
  <2>2. CASE i \in 1 .. n
    BY <1>2, <1>3, <2>2 DEF Linked
  <2> QED BY <1>2, <2>1, <2>2
<1> QED BY <1>2, <1>3, <1>4, <1>6

LEMMA SoundStep == TInv /\ Sound /\ [Next]_vars => Sound'
<1> SUFFICES ASSUME TInv, Sound, [Next]_vars PROVE Sound'
  OBVIOUS
<1> USE DEF Callers, Executes, At, Goto, vars, chainVars, callVars, procVars, logVars
<1>0. /\ file \in Seq(Line) /\ entry \in [Callers -> Entry] /\ pc \in [Callers -> Places]
      /\ shuttingDown \in BOOLEAN /\ exiting \in BOOLEAN /\ seq \in Nat
  BY TracerAssumption DEF TInv, TypeOK
<1>1. ASSUME InitRun PROVE Sound'
  <2>1. /\ setup # "ready" /\ ~shuttingDown /\ struck \notin MidWrite
        /\ pc["main"] = "idle" /\ UNCHANGED <<file, entry, pc, shuttingDown, exiting, struck>>
    BY <1>1 DEF InitRun, NameRun, MakeRunDir, SetKey, CreateKeyFile, WriteKeyFile, SetUp,
                TInv, Keyed, Handled, MidWrite
  <2>2. Torn' <=> Torn
    BY <2>1 DEF Torn
  <2>3. ~Torn => file = <<>> /\ ~exiting /\ seq' = 0 /\ prevHash' = LastHash
    BY <1>1, <2>1 DEF Sound, Current, Following, InitRun, NameRun, MakeRunDir, SetKey,
                      CreateKeyFile, WriteKeyFile, SetUp, TInv, Handled, LastHash
  <2>4. ~Torn => Linked' /\ Signed' /\ file' = <<>> /\ LastHash' = LastHash
    BY <2>1, <2>3 DEF Linked, Signed, LastHash
  <2>5. ~Torn => seq' = Len(file') /\ prevHash' = LastHash'
    BY <2>3, <2>4
  <2>6. Fitting("main")' /\ (~Torn => Following(pc["main"])')
    BY <2>1, <2>5 DEF Fitting, Following
  <2>7. \A c \in Callers : Current(c)' => c = "main"
    BY <2>1 DEF Current
  <2> QED BY <2>2, <2>4, <2>6, <2>7 DEF Sound
<1>2. ASSUME Call PROVE Sound'
  BY <1>0, <1>2 DEF Call, Sound, Torn, Linked, Signed, Current, Fitting, Following, LastHash
<1>3. ASSUME Exit \/ UNCHANGED vars PROVE Sound'
  <2>1. UNCHANGED <<file, entry, pc, seq, prevHash, signKey, setup, shuttingDown, exiting,
                    struck>>
    BY <1>3 DEF Exit
  <2> QED  BY <2>1 DEF Sound, Torn, Linked, Signed, Current, Fitting, Following, LastHash
<1>4. ASSUME SecondSignal PROVE Sound'
  BY <1>0, <1>4 DEF SecondSignal, Sound, Torn, Linked, Signed, Current, Fitting, Following, LastHash
<1>5. ASSUME Signal PROVE Sound'
  BY <1>0, <1>5 DEF Signal, TInv, Keyed, Handled, MidWrite, Places,
                    Sound, Torn, Linked, Signed, Current, Fitting, Following, LastHash
<1>6. ASSUME Kill PROVE Sound'
  BY <1>0, <1>6, WholeWrite DEF Kill, Sound, Torn, Linked, Signed, Current, Fitting, Following, LastHash
<1>7. ASSUME NEW c \in Callers, Build(c) PROVE Sound'
  BY <1>0, <1>7 DEF Build, Sound, Torn, Linked, Signed, Current, Fitting, Following, LastHash
<1>8. ASSUME NEW c \in Callers, Buffer(c) \/ OpenRaises(c) PROVE Sound'
  BY <1>0, <1>8 DEF Buffer, OpenRaises, EndCall, Sound, Torn, Linked, Signed, Current, Fitting,
                    Following, LastHash
<1>9. ASSUME NEW c \in Callers, Link(c) PROVE Sound'
  BY <1>0, <1>9 DEF Link, Sound, Torn, Linked, Signed, Current, Fitting, Following, LastHash
<1>10. ASSUME NEW c \in Callers, Return(c) PROVE Sound'
  BY <1>0, <1>10 DEF Return, EndCall, Sound, Torn, Linked, Signed, Current, Fitting, Following, LastHash
<1>11. ASSUME NEW c \in Callers, WriteRaises(c) PROVE Sound'
  BY <1>0, <1>11, WholeWrite DEF WriteRaises, EndCall, Sound, Torn, Linked, Signed, Current, Fitting,
                                 Following, LastHash
<1>12. ASSUME NEW c \in Callers, Unwind(c), pc[c] # "buffered" PROVE Sound'
  BY <1>0, <1>12 DEF Unwind, Sound, Torn, Linked, Signed, Current, Fitting, Following, LastHash
<1>13. ASSUME NEW c \in Callers, Unwind(c), pc[c] = "buffered", ~Current(c) PROVE Sound'
  BY <1>0, <1>13 DEF Unwind, Sound, Current, MidWrite, TInv, Keyed, Handled, Places
<1>14. ASSUME NEW c \in Callers, Put("entry", entry[c]), Current(c), pc[c] = "buffered",
              UNCHANGED <<setup, signKey, seq, prevHash, entry, shuttingDown, struck>>,
              \/ exiting' /\ pc' = [pc EXCEPT ![c] = "idle"]
              \/ exiting' = exiting /\ pc' = [pc EXCEPT ![c] = "flushed"]
       PROVE  Sound'
  <2> SUFFICES ASSUME ~Torn', struck \notin MidWrite PROVE Sound'
    BY <1>14 DEF Sound
  <2>1. entry[c] \in Entry /\ ~Torn
    BY <1>0, <1>14, WholeWrite
  <2>2. Linked /\ Signed /\ Fitting(c) /\ (~exiting => Following("buffered"))
    BY <1>14, <2>1 DEF Sound
  <2>3. entry[c].seq = Len(file) /\ entry[c].prev = LastHash /\ entry[c].key = signKey
    BY <1>14, <2>2 DEF Fitting
  <2>4. /\ Linked' /\ LastHash' = entry[c].hash /\ Len(file') = Len(file) + 1
        /\ \A i \in DOMAIN file' : file'[i].e.key = entry[c].key
                                  \/ (i \in DOMAIN file /\ file'[i].e.key = file[i].e.key)
    BY <1>0, <1>14, <2>1, <2>2, <2>3, ChainGrows
  <2>5. Signed'
    BY <1>14, <2>2, <2>3, <2>4 DEF Signed, TInv, Keyed
  <2>6. Current(c)' /\ \A d \in Callers : Current(d)' => d = c
    BY <1>0, <1>14 DEF Current
  <2>7. Fitting(c)'
    BY <1>0, <1>14, <2>4 DEF Fitting
  <2>8. ~exiting' => Following(pc[c])'
    BY <1>0, <1>14, <2>2, <2>4 DEF Following
  <2>9. setup' # "ready" /\ ~shuttingDown' => FALSE
    BY <1>0, <1>14 DEF Current, TInv, Keyed
  <2> QED BY <2>4, <2>5, <2>6, <2>7, <2>8, <2>9 DEF Sound
<1>15. ASSUME NEW c \in Callers, Flush(c) PROVE Sound'
  BY <1>0, <1>14, <1>15 DEF Flush, Current
<1>16. ASSUME NEW c \in Callers, Unwind(c), pc[c] = "buffered", Current(c) PROVE Sound'
  BY <1>0, <1>14, <1>16 DEF Unwind
<1> QED
  BY <1>1, <1>2, <1>3, <1>4, <1>5, <1>6, <1>7, <1>8, <1>9, <1>10, <1>11, <1>12, <1>13, <1>15, <1>16
  DEF Next, Step, TraceCall

\* The log the program writes can fail verification only after a cut write or a
\* signal in the middle of one, for any number of calls.
THEOREM ChainSound == Spec => []ChainBreaksOnlyMidWrite
<1>1. Init => TInv /\ Sound
  BY TypeInit DEF Init, Sound, Linked, Signed, Current, Fitting, Following, LastHash, Callers
<1>2. TInv /\ Sound /\ [Next]_vars => (TInv /\ Sound)'
  BY TypeStep, SoundStep
<1>3. TInv /\ Sound => ChainBreaksOnlyMidWrite
  <2> SUFFICES ASSUME TInv, Sound, ~Torn, struck \notin MidWrite,
                      file # <<>>, keyFile # "absent"
               PROVE  Chain(file)
    BY DEF ChainBreaksOnlyMidWrite, Verdict, MidWrite
  <2>1. setup = "ready" /\ keyFile = "run"
    <3>1. setup \in {"created", "ready"}
      BY DEF TInv, Keyed
    <3>2. setup # "created"
      BY DEF TInv, Keyed, Handled, Sound, MidWrite
    <3> QED BY <3>1, <3>2 DEF TInv, Keyed
  <2> QED BY <2>1 DEF Sound, Linked, Signed, Chain
<1> QED BY <1>1, <1>2, <1>3, PTL DEF Spec
=============================================================================
