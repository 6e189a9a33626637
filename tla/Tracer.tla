------------------------------- MODULE Tracer -------------------------------
(***************************************************************************)
(* The audit trail of one run: init_run, trace() and                       *)
(* verify_trace_integrity of engine/tracer.py, with the shutdown handler   *)
(* of graph/nodes.py that calls trace() from whatever point of the main    *)
(* thread a signal happens to interrupt.                                   *)
(*                                                                         *)
(* The handler never returns to the code it interrupted: it ends in        *)
(* sys.exit, and the SystemExit unwinds the handler's own call and then    *)
(* the interrupted one. Unwinding a call that has written its line into    *)
(* the file buffer flushes that line, for trace() writes inside "with".    *)
(*                                                                         *)
(* HMACs are symbolic: the signature of an entry is a number no other      *)
(* entry of the run has, together with the key it was made with.           *)
(***************************************************************************)
EXTENDS Integers, Sequences

CONSTANT MaxCalls       \* bound: trace() calls of the pipeline itself

ASSUME TracerAssumption == MaxCalls \in Nat \ {0}

VARIABLES
    \* the tracer's thread-local state
    setup,          \* how far init_run is
    signKey,        \* _local.hmac_key: "empty" until init_run sets it
    seq, prevHash,  \* _local.seq and _local.prev_hash
    \* the calls of trace() in progress
    pc, entry,      \* per caller: where the call is, and the entry it built
    \* the process
    proc, shuttingDown, forced, exiting,
    \* files
    keyFile,        \* <run_id>.key
    opened, file,   \* trace.jsonl: whether it exists, and its lines
    \* history
    built,          \* entries built so far, also the source of signatures
    acked,          \* signatures of the entries whose trace() returned
    struck          \* where the main thread was when the first signal came

chainVars == <<setup, signKey, seq, prevHash, keyFile>>
callVars  == <<pc, entry>>
procVars  == <<proc, shuttingDown, forced, exiting, struck>>
logVars   == <<opened, file>>
vars      == <<chainVars, callVars, procVars, logVars, built, acked>>

Callers   == {"main", "handler"}
Signature == 0 .. MaxCalls + 1
Entry     == [seq : Nat, prev : Signature, hash : Signature, key : {"empty", "run"}]
Genesis   == 0
NoEntry   == [seq |-> 0, prev |-> Genesis, hash |-> Genesis, key |-> "empty"]

\* A line: a whole entry, a write cut short (no newline yet), or the text that
\* follows a cut on the same line.
Line == [kind : {"entry", "cut", "garbled"}, e : Entry]

Setups == {"fresh", "named", "made", "keyed", "created", "ready"}
Places == {"idle", "entered", "built", "buffered", "flushed", "linked"}

\* The variables keep their types; seq counts no more than the entries built.
TypeOK ==
    /\ setup \in Setups /\ signKey \in {"empty", "run"}
    /\ seq \in 0 .. MaxCalls + 1 /\ prevHash \in Signature
    /\ pc \in [Callers -> Places] /\ entry \in [Callers -> Entry]
    /\ proc \in {"running", "exited", "killed"}
    /\ shuttingDown \in BOOLEAN /\ forced \in BOOLEAN /\ exiting \in BOOLEAN
    /\ keyFile \in {"absent", "empty", "run"}
    /\ opened \in BOOLEAN /\ file \in Seq(Line)
    /\ built \in Signature /\ acked \subseteq Signature
    /\ struck \in {"nowhere"} \cup Places \cup Setups

Init ==
    /\ setup = "fresh" /\ signKey = "empty" /\ seq = 0 /\ prevHash = Genesis
    /\ pc = [c \in Callers |-> "idle"] /\ entry = [c \in Callers |-> NoEntry]
    /\ proc = "running" /\ shuttingDown = FALSE /\ forced = FALSE /\ exiting = FALSE
    /\ keyFile = "absent" /\ opened = FALSE /\ file = <<>>
    /\ built = 0 /\ acked = {} /\ struck = "nowhere"

\* The main thread executes its own code until a signal, then only the handler's.
Executes(c) ==
    /\ proc = "running" /\ ~exiting
    /\ shuttingDown = (c = "handler")

-----------------------------------------------------------------------------
(***************************************************************************)
(* init_run, statement by statement.                                       *)
(***************************************************************************)
SetUp(from, to) ==
    /\ Executes("main") /\ setup = from
    /\ setup' = to
    /\ UNCHANGED <<callVars, procVars, logVars, built, acked>>

NameRun ==
    /\ SetUp("fresh", "named")
    /\ seq' = 0 /\ prevHash' = Genesis
    /\ UNCHANGED <<signKey, keyFile>>

MakeRunDir == SetUp("named", "made") /\ UNCHANGED <<signKey, seq, prevHash, keyFile>>

SetKey == SetUp("made", "keyed") /\ signKey' = "run" /\ UNCHANGED <<seq, prevHash, keyFile>>

\* os.open creates the key file, os.write fills it.
CreateKeyFile ==
    SetUp("keyed", "created") /\ keyFile' = "empty" /\ UNCHANGED <<signKey, seq, prevHash>>

WriteKeyFile ==
    SetUp("created", "ready") /\ keyFile' = "run" /\ UNCHANGED <<signKey, seq, prevHash>>

-----------------------------------------------------------------------------
(***************************************************************************)
(* trace(). A signal between two of its statements is taken between two of *)
(* these actions.                                                          *)
(***************************************************************************)
At(c, place) == Executes(c) /\ pc[c] = place
Goto(c, place) == pc' = [pc EXCEPT ![c] = place]

Call ==
    /\ At("main", "idle") /\ setup = "ready" /\ built < MaxCalls
    /\ Goto("main", "entered")
    /\ UNCHANGED <<chainVars, entry, procVars, logVars, built, acked>>

\* The entry takes seq and prev_hash as they are now, and is signed.
Build(c) ==
    /\ At(c, "entered")
    /\ built' = built + 1
    /\ entry' = [entry EXCEPT ![c] = [seq |-> seq, prev |-> prevHash,
                                      hash |-> built + 1, key |-> signKey]]
    /\ Goto(c, "built")
    /\ UNCHANGED <<chainVars, procVars, logVars, acked>>

\* open(..., "a") creates the file; f.write: the line is in the buffer.
Buffer(c) ==
    /\ At(c, "built") /\ setup \notin {"fresh", "named"}
    /\ opened' = TRUE
    /\ Goto(c, "buffered")
    /\ UNCHANGED <<chainVars, entry, procVars, file, built, acked>>

\* Faulty variant: the file is opened for writing, not for appending.
PutOverwriting(kind, e) == file' = <<[kind |-> kind, e |-> e]>>

\* Appending after a write that was cut short continues the same line.
Put(kind, e) ==
    file' = IF file # <<>> /\ file[Len(file)].kind = "cut"
            THEN [file EXCEPT ![Len(file)].kind = IF kind = "cut" THEN "cut" ELSE "garbled"]
            ELSE Append(file, [kind |-> kind, e |-> e])

\* Leaving "with open": the buffer goes to the file.
Flush(c) ==
    /\ At(c, "buffered")
    /\ Put("entry", entry[c])
    /\ Goto(c, "flushed")
    /\ UNCHANGED <<chainVars, entry, procVars, opened, built, acked>>

\* Faulty variant: prev_hash is not advanced.
LinkNothing(c) ==
    /\ At(c, "flushed")
    /\ Goto(c, "linked")
    /\ UNCHANGED <<chainVars, entry, procVars, logVars, built, acked>>

Link(c) ==
    /\ At(c, "flushed")
    /\ prevHash' = entry[c].hash
    /\ Goto(c, "linked")
    /\ UNCHANGED <<setup, signKey, seq, keyFile, entry, procVars, logVars, built, acked>>

\* Faulty variant: the handler returns without leaving the process.
EndCallHere(c) ==
    /\ Goto(c, "idle")
    /\ UNCHANGED exiting

\* The handler's call is followed by sys.exit, whether it returned or raised.
EndCall(c) ==
    /\ Goto(c, "idle")
    /\ exiting' = (c = "handler")

\* Faulty variant: seq is advanced by the entries built, not by one.
ReturnCounting(c) ==
    /\ At(c, "linked")
    /\ seq' = seq + built
    /\ acked' = acked \cup {entry[c].hash}
    /\ EndCall(c)
    /\ UNCHANGED <<setup, signKey, prevHash, keyFile, entry, proc, shuttingDown, forced,
                   struck, logVars, built>>

Return(c) ==
    /\ At(c, "linked")
    /\ seq' = seq + 1
    /\ acked' = acked \cup {entry[c].hash}
    /\ EndCall(c)
    /\ UNCHANGED <<setup, signKey, prevHash, keyFile, entry, proc, shuttingDown, forced,
                   struck, logVars, built>>

\* open raises: no run directory yet, or the file system refuses.
OpenRaises(c) ==
    /\ At(c, "built")
    /\ EndCall(c)
    /\ UNCHANGED <<chainVars, entry, proc, shuttingDown, forced, struck, logVars, built, acked>>

\* The write fails (disk full), leaving nothing or the beginning of the line.
WriteRaises(c) ==
    /\ At(c, "buffered")
    /\ UNCHANGED file \/ Put("cut", entry[c])
    /\ EndCall(c)
    /\ UNCHANGED <<chainVars, entry, proc, shuttingDown, forced, struck, opened, built, acked>>

-----------------------------------------------------------------------------
(***************************************************************************)
(* Signals and the end of the process.                                     *)
(***************************************************************************)
Signal ==
    /\ proc = "running" /\ ~shuttingDown
    /\ shuttingDown' = TRUE
    /\ struck' = IF setup = "ready" THEN pc["main"] ELSE setup
    /\ Goto("handler", "entered")
    /\ UNCHANGED <<chainVars, entry, proc, forced, exiting, logVars, built, acked>>

\* A second signal: sys.exit(1) at once, wherever the first handler is.
SecondSignal ==
    /\ proc = "running" /\ shuttingDown /\ ~exiting
    /\ exiting' = TRUE /\ forced' = TRUE
    /\ UNCHANGED <<chainVars, callVars, proc, shuttingDown, struck, logVars, built, acked>>

\* SystemExit leaves the handler's call first, then the interrupted one.
Unwind(c) ==
    /\ proc = "running" /\ exiting /\ pc[c] # "idle"
    /\ c = "main" => pc["handler"] = "idle"
    /\ IF pc[c] = "buffered" THEN Put("entry", entry[c]) ELSE UNCHANGED file
    /\ Goto(c, "idle")
    /\ UNCHANGED <<chainVars, entry, procVars, opened, built, acked>>

Exit ==
    /\ proc = "running" /\ \A c \in Callers : pc[c] = "idle"
    /\ exiting \/ (~shuttingDown /\ setup = "ready")
    /\ proc' = "exited"
    /\ UNCHANGED <<chainVars, callVars, shuttingDown, forced, exiting, struck, logVars, built,
                   acked>>

\* SIGKILL, or the interpreter dies; a line being flushed may be cut short. What was
\* flushed stays: the system goes on, unlike in a power cut, for nothing is synced.
Kill ==
    /\ proc = "running"
    /\ proc' = "killed"
    /\ \/ UNCHANGED file
       \/ \E c \in Callers : pc[c] = "buffered" /\ Put("cut", entry[c])
    /\ UNCHANGED <<chainVars, callVars, shuttingDown, forced, exiting, struck, opened, built,
                   acked>>

-----------------------------------------------------------------------------
TraceCall(c) == \/ Build(c) \/ Buffer(c) \/ Flush(c) \/ Link(c) \/ Return(c)
                \/ OpenRaises(c) \/ WriteRaises(c) \/ Unwind(c)

InitRun == NameRun \/ MakeRunDir \/ SetKey \/ CreateKeyFile \/ WriteKeyFile

Step == InitRun \/ Call \/ Exit \/ \E c \in Callers : TraceCall(c)
Next == Step \/ Signal \/ SecondSignal \/ Kill

\* A running process keeps executing; signals and kills need not come.
Fairness == WF_vars(Step)

Spec == Init /\ [][Next]_vars /\ Fairness

-----------------------------------------------------------------------------
(***************************************************************************)
(* verify_trace_integrity.                                                 *)
(***************************************************************************)
\* Faulty variant: the lines are checked one by one, not as a chain.
ChainOfSignatures(log) ==
    \A i \in DOMAIN log : log[i].kind = "entry" /\ log[i].e.key = keyFile

\* Every line parses, has the next seq, names its predecessor's signature, and its
\* own signature is made with the key on file.
Chain(log) ==
    \A i \in DOMAIN log :
        /\ log[i].kind = "entry" /\ log[i].e.key = keyFile
        /\ log[i].e.seq = i - 1
        /\ log[i].e.prev = IF i = 1 THEN Genesis ELSE log[i - 1].e.hash

\* The exit code of engine/verify_trace.py: 0 valid, 1 invalid, 2 impossible. A log
\* that exists and is empty is invalid.
Verdict ==
    IF ~opened \/ keyFile = "absent" THEN "impossible"
    ELSE IF file # <<>> /\ Chain(file) THEN "valid" ELSE "invalid"

-----------------------------------------------------------------------------
(***************************************************************************)
(* Properties.                                                             *)
(***************************************************************************)
Torn == \E i \in DOMAIN file : file[i].kind # "entry"

\* A log with lines in it, all written by the program itself, fails verification only
\* when a write was cut short, or a signal struck between the buffering of a line and
\* the update of seq, or between the creation of the key file and its contents.
ChainBreaksOnlyMidWrite ==
    file # <<>> /\ Verdict = "invalid" =>
        Torn \/ struck \in {"created", "buffered", "flushed", "linked"}

\* Every entry whose trace() returned is in the file, however the process ended, unless
\* a cut line spoilt the ones that came after it.
AckedAreOnFile ==
    ~Torn => \A h \in acked : \E i \in DOMAIN file : file[i].e.hash = h

\* Of all logs made of this log's lines - deleted, repeated, reordered - only its
\* prefixes verify: losing the tail is the one edit that goes unnoticed.
OnlyPrefixesVerify ==
    Verdict = "valid" =>
        \A n \in 0 .. Len(file) : \A pick \in [1 .. n -> DOMAIN file] :
            Chain([i \in 1 .. n |-> file[pick[i]]]) => \A i \in 1 .. n : file[pick[i]] = file[i]

\* A signal ends the process.
ShutdownEnds == shuttingDown ~> proc # "running"

\* "... writes a shutdown trace entry to the audit log before exiting, keeping the
\* HMAC chain valid" (docs/configuration.md, "Graceful shutdown").
ShutdownKeepsChain ==
    proc = "exited" /\ shuttingDown /\ ~forced /\ setup = "ready" /\ file # <<>> /\ ~Torn
        => Verdict # "invalid"
=============================================================================
