------------------------------ MODULE LLMCache ------------------------------
(***************************************************************************)
(* A cached LLM call, as each task makes it: cache_lookup, generate with   *)
(* its retries, cache_save (engine/cache.py, engine/llm_provider.py), by   *)
(* the processes of concurrent runs on one cache, while the init stage of  *)
(* another run evicts.                                                     *)
(*                                                                         *)
(* An entry is a file. It is opened, truncated and written in pieces at    *)
(* the writer's own offset, without a lock and in place, so what a reader  *)
(* sees is a sequence of pieces of responses, and of holes.                *)
(***************************************************************************)
EXTENDS Integers, Sequences, FiniteSets

CONSTANTS
    Procs, Keys,
    Retries,   \* values of llm.retry.max_retries
    Sizes,     \* pieces a response may take
    MaxCalls   \* bound: calls of a process

ASSUME LLMCacheAssumption ==
    /\ Keys # {} /\ Retries \subseteq Int
    /\ Sizes \subseteq Nat \ {0} /\ MaxCalls \in Nat

VARIABLES
    file,       \* key -> [present, pieces]
    doomed,     \* entries the eviction has read and is going to unlink
    pc, key, retries, attempt, response, written,
    handle,     \* per process: "none", "open", or "stale" when the file was unlinked
    answer,     \* per process: what the call returned
    failure,    \* per process: why it raised
    called,     \* per process: calls begun
    contended,  \* history: entries that two processes had open at once
    cut,        \* history: entries whose writer died or failed
    foundAbsent \* per process: history: cache_save found no entry

fileVars == <<file, doomed, contended, cut>>
callVars == <<key, retries, attempt, response, called>>
saveVars == <<written, handle, foundAbsent>>
endVars  == <<answer, failure>>
vars == <<fileVars, callVars, saveVars, endVars, pc>>

Absent  == [present |-> FALSE, pieces |-> <<>>]
NoResponse == [by |-> "nobody", call |-> 0, size |-> 0]
Splice  == [by |-> "several", call |-> 0, size |-> 0]
Malformed == [by |-> "malformed", call |-> 0, size |-> 0]

Resting == {"idle", "answered", "failed", "dead"}
Working == {"lookup", "read", "generate", "save", "open", "write"}

-----------------------------------------------------------------------------
(***************************************************************************)
(* Files.                                                                  *)
(***************************************************************************)
Piece(r, i) == [of |-> r, nr |-> i]
Hole        == Piece(NoResponse, 0)
Pieces(r)   == [i \in 1 .. r.size |-> Piece(r, i)]

\* A write at an offset behind the end of the file leaves a hole.
WriteAt(pieces, i, piece) ==
    [j \in 1 .. (IF i > Len(pieces) THEN i ELSE Len(pieces)) |->
        IF j = i THEN piece ELSE IF j <= Len(pieces) THEN pieces[j] ELSE Hole]

IsWhole(pieces) == pieces # <<>> /\ pieces = Pieces(pieces[1].of)

\* The beginning of one response and the end of another may happen to be JSON.
IsSpliced(pieces) ==
    /\ pieces # <<>> /\ ~IsWhole(pieces)
    /\ \A i \in DOMAIN pieces :
        pieces[i].nr = i /\ (pieces[i].of.size = i <=> i = Len(pieces))

\* What json.loads may make of a file.
Readings(pieces) ==
    CASE IsWhole(pieces)   -> {pieces[1].of}
      [] IsSpliced(pieces) -> {Splice, Malformed}
      [] OTHER             -> {Malformed}

-----------------------------------------------------------------------------
(***************************************************************************)
(* The call.                                                               *)
(***************************************************************************)
Goto(p, from, to) == pc[p] = from /\ pc' = [pc EXCEPT ![p] = to]

Raise(p, from, why) ==
    /\ Goto(p, from, "failed")
    /\ failure' = [failure EXCEPT ![p] = why]

Return(p, from, r) ==
    /\ Goto(p, from, "answered")
    /\ answer' = [answer EXCEPT ![p] = r]

Call(p) ==
    /\ pc[p] \in Resting /\ called[p] < MaxCalls
    /\ pc' = [pc EXCEPT ![p] = "lookup"]
    /\ \E k \in Keys : key' = [key EXCEPT ![p] = k]
    /\ \E n \in Retries : retries' = [retries EXCEPT ![p] = n]
    /\ called'   = [called EXCEPT ![p] = @ + 1]
    /\ attempt'  = [attempt EXCEPT ![p] = 0]
    /\ response' = [response EXCEPT ![p] = NoResponse]
    /\ answer'   = [answer EXCEPT ![p] = NoResponse]
    /\ failure'  = [failure EXCEPT ![p] = "none"]
    /\ foundAbsent' = [foundAbsent EXCEPT ![p] = FALSE]
    /\ written'  = [written EXCEPT ![p] = 0]
    /\ UNCHANGED <<fileVars, handle>>

Lookup(p) ==
    /\ Goto(p, "lookup", IF file[key[p]].present THEN "read" ELSE "generate")
    /\ UNCHANGED <<fileVars, callVars, saveVars, endVars>>

\* Faulty variant: what can not be parsed is returned as it is.
ReadRaw(p) ==
    /\ Return(p, "read", IF IsWhole(file[key[p]].pieces) THEN file[key[p]].pieces[1].of ELSE Splice)
    /\ file[key[p]].present
    /\ UNCHANGED <<fileVars, callVars, saveVars, failure>>

\* Whatever read_text or json.loads raises, nobody catches.
Read(p) ==
    /\ file[key[p]].present
    /\ \E r \in Readings(file[key[p]].pieces) \ {Malformed} : Return(p, "read", r)
    /\ UNCHANGED <<fileVars, callVars, saveVars, failure>>

\* Faulty variant: a damaged entry is looked up again.
ReadAgain(p) ==
    /\ Goto(p, "read", "lookup")
    /\ file[key[p]].present /\ Malformed \in Readings(file[key[p]].pieces)
    /\ UNCHANGED <<fileVars, callVars, saveVars, endVars>>

ReadMalformed(p) ==
    /\ Raise(p, "read", "malformed")
    /\ file[key[p]].present /\ Malformed \in Readings(file[key[p]].pieces)
    /\ UNCHANGED <<fileVars, callVars, saveVars, answer>>

ReadVanished(p) ==
    /\ Raise(p, "read", "vanished")
    /\ ~file[key[p]].present
    /\ UNCHANGED <<fileVars, callVars, saveVars, answer>>

-----------------------------------------------------------------------------
(***************************************************************************)
(* _call_with_retry: range(1 + max_retries) attempts.                      *)
(***************************************************************************)
\* Faulty variant: one attempt less.
AttemptsLeftWithoutTheFirst(p) == attempt[p] < retries[p]

AttemptsLeft(p) == attempt[p] < 1 + retries[p]

Served(p) ==
    /\ Goto(p, "generate", "save")
    /\ AttemptsLeft(p)
    /\ \E size \in Sizes : response' = [response EXCEPT ![p] =
            [by |-> p, call |-> called[p], size |-> size]]
    /\ attempt' = [attempt EXCEPT ![p] = @ + 1]
    /\ UNCHANGED <<fileVars, key, retries, called, saveVars, endVars>>

\* Rate limit, server error, timeout or lost connection: slept on and tried again.
TransientError(p) ==
    /\ Goto(p, "generate", "generate")
    /\ AttemptsLeft(p)
    /\ attempt' = [attempt EXCEPT ![p] = @ + 1]
    /\ UNCHANGED <<fileVars, key, retries, called, response, saveVars, endVars>>

PermanentError(p) ==
    /\ Raise(p, "generate", "permanent")
    /\ AttemptsLeft(p)
    /\ attempt' = [attempt EXCEPT ![p] = @ + 1]
    /\ UNCHANGED <<fileVars, key, retries, called, response, saveVars, answer>>

\* The last exception; with a negative max_retries there is none to raise.
GiveUp(p) ==
    /\ Raise(p, "generate", IF attempt[p] = 0 THEN "no attempt" ELSE "transient")
    /\ ~AttemptsLeft(p)
    /\ UNCHANGED <<fileVars, callVars, saveVars, answer>>

-----------------------------------------------------------------------------
(***************************************************************************)
(* cache_save.                                                             *)
(***************************************************************************)
SaveSkipped(p) ==
    /\ Return(p, "save", response[p])
    /\ file[key[p]].present
    /\ UNCHANGED <<fileVars, callVars, saveVars, failure>>

\* Faulty variant: the entry is written whether there is one or not.
SaveAlways(p) ==
    /\ Goto(p, "save", "open")
    /\ foundAbsent' = [foundAbsent EXCEPT ![p] = ~file[key[p]].present]
    /\ UNCHANGED <<fileVars, callVars, written, handle, endVars>>

SaveNew(p) ==
    /\ Goto(p, "save", "open")
    /\ ~file[key[p]].present
    /\ foundAbsent' = [foundAbsent EXCEPT ![p] = TRUE]
    /\ UNCHANGED <<fileVars, callVars, written, handle, endVars>>

Others(p, k) == {q \in Procs \ {p} : handle[q] = "open" /\ key[q] = k}

\* Opening for writing truncates what another process wrote since the check.
Open(p) ==
    /\ Goto(p, "open", "write")
    /\ file' = [file EXCEPT ![key[p]] = [present |-> TRUE, pieces |-> <<>>]]
    /\ handle'  = [handle EXCEPT ![p] = "open"]
    /\ written' = [written EXCEPT ![p] = 0]
    /\ contended' = IF Others(p, key[p]) = {} THEN contended ELSE contended \cup {key[p]}
    /\ UNCHANGED <<doomed, cut, callVars, foundAbsent, endVars>>

WritePiece(p) ==
    /\ pc[p] = "write" /\ written[p] < response[p].size
    /\ written' = [written EXCEPT ![p] = @ + 1]
    /\ file' = IF handle[p] = "stale" THEN file
               ELSE [file EXCEPT ![key[p]].pieces =
                        WriteAt(@, written'[p], Piece(response[p], written'[p]))]
    /\ UNCHANGED <<doomed, contended, cut, callVars, handle, foundAbsent, endVars, pc>>

Close(p) ==
    /\ Return(p, "write", response[p])
    /\ written[p] = response[p].size
    /\ handle' = [handle EXCEPT ![p] = "none"]
    /\ UNCHANGED <<fileVars, callVars, written, foundAbsent, failure>>

\* Faulty variant: the file stays open.
AbandonOpen(p) ==
    /\ cut' = IF handle[p] = "open" THEN cut \cup {key[p]} ELSE cut
    /\ UNCHANGED handle

\* What the process leaves in the file when it stops writing.
Abandon(p) ==
    /\ cut' = IF handle[p] = "open" THEN cut \cup {key[p]} ELSE cut
    /\ handle' = [handle EXCEPT ![p] = "none"]

\* The disk is full.
WriteFails(p) ==
    /\ Raise(p, "write", "disk")
    /\ written[p] < response[p].size
    /\ Abandon(p)
    /\ UNCHANGED <<file, doomed, contended, callVars, written, foundAbsent, answer>>

Crash(p) ==
    /\ pc[p] \in Working
    /\ pc' = [pc EXCEPT ![p] = "dead"]
    /\ Abandon(p)
    /\ UNCHANGED <<file, doomed, contended, callVars, written, foundAbsent, endVars>>

-----------------------------------------------------------------------------
(***************************************************************************)
(* evict_stale_llm_cache.                                                  *)
(***************************************************************************)
\* An entry is old, by its created_at, or can not be parsed, which counts as old.
FindStale ==
    /\ \E k \in Keys \ doomed : file[k].present /\ doomed' = doomed \cup {k}
    /\ UNCHANGED <<file, contended, cut, callVars, saveVars, endVars, pc>>

\* Whatever is there now. A process that is writing it goes on in a file without a name.
Unlink ==
    /\ \E k \in doomed :
        /\ doomed' = doomed \ {k}
        /\ file' = [file EXCEPT ![k] = Absent]
        /\ handle' = [p \in Procs |->
                        IF key[p] = k /\ handle[p] = "open" THEN "stale" ELSE handle[p]]
    /\ UNCHANGED <<contended, cut, callVars, written, foundAbsent, endVars, pc>>

-----------------------------------------------------------------------------
Init ==
    /\ file = [k \in Keys |-> Absent] /\ doomed = {} /\ contended = {} /\ cut = {}
    /\ pc = [p \in Procs |-> "idle"] /\ key = [p \in Procs |-> CHOOSE k \in Keys : TRUE]
    /\ retries = [p \in Procs |-> 0] /\ attempt = [p \in Procs |-> 0]
    /\ response = [p \in Procs |-> NoResponse] /\ answer = [p \in Procs |-> NoResponse]
    /\ written = [p \in Procs |-> 0] /\ handle = [p \in Procs |-> "none"]
    /\ failure = [p \in Procs |-> "none"] /\ called = [p \in Procs |-> 0]
    /\ foundAbsent = [p \in Procs |-> FALSE]

Step(p) ==
    \/ Lookup(p) \/ Read(p) \/ ReadMalformed(p) \/ ReadVanished(p)
    \/ Served(p) \/ TransientError(p) \/ PermanentError(p) \/ GiveUp(p)
    \/ SaveSkipped(p) \/ SaveNew(p) \/ Open(p) \/ WritePiece(p) \/ Close(p) \/ WriteFails(p)

Next ==
    \/ \E p \in Procs : Call(p) \/ Step(p) \/ Crash(p)
    \/ FindStale \/ Unlink

\* A call goes on until it returns or raises: requests to the API time out.
Spec == Init /\ [][Next]_vars /\ \A p \in Procs : WF_vars(Step(p))
-----------------------------------------------------------------------------
(***************************************************************************)
(* Properties.                                                             *)
(***************************************************************************)
\* The variables keep their types; a file that does not exist has no contents, and only a
\* process that writes holds a file open.
TypeOK ==
    /\ \A k \in Keys : ~file[k].present => file[k] = Absent
    /\ doomed \subseteq Keys /\ contended \subseteq Keys /\ cut \subseteq Keys
    /\ \A p \in Procs :
        /\ pc[p] \in Resting \cup Working /\ key[p] \in Keys
        /\ handle[p] # "none" <=> pc[p] = "write"
        /\ handle[p] = "open" => file[key[p]].present
        /\ written[p] \in 0 .. response[p].size /\ called[p] \in 0 .. MaxCalls

\* A call returns one complete response, its own or one that some process received for
\* this key, unless two processes wrote the entry at the same time.
AnswersAreWhole ==
    \A p \in Procs : pc[p] = "answered" =>
        \/ answer[p].by \in Procs
        \/ answer[p] = Splice /\ key[p] \in contended

\* Nothing but eviction changes a complete entry, unless a process found none when it
\* looked and opens or writes it now: the check and the write are not one step.
FirstResponseWins ==
    [][\A k \in Keys : IsWhole(file[k].pieces) /\ file'[k] # file[k] =>
        \/ ~file'[k].present
        \/ \E p \in Procs : key[p] = k /\ pc[p] \in {"open", "write"} /\ foundAbsent[p]]_vars

\* A call raises only for a cause: an entry that could not be read belongs to a process
\* that was writing it, or that died or failed or was not alone when it did; an API error
\* was permanent or met as often as max_retries says; and no attempt is made at all only
\* with a negative max_retries.
FailuresHaveACause ==
    /\ \A k \in Keys : file[k].present /\ ~IsWhole(file[k].pieces) =>
        k \in contended \cup cut \/ \E p \in Procs : handle[p] = "open" /\ key[p] = k
    /\ \A p \in Procs :
        /\ failure[p] = "transient" => attempt[p] = retries[p] + 1
        /\ failure[p] = "no attempt" => retries[p] < 0
        /\ attempt[p] > 0 => attempt[p] <= retries[p] + 1

\* Every call ends.
CallsEnd == \A p \in Procs : pc[p] \in Working ~> pc[p] \in Resting
=============================================================================
