---------------------------- MODULE LLMCacheProofs ----------------------------
(***************************************************************************)
(* For any number of processes, of keys, of attempts and of pieces: what a *)
(* cached LLM call returns, when a complete entry changes and why a call   *)
(* raises.                                                                 *)
(*                                                                         *)
(* None of it is inductive as it stands. That an entry which was never     *)
(* contended is read as one response, or not at all, needs to know what is *)
(* in such a file while it is written (Filled), that it has one writer     *)
(* (Alone), and what is left in it afterwards (Beginning, Settled). Why a  *)
(* call raises needs where its process has been (Located).                 *)
(***************************************************************************)
EXTENDS LLMCache, TLAPS

\* Responses an LLM gave, and what a file consists of.
Given == [by : Procs, call : Nat, size : Sizes]
Content == {Hole} \cup [of : Given, nr : Nat \ {0}]

Causes == {"none", "malformed", "vanished", "permanent", "transient", "no attempt", "disk"}

Types ==
    /\ file \in [Keys -> [present : BOOLEAN, pieces : Seq(Content)]]
    /\ doomed \subseteq Keys /\ contended \subseteq Keys /\ cut \subseteq Keys
    /\ pc \in [Procs -> Resting \cup Working] /\ key \in [Procs -> Keys]
    /\ retries \in [Procs -> Int] /\ attempt \in [Procs -> Nat]
    /\ response \in [Procs -> Given \cup {NoResponse}]
    /\ answer \in [Procs -> Given \cup {NoResponse, Splice}]
    /\ written \in [Procs -> Nat] /\ handle \in [Procs -> {"none", "open", "stale"}]
    /\ failure \in [Procs -> Causes] /\ called \in [Procs -> 0 .. MaxCalls]
    /\ foundAbsent \in [Procs -> BOOLEAN]

\* Where a process is says what it has: a response once it saves, the file while it
\* writes, and no failure while it works.
Located(p) ==
    /\ pc[p] \in {"save", "open", "write"} => response[p] \in Given
    /\ pc[p] \in {"lookup", "read", "generate"} => written[p] = 0
    /\ written[p] <= response[p].size
    /\ handle[p] # "none" <=> pc[p] = "write"
    /\ pc[p] \in {"open", "write"} => foundAbsent[p]
    /\ pc[p] \in Working => failure[p] = "none"

\* A file that does not exist is empty, and nobody has it open.
Named ==
    /\ \A k \in Keys : ~file[k].present => file[k] = Absent
    /\ \A p \in Procs : handle[p] = "open" => file[key[p]].present

\* Two processes that have one entry open made it contended.
Alone ==
    \A p, q \in Procs :
        p # q /\ handle[p] = "open" /\ handle[q] = "open" /\ key[p] = key[q]
            => key[p] \in contended

\* The first n pieces of a response.
Begins(pieces, n, r) == Len(pieces) = n /\ \A i \in 1 .. n : pieces[i] = Piece(r, i)

\* What is in an entry that was never contended: what its one writer has written,
Filled ==
    \A p \in Procs : handle[p] = "open" /\ key[p] \notin contended =>
        Begins(file[key[p]].pieces, written[p], response[p])

\* the beginning of a response in any case,
Beginning ==
    \A k \in Keys : file[k].present /\ k \notin contended =>
        \E r \in Given : \E n \in 0 .. r.size : Begins(file[k].pieces, n, r)

\* and a whole one when nobody writes it and no writer was cut off.
Settled ==
    \A k \in Keys : file[k].present /\ k \notin contended \cup cut =>
        IsWhole(file[k].pieces) \/ \E p \in Procs : handle[p] = "open" /\ key[p] = k

\* Attempts and failures.
Tried(p) ==
    /\ attempt[p] > 0 => attempt[p] <= retries[p] + 1
    /\ failure[p] = "transient" => attempt[p] = retries[p] + 1
    /\ failure[p] = "no attempt" => retries[p] < 0

\* What a call returned.
Told(p) ==
    pc[p] = "answered" => answer[p].by \in Procs \/ (answer[p] = Splice /\ key[p] \in contended)

\* What the processes have done, and what is in the files.
ProcInv == \A p \in Procs : Located(p) /\ Tried(p) /\ Told(p)
FileInv == Named /\ Alone /\ Filled /\ Beginning /\ Settled

IInv == Types /\ ProcInv /\ FileInv

-----------------------------------------------------------------------------
(***************************************************************************)
(* Contents of files.                                                      *)
(***************************************************************************)
LEMMA GivenFacts ==
    ASSUME NEW r \in Given
    PROVE  r.size \in Nat \ {0} /\ r.by \in Procs
BY LLMCacheAssumption DEF Given

\* An entry that holds a response from beginning to end is read as that response.
LEMMA WholeWhenComplete ==
    ASSUME NEW pieces \in Seq(Content), NEW r \in Given, Begins(pieces, r.size, r)
    PROVE  IsWhole(pieces)
<1>1. r.size \in Nat \ {0} /\ Len(pieces) = r.size
  BY GivenFacts DEF Begins
<1>2. pieces[1] = Piece(r, 1)
  BY <1>1 DEF Begins
<1>3. pieces[1].of = r
  BY <1>2 DEF Piece
<1>4. pieces = Pieces(r)
  BY <1>1 DEF Begins, Pieces
<1> QED
  BY <1>1, <1>3, <1>4 DEF IsWhole

\* A whole entry is a response that an LLM gave.
LEMMA WholeIsGiven ==
    ASSUME NEW pieces \in Seq(Content), IsWhole(pieces)
    PROVE  pieces[1].of \in Given
<1>1. Len(pieces) \in Nat \ {0} /\ DOMAIN pieces = 1 .. Len(pieces) /\ pieces[1] \in Content
  BY DEF IsWhole
<1> DEFINE r == pieces[1].of
<1>2. pieces = Pieces(r)
  BY DEF IsWhole
<1>3. DOMAIN Pieces(r) = 1 .. r.size
  BY DEF Pieces
<1>4. 1 \in 1 .. r.size
  <2>1. 1 \in DOMAIN pieces
    BY <1>1
  <2>2. DOMAIN pieces = DOMAIN Pieces(r)
    BY <1>2
  <2> QED  BY <2>1, <2>2, <1>3
<1>5. pieces[1] = Piece(r, 1)
  BY <1>2, <1>4 DEF Pieces
<1>6. pieces[1] # Hole
  BY <1>5 DEF Piece, Hole
<1> QED
  BY <1>1, <1>6 DEF Content

\* The beginning of one response is never spliced.
LEMMA BeginningIsNotSpliced ==
    ASSUME NEW pieces \in Seq(Content), NEW r \in Given, NEW n \in 0 .. r.size,
           Begins(pieces, n, r)
    PROVE  ~IsSpliced(pieces)
<1> SUFFICES ASSUME IsSpliced(pieces) PROVE FALSE
  OBVIOUS
<1>1. Len(pieces) = n /\ n # 0 /\ n \in Nat /\ r.size \in Nat /\ DOMAIN pieces = 1 .. n
  BY GivenFacts DEF Begins, IsSpliced
<1>2. pieces[n] = Piece(r, n) /\ pieces[n].of = r
  BY <1>1 DEF Begins, Piece
<1>3. r.size = n
  BY <1>1, <1>2 DEF IsSpliced
<1> QED
  BY <1>3, WholeWhenComplete DEF IsSpliced

\* The next piece lengthens the beginning.
LEMMA WriteLengthens ==
    ASSUME NEW pieces \in Seq(Content), NEW r \in Given, NEW n \in Nat, Begins(pieces, n, r)
    PROVE  Begins(WriteAt(pieces, n + 1, Piece(r, n + 1)), n + 1, r)
<1> DEFINE new == WriteAt(pieces, n + 1, Piece(r, n + 1))
<1>1. Len(pieces) = n
  BY DEF Begins
<1>2. new = [j \in 1 .. n + 1 |-> IF j = n + 1 THEN Piece(r, n + 1)
                                  ELSE IF j <= n THEN pieces[j] ELSE Hole]
  BY <1>1 DEF WriteAt
<1>3. Len(new) = n + 1
  BY <1>2
<1>4. \A j \in 1 .. n + 1 : new[j] = Piece(r, j)
  BY <1>2 DEF Begins
<1> QED
  BY <1>3, <1>4 DEF Begins

LEMMA WriteTyped ==
    ASSUME NEW pieces \in Seq(Content), NEW i \in Nat \ {0}, NEW piece \in Content
    PROVE  WriteAt(pieces, i, piece) \in Seq(Content)
<1> DEFINE n == IF i > Len(pieces) THEN i ELSE Len(pieces)
<1>1. n \in Nat
  OBVIOUS
<1>2. Hole \in Content
  BY DEF Content
<1>3. \A j \in 1 .. n : (IF j = i THEN piece ELSE IF j <= Len(pieces) THEN pieces[j] ELSE Hole)
                           \in Content
  BY <1>2
<1>4. WriteAt(pieces, i, piece) \in [1 .. n -> Content]
  BY <1>3 DEF WriteAt
<1> QED
  BY <1>1, <1>4

-----------------------------------------------------------------------------
(***************************************************************************)
(* Steps that leave the files alone.                                       *)
(***************************************************************************)
\* Only a process that holds a file open has a say in it.
LEMMA BystanderKeeps ==
    ASSUME Types, FileInv, UNCHANGED <<file, contended, cut, handle>>,
           \A q \in Procs : handle[q] = "open" =>
               key'[q] = key[q] /\ written'[q] = written[q] /\ response'[q] = response[q]
    PROVE  FileInv'
<1>1. Named' /\ Alone'
  BY DEF FileInv, Named, Alone
<1>2. Filled' /\ Beginning'
  BY DEF FileInv, Filled, Beginning, Begins
<1>3. Settled'
  BY DEF FileInv, Settled
<1> QED
  BY <1>1, <1>2, <1>3 DEF FileInv

\* A process is not concerned by what another one does with itself.
Same(q) ==
    /\ pc'[q] = pc[q] /\ key'[q] = key[q] /\ retries'[q] = retries[q]
    /\ attempt'[q] = attempt[q] /\ response'[q] = response[q] /\ answer'[q] = answer[q]
    /\ written'[q] = written[q] /\ handle'[q] = handle[q] /\ failure'[q] = failure[q]
    /\ foundAbsent'[q] = foundAbsent[q]

\* A process that lets go of a file leaves a whole entry or a cut one.
LEMMA LeavingKeeps ==
    ASSUME Types, FileInv, NEW p \in Procs, UNCHANGED <<file, contended, key>>,
      handle'[p] = "none",
           \A q \in Procs \ {p} : Same(q), cut \subseteq cut',
           handle[p] = "open" =>
               key[p] \in contended \cup cut' \/ IsWhole(file[key[p]].pieces)
    PROVE  FileInv'
<1>1. \A q \in Procs : handle'[q] = "open" =>
          q # p /\ handle[q] = "open" /\ written'[q] = written[q] /\ response'[q] = response[q]
  BY DEF Same
<1>2. Named' /\ Alone'
  BY <1>1 DEF FileInv, Named, Alone
<1>3. Filled' /\ Beginning'
  BY <1>1 DEF FileInv, Filled, Beginning, Begins
<1>4. Settled'
  <2> SUFFICES ASSUME NEW k \in Keys, file[k].present, k \notin contended \cup cut',
                      ~IsWhole(file[k].pieces)
               PROVE  \E q \in Procs : handle'[q] = "open" /\ key[q] = k
    BY DEF Settled
  <2>1. PICK q \in Procs : handle[q] = "open" /\ key[q] = k
    BY DEF FileInv, Settled
  <2> QED  BY <2>1 DEF Same
<1> QED
  BY <1>2, <1>3, <1>4 DEF FileInv

LEMMA OthersKeep ==
    ASSUME ProcInv, NEW p \in Procs, \A q \in Procs \ {p} : Same(q),
           contended \subseteq contended', Located(p)', Tried(p)', Told(p)'
    PROVE  ProcInv'
<1> SUFFICES ASSUME NEW q \in Procs PROVE Located(q)' /\ Tried(q)' /\ Told(q)'
  BY DEF ProcInv
<1>1. CASE q = p
  BY <1>1
<1>2. CASE q # p
  <2>1. Located(q) /\ Tried(q) /\ Told(q) /\ Same(q)
    BY <1>2 DEF ProcInv
  <2>2. Located(q)'
    BY <2>1 DEF Same, Located
  <2>3. Tried(q)'
    BY <2>1 DEF Same, Tried
  <2>4. Told(q)'
    BY <2>1 DEF Same, Told
  <2> QED  BY <2>2, <2>3, <2>4
<1> QED
  BY <1>1, <1>2

-----------------------------------------------------------------------------
(***************************************************************************)
(* The inductive invariant.                                                *)
(***************************************************************************)
LEMMA InvInit == Init => IInv
<1> SUFFICES ASSUME Init PROVE IInv
  OBVIOUS
<1>1. Types
  <2>1. Absent \in [present : BOOLEAN, pieces : Seq(Content)]
    BY DEF Absent
  <2>2. (CHOOSE k \in Keys : TRUE) \in Keys /\ 0 \in 0 .. MaxCalls
    BY LLMCacheAssumption
  <2> QED
    BY <2>1, <2>2 DEF Init, Types, Resting, Causes
<1>2. ProcInv
  BY DEF Init, ProcInv, Located, Tried, Told, NoResponse, Working
<1>3. FileInv
  BY DEF Init, FileInv, Named, Alone, Filled, Beginning, Settled, Absent
<1> QED
  BY <1>1, <1>2, <1>3 DEF IInv

LEMMA InvStep == IInv /\ [Next]_vars => IInv'
<1> SUFFICES ASSUME IInv, [Next]_vars PROVE IInv'
  OBVIOUS
<1> USE DEF IInv
<1>t. Types
  OBVIOUS
<1>1. ASSUME NEW p \in Procs, Call(p) PROVE IInv'
  <2>p. Located(p) /\ Tried(p) /\ Told(p)
    BY DEF ProcInv
  <2>a. called[p] + 1 \in 0 .. MaxCalls
    BY <1>1, LLMCacheAssumption DEF Call, Types
  <2>1. /\ pc[p] \in Resting /\ pc'[p] = "lookup" /\ attempt'[p] = 0
           /\ response'[p] = NoResponse
        /\ failure'[p] = "none" /\ written'[p] = 0 /\ handle'[p] = handle[p]
    BY <1>1, <1>t, <2>p, <2>a, LLMCacheAssumption DEF Call, Types, fileVars, callVars,
       saveVars, endVars, Resting, Working
  <2>2. \A q \in Procs \ {p} : Same(q)
    BY <1>1, <2>a, LLMCacheAssumption DEF Call, Types, Same, fileVars, callVars, saveVars,
       endVars
  <2>3. Types'
    <3>1. key' \in [Procs -> Keys] /\ retries' \in [Procs -> Int]
      BY <1>1, LLMCacheAssumption DEF Call, Types
    <3>2. called' \in [Procs -> 0 .. MaxCalls] /\ attempt' \in [Procs -> Nat]
          /\ written' \in [Procs -> Nat]
      BY <1>1, <2>a DEF Call, Types
    <3> QED
      BY <1>1, <3>1, <3>2 DEF Call, Types, fileVars, Working, Causes
  <2>4. Located(p)' /\ Tried(p)' /\ Told(p)'
    <3>1. Located(p)'
      BY <2>p, <2>1 DEF Located, Working, Resting, NoResponse
    <3>2. Tried(p)' /\ Told(p)'
      BY <2>1 DEF Tried, Told
    <3> QED  BY <3>1, <3>2
  <2>5. FileInv'
    BY <1>1, <2>p, <2>1, <2>2, BystanderKeeps DEF Call, Types, Same, Located, fileVars,
       callVars, saveVars, endVars, Resting
  <2>6. contended \subseteq contended'
    BY <1>1 DEF Call, Goto, fileVars, callVars, saveVars, endVars
  <2> QED  BY <2>2, <2>3, <2>4, <2>5, <2>6, OthersKeep
<1>2. ASSUME NEW p \in Procs, Lookup(p) PROVE IInv'
  <2>p. Located(p) /\ Tried(p) /\ Told(p)
    BY DEF ProcInv
  <2>1. /\ pc[p] = "lookup" /\ pc'[p] \in {"read", "generate"}
        /\ UNCHANGED <<key[p], retries[p], attempt[p], response[p], answer[p], written[p],
             handle[p], failure[p], foundAbsent[p]>>
    BY <1>2, <1>t, <2>p DEF Lookup, Goto, Types, fileVars, callVars, saveVars, endVars,
       Resting, Working
  <2>2. \A q \in Procs \ {p} : Same(q)
    BY <1>2 DEF Lookup, Goto, Types, Same, fileVars, callVars, saveVars, endVars
  <2>3. Types'
    BY <1>2, <2>p DEF Lookup, Goto, Types, fileVars, callVars, saveVars, endVars, Resting,
       Working, Causes
  <2>4. Located(p)' /\ Tried(p)' /\ Told(p)'
    BY <1>t, <2>p, <2>1 DEF Located, Tried, Told, Types, Working, Resting, NoResponse
  <2>5. FileInv'
    BY <1>2, <2>p, <2>1, <2>2, BystanderKeeps DEF Lookup, Goto, Types, Same, Located,
       fileVars, callVars, saveVars, endVars, Resting
  <2>6. contended \subseteq contended'
    BY <1>2 DEF Lookup, Goto, fileVars, callVars, saveVars, endVars
  <2> QED  BY <2>2, <2>3, <2>4, <2>5, <2>6, OthersKeep
<1>3. ASSUME NEW p \in Procs, Read(p) PROVE IInv'
  <2>p. Located(p) /\ Tried(p) /\ Told(p)
    BY DEF ProcInv
  <2> DEFINE pieces == file[key[p]].pieces
  <2>a. PICK r \in Readings(pieces) \ {Malformed} : Return(p, "read", r)
    BY <1>3 DEF Read
  <2>b. pieces \in Seq(Content) /\ key[p] \in Keys /\ file[key[p]].present
    BY <1>3 DEF Read, Types
  <2>c. r \in Given \/ (r = Splice /\ IsSpliced(pieces))
    BY <2>a, <2>b, WholeIsGiven DEF Readings
  <2>d. r \in Given \/ (r = Splice /\ key[p] \in contended)
    BY <2>b, <2>c, BeginningIsNotSpliced DEF FileInv, Beginning
  <2>1. /\ pc[p] = "read" /\ pc'[p] = "answered" /\ answer'[p] = r
        /\ contended' = contended /\ UNCHANGED <<key[p], retries[p], attempt[p], response[p],
             written[p], handle[p], failure[p], foundAbsent[p]>>
    BY <1>3, <1>t, <2>p, <2>a, <2>b, <2>c, <2>d DEF Read, Return, Goto, Types, fileVars,
       callVars, saveVars, endVars, Resting, Working
  <2>2. \A q \in Procs \ {p} : Same(q)
    BY <1>3, <2>a, <2>b, <2>c, <2>d DEF Read, Return, Goto, Types, Same, fileVars, callVars,
       saveVars, endVars
  <2>3. Types'
    BY <1>3, <2>p, <2>a, <2>b, <2>c, <2>d DEF Read, Return, Goto, Types, fileVars, callVars,
       saveVars, endVars, Resting, Working, Causes
  <2>4. Located(p)' /\ Tried(p)' /\ Told(p)'
    BY <1>t, <2>p, <2>1, GivenFacts, <2>a, <2>b, <2>c, <2>d DEF Located, Tried, Told, Types,
       Working, Resting, NoResponse
  <2>5. FileInv'
    BY <1>3, <2>p, <2>1, <2>2, BystanderKeeps DEF Read, Return, Goto, Types, Same, Located,
       fileVars, callVars, saveVars, endVars, Resting
  <2>6. contended \subseteq contended'
    BY <1>3 DEF Read, Return, Goto, fileVars, callVars, saveVars, endVars
  <2> QED  BY <2>2, <2>3, <2>4, <2>5, <2>6, OthersKeep
<1>4. ASSUME NEW p \in Procs, ReadMalformed(p) PROVE IInv'
  <2>p. Located(p) /\ Tried(p) /\ Told(p)
    BY DEF ProcInv
  <2>1. /\ pc[p] = "read" /\ pc'[p] = "failed" /\ failure'[p] = "malformed"
        /\ UNCHANGED <<key[p], retries[p], attempt[p], response[p], answer[p], written[p],
             handle[p], foundAbsent[p]>>
    BY <1>4, <1>t, <2>p DEF ReadMalformed, Raise, Goto, Types, fileVars, callVars, saveVars,
       endVars, Resting, Working
  <2>2. \A q \in Procs \ {p} : Same(q)
    BY <1>4 DEF ReadMalformed, Raise, Goto, Types, Same, fileVars, callVars, saveVars, endVars
  <2>3. Types'
    BY <1>4, <2>p DEF ReadMalformed, Raise, Goto, Types, fileVars, callVars, saveVars,
       endVars, Resting, Working, Causes
  <2>4. Located(p)' /\ Tried(p)' /\ Told(p)'
    BY <1>t, <2>p, <2>1 DEF Located, Tried, Told, Types, Working, Resting, NoResponse
  <2>5. FileInv'
    BY <1>4, <2>p, <2>1, <2>2, BystanderKeeps DEF ReadMalformed, Raise, Goto, Types, Same,
       Located, fileVars, callVars, saveVars, endVars, Resting
  <2>6. contended \subseteq contended'
    BY <1>4 DEF ReadMalformed, Raise, Goto, fileVars, callVars, saveVars, endVars
  <2> QED  BY <2>2, <2>3, <2>4, <2>5, <2>6, OthersKeep
<1>5. ASSUME NEW p \in Procs, ReadVanished(p) PROVE IInv'
  <2>p. Located(p) /\ Tried(p) /\ Told(p)
    BY DEF ProcInv
  <2>1. /\ pc[p] = "read" /\ pc'[p] = "failed" /\ failure'[p] = "vanished"
        /\ UNCHANGED <<key[p], retries[p], attempt[p], response[p], answer[p], written[p],
             handle[p], foundAbsent[p]>>
    BY <1>5, <1>t, <2>p DEF ReadVanished, Raise, Goto, Types, fileVars, callVars, saveVars,
       endVars, Resting, Working
  <2>2. \A q \in Procs \ {p} : Same(q)
    BY <1>5 DEF ReadVanished, Raise, Goto, Types, Same, fileVars, callVars, saveVars, endVars
  <2>3. Types'
    BY <1>5, <2>p DEF ReadVanished, Raise, Goto, Types, fileVars, callVars, saveVars, endVars,
       Resting, Working, Causes
  <2>4. Located(p)' /\ Tried(p)' /\ Told(p)'
    BY <1>t, <2>p, <2>1 DEF Located, Tried, Told, Types, Working, Resting, NoResponse
  <2>5. FileInv'
    BY <1>5, <2>p, <2>1, <2>2, BystanderKeeps DEF ReadVanished, Raise, Goto, Types, Same,
       Located, fileVars, callVars, saveVars, endVars, Resting
  <2>6. contended \subseteq contended'
    BY <1>5 DEF ReadVanished, Raise, Goto, fileVars, callVars, saveVars, endVars
  <2> QED  BY <2>2, <2>3, <2>4, <2>5, <2>6, OthersKeep
<1>6. ASSUME NEW p \in Procs, Served(p) PROVE IInv'
  <2>p. Located(p) /\ Tried(p) /\ Told(p)
    BY DEF ProcInv
  <2>a. attempt[p] \in Nat /\ retries[p] \in Int /\ attempt[p] < 1 + retries[p]
    BY <1>6 DEF Served, AttemptsLeft, Types
  <2>b. PICK r \in Given : response' = [response EXCEPT ![p] = r]
    <3>1. PICK size \in Sizes : response' = [response EXCEPT ![p] =
                                    [by |-> p, call |-> called[p], size |-> size]]
      BY <1>6 DEF Served
    <3>2. called[p] \in Nat
      BY LLMCacheAssumption DEF Types
    <3> QED  BY <3>1, <3>2 DEF Given
  <2>1. /\ pc[p] = "generate" /\ pc'[p] = "save" /\ attempt'[p] = attempt[p] + 1
        /\ response'[p] = r /\ UNCHANGED <<key[p], retries[p], answer[p], written[p],
             handle[p], failure[p], foundAbsent[p]>>
    BY <1>6, <1>t, <2>p, <2>a, <2>b DEF Served, Goto, Types, fileVars, callVars, saveVars,
       endVars, Resting, Working
  <2>2. \A q \in Procs \ {p} : Same(q)
    BY <1>6, <2>a, <2>b DEF Served, Goto, Types, Same, fileVars, callVars, saveVars, endVars
  <2>3. Types'
    <3>1. attempt' \in [Procs -> Nat]
      BY <1>6, <2>a DEF Served, Types
    <3> QED
      BY <1>6, <3>1, <2>b DEF Served, Goto, Types, fileVars, callVars, saveVars, endVars,
         Resting, Working, Causes
  <2>4. Located(p)' /\ Tried(p)' /\ Told(p)'
    BY <1>t, <2>p, <2>1, GivenFacts, <2>a, <2>b DEF Located, Tried, Told, Types, Working,
       Resting, NoResponse
  <2>5. FileInv'
    BY <1>6, <2>p, <2>1, <2>2, BystanderKeeps DEF Served, Goto, Types, Same, Located,
       fileVars, callVars, saveVars, endVars, Resting
  <2>6. contended \subseteq contended'
    BY <1>6 DEF Served, Goto, fileVars, callVars, saveVars, endVars
  <2> QED  BY <2>2, <2>3, <2>4, <2>5, <2>6, OthersKeep
<1>7. ASSUME NEW p \in Procs, TransientError(p) PROVE IInv'
  <2>p. Located(p) /\ Tried(p) /\ Told(p)
    BY DEF ProcInv
  <2>a. attempt[p] \in Nat /\ retries[p] \in Int /\ attempt[p] < 1 + retries[p]
    BY <1>7 DEF TransientError, AttemptsLeft, Types
  <2>1. /\ pc[p] = "generate" /\ pc'[p] = "generate" /\ attempt'[p] = attempt[p] + 1
        /\ UNCHANGED <<key[p], retries[p], response[p], answer[p], written[p], handle[p],
             failure[p], foundAbsent[p]>>
    BY <1>7, <1>t, <2>p, <2>a DEF TransientError, Goto, Types, fileVars, callVars, saveVars,
       endVars, Resting, Working
  <2>2. \A q \in Procs \ {p} : Same(q)
    BY <1>7, <2>a DEF TransientError, Goto, Types, Same, fileVars, callVars, saveVars, endVars
  <2>3. Types'
    <3>1. attempt' \in [Procs -> Nat]
      BY <1>7, <2>a DEF TransientError, Types
    <3> QED
      BY <1>7, <3>1 DEF TransientError, Goto, Types, fileVars, callVars, saveVars, endVars,
         Resting, Working, Causes
  <2>4. Located(p)' /\ Tried(p)' /\ Told(p)'
    BY <1>t, <2>p, <2>1, <2>a DEF Located, Tried, Told, Types, Working, Resting, NoResponse
  <2>5. FileInv'
    BY <1>7, <2>p, <2>1, <2>2, BystanderKeeps DEF TransientError, Goto, Types, Same, Located,
       fileVars, callVars, saveVars, endVars, Resting
  <2>6. contended \subseteq contended'
    BY <1>7 DEF TransientError, Goto, fileVars, callVars, saveVars, endVars
  <2> QED  BY <2>2, <2>3, <2>4, <2>5, <2>6, OthersKeep
<1>8. ASSUME NEW p \in Procs, PermanentError(p) PROVE IInv'
  <2>p. Located(p) /\ Tried(p) /\ Told(p)
    BY DEF ProcInv
  <2>a. attempt[p] \in Nat /\ retries[p] \in Int /\ attempt[p] < 1 + retries[p]
    BY <1>8 DEF PermanentError, AttemptsLeft, Types
  <2>1. /\ pc[p] = "generate" /\ pc'[p] = "failed" /\ attempt'[p] = attempt[p] + 1
        /\ failure'[p] = "permanent" /\ UNCHANGED <<key[p], retries[p], response[p],
             answer[p], written[p], handle[p], foundAbsent[p]>>
    BY <1>8, <1>t, <2>p, <2>a DEF PermanentError, Raise, Goto, Types, fileVars, callVars,
       saveVars, endVars, Resting, Working
  <2>2. \A q \in Procs \ {p} : Same(q)
    BY <1>8, <2>a DEF PermanentError, Raise, Goto, Types, Same, fileVars, callVars, saveVars,
       endVars
  <2>3. Types'
    <3>1. attempt' \in [Procs -> Nat]
      BY <1>8, <2>a DEF PermanentError, Types
    <3> QED
      BY <1>8, <3>1 DEF PermanentError, Raise, Goto, Types, fileVars, callVars, saveVars,
         endVars, Resting, Working, Causes
  <2>4. Located(p)' /\ Tried(p)' /\ Told(p)'
    BY <1>t, <2>p, <2>1, <2>a DEF Located, Tried, Told, Types, Working, Resting, NoResponse
  <2>5. FileInv'
    BY <1>8, <2>p, <2>1, <2>2, BystanderKeeps DEF PermanentError, Raise, Goto, Types, Same,
       Located, fileVars, callVars, saveVars, endVars, Resting
  <2>6. contended \subseteq contended'
    BY <1>8 DEF PermanentError, Raise, Goto, fileVars, callVars, saveVars, endVars
  <2> QED  BY <2>2, <2>3, <2>4, <2>5, <2>6, OthersKeep
<1>9. ASSUME NEW p \in Procs, GiveUp(p) PROVE IInv'
  <2>p. Located(p) /\ Tried(p) /\ Told(p)
    BY DEF ProcInv
  <2>a. attempt[p] \in Nat /\ retries[p] \in Int /\ ~(attempt[p] < 1 + retries[p])
    BY <1>9 DEF GiveUp, AttemptsLeft, Types
  <2>1. /\ pc[p] = "generate" /\ pc'[p] = "failed"
        /\ failure'[p] = IF attempt[p] = 0 THEN "no attempt" ELSE "transient"
        /\ UNCHANGED <<key[p], retries[p], attempt[p], response[p], answer[p], written[p],
             handle[p], foundAbsent[p]>>
    BY <1>9, <1>t, <2>p, <2>a DEF GiveUp, Raise, Goto, Types, fileVars, callVars, saveVars,
       endVars, Resting, Working
  <2>2. \A q \in Procs \ {p} : Same(q)
    BY <1>9, <2>a DEF GiveUp, Raise, Goto, Types, Same, fileVars, callVars, saveVars, endVars
  <2>3. Types'
    BY <1>9, <2>p, <2>a DEF GiveUp, Raise, Goto, Types, fileVars, callVars, saveVars, endVars,
       Resting, Working, Causes
  <2>4. Located(p)' /\ Tried(p)' /\ Told(p)'
    <3>1. Located(p)'
      BY <2>p, <2>1 DEF Located, Working
    <3>0. attempt[p] > 0 => attempt[p] <= retries[p] + 1
      BY <2>p DEF Tried
    <3>2. attempt[p] # 0 => attempt[p] = retries[p] + 1
      BY <2>a, <3>0
    <3>3. attempt[p] = 0 => retries[p] < 0
      BY <2>a
    <3>4. attempt'[p] = attempt[p] /\ retries'[p] = retries[p]
      BY <2>1
    <3>5. Tried(p)'
      BY <2>p, <2>1, <3>2, <3>3, <3>4 DEF Tried
    <3>6. Told(p)'
      BY <2>1 DEF Told
    <3> QED  BY <3>1, <3>5, <3>6
  <2>5. FileInv'
    BY <1>9, <2>p, <2>1, <2>2, BystanderKeeps DEF GiveUp, Raise, Goto, Types, Same, Located,
       fileVars, callVars, saveVars, endVars, Resting
  <2>6. contended \subseteq contended'
    BY <1>9 DEF GiveUp, Raise, Goto, fileVars, callVars, saveVars, endVars
  <2> QED  BY <2>2, <2>3, <2>4, <2>5, <2>6, OthersKeep
<1>10. ASSUME NEW p \in Procs, SaveSkipped(p) PROVE IInv'
  <2>p. Located(p) /\ Tried(p) /\ Told(p)
    BY DEF ProcInv
  <2>1. /\ pc[p] = "save" /\ pc'[p] = "answered" /\ answer'[p] = response[p]
        /\ UNCHANGED <<key[p], retries[p], attempt[p], response[p], written[p], handle[p],
             failure[p], foundAbsent[p]>>
    BY <1>10, <1>t, <2>p DEF SaveSkipped, Return, Goto, Types, fileVars, callVars, saveVars,
       endVars, Resting, Working
  <2>2. \A q \in Procs \ {p} : Same(q)
    BY <1>10 DEF SaveSkipped, Return, Goto, Types, Same, fileVars, callVars, saveVars, endVars
  <2>3. Types'
    BY <1>10, <2>p DEF SaveSkipped, Return, Goto, Types, fileVars, callVars, saveVars,
       endVars, Resting, Working, Causes
  <2>4. Located(p)' /\ Tried(p)' /\ Told(p)'
    BY <1>t, <2>p, <2>1, GivenFacts DEF Located, Tried, Told, Types, Working, Resting,
       NoResponse
  <2>5. FileInv'
    BY <1>10, <2>p, <2>1, <2>2, BystanderKeeps DEF SaveSkipped, Return, Goto, Types, Same,
       Located, fileVars, callVars, saveVars, endVars, Resting
  <2>6. contended \subseteq contended'
    BY <1>10 DEF SaveSkipped, Return, Goto, fileVars, callVars, saveVars, endVars
  <2> QED  BY <2>2, <2>3, <2>4, <2>5, <2>6, OthersKeep
<1>11. ASSUME NEW p \in Procs, SaveNew(p) PROVE IInv'
  <2>p. Located(p) /\ Tried(p) /\ Told(p)
    BY DEF ProcInv
  <2>1. /\ pc[p] = "save" /\ pc'[p] = "open" /\ foundAbsent'[p] = TRUE
        /\ UNCHANGED <<key[p], retries[p], attempt[p], response[p], answer[p], written[p],
             handle[p], failure[p]>>
    BY <1>11, <1>t, <2>p DEF SaveNew, Goto, Types, fileVars, callVars, saveVars, endVars,
       Resting, Working
  <2>2. \A q \in Procs \ {p} : Same(q)
    BY <1>11 DEF SaveNew, Goto, Types, Same, fileVars, callVars, saveVars, endVars
  <2>3. Types'
    BY <1>11, <2>p DEF SaveNew, Goto, Types, fileVars, callVars, saveVars, endVars, Resting,
       Working, Causes
  <2>4. Located(p)' /\ Tried(p)' /\ Told(p)'
    BY <1>t, <2>p, <2>1 DEF Located, Tried, Told, Types, Working, Resting, NoResponse
  <2>5. FileInv'
    BY <1>11, <2>p, <2>1, <2>2, BystanderKeeps DEF SaveNew, Goto, Types, Same, Located,
       fileVars, callVars, saveVars, endVars, Resting
  <2>6. contended \subseteq contended'
    BY <1>11 DEF SaveNew, Goto, fileVars, callVars, saveVars, endVars
  <2> QED  BY <2>2, <2>3, <2>4, <2>5, <2>6, OthersKeep
<1>12. ASSUME NEW p \in Procs, Open(p) PROVE IInv'
  <2> DEFINE k == key[p]
  <2>p. Located(p) /\ Tried(p) /\ Told(p)
    BY DEF ProcInv
  <2>1. /\ pc[p] = "open" /\ pc'[p] = "write" /\ handle[p] = "none" /\ handle'[p] = "open"
        /\ written'[p] = 0 /\ response[p] \in Given /\ k \in Keys
        /\ UNCHANGED <<key[p], retries[p], attempt[p], response[p], failure[p], foundAbsent[p]>>
    BY <1>12, <1>t, <2>p DEF Open, Goto, Types, Located, callVars, endVars
  <2>2. /\ \A q \in Procs \ {p} : /\ handle'[q] = handle[q] /\ written'[q] = written[q]
                                /\ Same(q)
        /\ key' = key /\ response' = response
    BY <1>12 DEF Open, Goto, Types, Same, callVars, endVars
  <2>3. /\ file'[k] = [present |-> TRUE, pieces |-> <<>>]
        /\ \A l \in Keys \ {k} : file'[l] = file[l]
    BY <1>12, <2>1 DEF Open, Types
  <2>4. contended \subseteq contended' /\ cut' = cut
    BY <1>12 DEF Open
  <2>5. \A q \in Procs \ {p} : handle[q] = "open" /\ key[q] = k => k \in contended'
    BY <1>12 DEF Open, Others
  <2>6. Types'
    <3>1. [present |-> TRUE, pieces |-> <<>>] \in [present : BOOLEAN, pieces : Seq(Content)]
      OBVIOUS
    <3>2. file' \in [Keys -> [present : BOOLEAN, pieces : Seq(Content)]]
      BY <1>12, <3>1 DEF Open, Types
    <3>3. contended' \subseteq Keys
      BY <1>12, <2>1 DEF Open, Types
    <3> QED
      BY <1>12, <3>2, <3>3 DEF Open, Goto, Types, callVars, endVars, Working
  <2>7. Located(p)' /\ Tried(p)' /\ Told(p)'
    <3>1. Located(p)'
      BY <2>p, <2>1, GivenFacts DEF Located, Working
    <3>2. Tried(p)'
      BY <2>p, <2>1 DEF Tried
    <3>3. Told(p)'
      BY <2>1 DEF Told
    <3> QED  BY <3>1, <3>2, <3>3
  <2>8. ProcInv'
    BY <2>2, <2>4, <2>7, OthersKeep
  <2>9. Named'
    <3>1. \A l \in Keys : ~file'[l].present => file'[l] = Absent
      BY <2>3 DEF FileInv, Named
    <3>2. ASSUME NEW q \in Procs, handle'[q] = "open" PROVE file'[key[q]].present
      <4>1. key[q] \in Keys
        BY DEF Types
      <4>2. q = p \/ file[key[q]].present
        BY <3>2, <2>2 DEF FileInv, Named
      <4> QED
        BY <4>1, <4>2, <2>3
    <3> QED  BY <3>1, <3>2, <2>2 DEF Named
  <2>13. Alone'
    <3> SUFFICES ASSUME NEW q \in Procs, NEW r \in Procs, q # r, handle'[q] = "open",
                        handle'[r] = "open", key[q] = key[r]
                 PROVE  key[q] \in contended'
      BY <2>2 DEF Alone
    <3>1. CASE q = p \/ r = p
      BY <3>1, <2>2, <2>5
    <3>2. CASE q # p /\ r # p
      BY <3>2, <2>2, <2>4 DEF FileInv, Alone
    <3> QED  BY <3>1, <3>2
  <2>10. Filled'
    <3> SUFFICES ASSUME NEW q \in Procs, handle'[q] = "open", key'[q] \notin contended'
                 PROVE  Begins(file'[key'[q]].pieces, written'[q], response'[q])
      BY DEF Filled
    <3>1. CASE q = p
      BY <3>1, <2>1, <2>2, <2>3 DEF Begins
    <3>2. CASE q # p
      <4>1. key[q] # k /\ key[q] \in Keys /\ handle[q] = "open" /\ key[q] \notin contended
        BY <3>2, <2>2, <2>4, <2>5 DEF Types
      <4> QED
        BY <3>2, <4>1, <2>2, <2>3 DEF FileInv, Filled
    <3> QED  BY <3>1, <3>2
  <2>11. Beginning'
    <3> SUFFICES ASSUME NEW l \in Keys, file'[l].present, l \notin contended'
                 PROVE  \E r \in Given : \E n \in 0 .. r.size : Begins(file'[l].pieces, n, r)
      BY DEF Beginning
    <3>1. CASE l = k
      <4>1. Begins(file'[l].pieces, 0, response[p]) /\ 0 \in 0 .. response[p].size
        BY <3>1, <2>1, <2>3, GivenFacts DEF Begins
      <4> QED  BY <4>1, <2>1
    <3>2. CASE l # k
      BY <3>2, <2>3, <2>4 DEF FileInv, Beginning
    <3> QED  BY <3>1, <3>2
  <2>12. Settled'
    <3> SUFFICES ASSUME NEW l \in Keys, file'[l].present, l \notin contended' \cup cut'
                 PROVE  IsWhole(file'[l].pieces) \/ \E q \in Procs : handle'[q] = "open"
                 /\ key'[q] = l
      BY DEF Settled
    <3>1. CASE l = k
      BY <3>1, <2>1
    <3>2. CASE l # k
      BY <3>2, <2>1, <2>2, <2>3, <2>4 DEF FileInv, Settled
    <3> QED  BY <3>1, <3>2
  <2> QED  BY <2>6, <2>8, <2>9, <2>10, <2>11, <2>12, <2>13 DEF FileInv
<1>13. ASSUME NEW p \in Procs, WritePiece(p) PROVE IInv'
  <2> DEFINE k == key[p]
             n == written[p]
  <2>p. Located(p) /\ Tried(p) /\ Told(p)
    BY DEF ProcInv
  <2>1. /\ pc[p] = "write" /\ pc' = pc /\ handle' = handle /\ written'[p] = n + 1 /\ n \in Nat
        /\ n < response[p].size /\ response[p] \in Given /\ k \in Keys
        /\ UNCHANGED <<key, retries, attempt, response, answer, failure, foundAbsent, called>>
    BY <1>13, <1>t, <2>p DEF WritePiece, Types, Located, callVars, endVars
  <2>2. \A q \in Procs \ {p} : Same(q) /\ written'[q] = written[q]
    BY <1>13, <2>1 DEF WritePiece, Types, Same
  <2>3. UNCHANGED <<contended, cut, doomed>> /\ written' = [written EXCEPT ![p] = n + 1]
    BY <1>13 DEF WritePiece
  <2>4. Piece(response[p], n + 1) \in Content /\ file[k].pieces \in Seq(Content)
    BY <2>1 DEF Content, Piece, Types
  <2>5. IF handle[p] = "stale" THEN file' = file
        ELSE file' = [file EXCEPT ![k].pieces = WriteAt(@, n + 1, Piece(response[p], n + 1))]
    BY <1>13, <2>1 DEF WritePiece
  <2>6. Types'
    <3>1. WriteAt(file[k].pieces, n + 1, Piece(response[p], n + 1)) \in Seq(Content)
      BY <2>1, <2>4, WriteTyped
    <3>2. file' \in [Keys -> [present : BOOLEAN, pieces : Seq(Content)]]
      <4>1. CASE handle[p] = "stale"
        BY <4>1, <2>5 DEF Types
      <4>2. CASE handle[p] # "stale"
        <5>1. file' = [file EXCEPT ![k] = [file[k] EXCEPT !.pieces =
                                  WriteAt(file[k].pieces, n + 1, Piece(response[p], n + 1))]]
          BY <4>2, <2>5
        <5>2. [file[k] EXCEPT !.pieces = WriteAt(file[k].pieces, n + 1, Piece(response[p],
              n + 1))]
                \in [present : BOOLEAN, pieces : Seq(Content)]
          BY <2>1, <3>1 DEF Types
        <5> QED  BY <5>1, <5>2 DEF Types
      <4> QED  BY <4>1, <4>2
    <3>3. written' \in [Procs -> Nat]
      BY <2>1, <2>3 DEF Types
    <3> QED
      BY <2>1, <2>3, <3>2, <3>3 DEF Types
  <2>7. Located(p)' /\ Tried(p)' /\ Told(p)'
    <3>1. Located(p)'
      BY <2>p, <2>1, GivenFacts DEF Located, Working
    <3>2. Tried(p)'
      BY <2>p, <2>1 DEF Tried
    <3>3. Told(p)'
      BY <2>1 DEF Told
    <3> QED  BY <3>1, <3>2, <3>3
  <2>8. ProcInv'
    BY <2>2, <2>3, <2>7, OthersKeep
  <2>9. CASE handle[p] = "stale"
    BY <2>1, <2>2, <2>3, <2>5, <2>6, <2>8, <2>9, BystanderKeeps DEF Same
  <2>10. CASE handle[p] # "stale"
    <3>1. handle[p] = "open" /\ file[k].present
      BY <2>1, <2>10, <2>p DEF Types, Located, FileInv, Named
    <3>2. /\ file'[k].present /\ file'[k].pieces = WriteAt(file[k].pieces, n + 1,
             Piece(response[p], n + 1))
          /\ \A l \in Keys \ {k} : file'[l] = file[l]
      <4>1. file' = [file EXCEPT ![k].pieces = WriteAt(@, n + 1, Piece(response[p], n + 1))]
        BY <2>5, <2>10
      <4>2. file' = [file EXCEPT ![k] = [file[k] EXCEPT !.pieces =
                                WriteAt(file[k].pieces, n + 1, Piece(response[p], n + 1))]]
        BY <4>1
      <4> QED
        BY <4>2, <2>1, <3>1 DEF Types
    <3>3. k \notin contended => Begins(file'[k].pieces, n + 1, response[p])
      BY <2>1, <2>4, <3>1, <3>2, WriteLengthens DEF FileInv, Filled
    <3>4. \A q \in Procs \ {p} : handle[q] = "open" /\ key[q] \notin contended => key[q] # k
      BY <3>1 DEF FileInv, Alone
    <3>5. Named' /\ Alone'
      BY <2>1, <2>3, <3>1, <3>2 DEF Types, FileInv, Named, Alone
    <3>6. Filled'
      BY <2>1, <2>2, <2>3, <3>2, <3>3, <3>4 DEF Types, FileInv, Filled
    <3>7. Beginning'
      <4> SUFFICES ASSUME NEW l \in Keys, file'[l].present, l \notin contended
                   PROVE  \E r \in Given : \E m \in 0 .. r.size : Begins(file'[l].pieces, m, r)
        BY <2>3 DEF Beginning
      <4>1. CASE l = k
        <5>1. n + 1 \in 0 .. response[p].size
          BY <2>1, GivenFacts
        <5> QED  BY <4>1, <5>1, <3>3, <2>1
      <4>2. CASE l # k
        BY <4>2, <3>2 DEF FileInv, Beginning
      <4> QED  BY <4>1, <4>2
    <3>8. Settled'
      <4> SUFFICES ASSUME NEW l \in Keys, file'[l].present, l \notin contended \cup cut
                   PROVE  IsWhole(file'[l].pieces) \/ \E q \in Procs : handle'[q] = "open"
                   /\ key'[q] = l
        BY <2>3 DEF Settled
      <4>1. CASE l = k
        BY <4>1, <3>1, <2>1
      <4>2. CASE l # k
        BY <4>2, <2>1, <3>2 DEF FileInv, Settled
      <4> QED  BY <4>1, <4>2
    <3> QED  BY <2>6, <2>8, <3>5, <3>6, <3>7, <3>8 DEF FileInv
  <2> QED  BY <2>9, <2>10
<1>14. ASSUME NEW p \in Procs, Close(p) PROVE IInv'
  <2>p. Located(p) /\ Tried(p) /\ Told(p)
    BY DEF ProcInv
  <2>1. /\ pc[p] = "write" /\ pc'[p] = "answered" /\ answer'[p] = response[p]
           /\ handle'[p] = "none"
        /\ written[p] = response[p].size /\ response[p] \in Given
        /\ UNCHANGED <<key, retries, attempt, response, written, failure, foundAbsent, file,
             contended, cut>>
    BY <1>14, <1>t, <2>p DEF Close, Return, Goto, Types, Located, fileVars, callVars
  <2>2. \A q \in Procs \ {p} : Same(q)
    BY <1>14 DEF Close, Return, Goto, Types, Same, callVars
  <2>3. Types'
    BY <1>14, <2>1 DEF Close, Return, Goto, Types, fileVars, callVars, Resting
  <2>4. Located(p)' /\ Tried(p)' /\ Told(p)'
    BY <2>p, <2>1, GivenFacts DEF Located, Tried, Told, Working
  <2>5. ProcInv'
    BY <2>1, <2>2, <2>4, OthersKeep
  <2>6. handle[p] = "open" => key[p] \in contended \cup cut \/ IsWhole(file[key[p]].pieces)
    BY <2>1, WholeWhenComplete DEF Types, FileInv, Filled
  <2>7. FileInv'
    BY <2>1, <2>2, <2>6, LeavingKeeps
  <2> QED  BY <2>3, <2>5, <2>7
<1>15. ASSUME NEW p \in Procs, WriteFails(p) PROVE IInv'
  <2>p. Located(p) /\ Tried(p) /\ Told(p)
    BY DEF ProcInv
  <2>1. /\ pc[p] = "write" /\ pc'[p] = "failed" /\ failure'[p] = "disk" /\ handle'[p] = "none"
        /\ cut \subseteq cut' /\ cut' \subseteq cut \cup {key[p]}
        /\ UNCHANGED <<key, retries, attempt, response, written, answer, foundAbsent, file,
             contended>>
    BY <1>15, <1>t, <2>p DEF WriteFails, Abandon, Raise, Goto, Types, Located, callVars
  <2>2. \A q \in Procs \ {p} : Same(q)
    BY <1>15 DEF WriteFails, Abandon, Raise, Goto, Types, Same, callVars
  <2>3. Types'
    <3>1. key[p] \in Keys /\ cut' \subseteq Keys
      BY <2>1 DEF Types
    <3>2. doomed' = doomed /\ called' = called
      BY <1>15 DEF WriteFails, callVars
    <3>3. pc' \in [Procs -> Resting \cup Working] /\ failure' \in [Procs -> Causes]
      BY <1>15 DEF WriteFails, Raise, Goto, Types, Resting, Causes
    <3>4. handle' \in [Procs -> {"none", "open", "stale"}]
      BY <1>15 DEF WriteFails, Abandon, Types
    <3> QED
      BY <2>1, <3>1, <3>2, <3>3, <3>4 DEF Types
  <2>4. Located(p)' /\ Tried(p)' /\ Told(p)'
    BY <2>p, <2>1 DEF Located, Tried, Told, Working
  <2>5. ProcInv'
    BY <2>1, <2>2, <2>4, OthersKeep
  <2>6. handle[p] = "open" => key[p] \in cut'
    BY <1>15 DEF WriteFails, Abandon
  <2>7. FileInv'
    BY <2>1, <2>2, <2>6, LeavingKeeps
  <2> QED  BY <2>3, <2>5, <2>7
<1>16. ASSUME NEW p \in Procs, Crash(p) PROVE IInv'
  <2>p. Located(p) /\ Tried(p) /\ Told(p)
    BY DEF ProcInv
  <2>1. /\ pc[p] \in Working /\ pc'[p] = "dead" /\ handle'[p] = "none"
        /\ cut \subseteq cut' /\ cut' \subseteq cut \cup {key[p]}
        /\ UNCHANGED <<key, retries, attempt, response, written, answer, failure, foundAbsent,
             file, contended>>
    BY <1>16 DEF Crash, Abandon, Types, callVars, endVars
  <2>2. \A q \in Procs \ {p} : Same(q)
    BY <1>16 DEF Crash, Abandon, Types, Same, callVars, endVars
  <2>3. Types'
    BY <1>16, <2>1 DEF Crash, Abandon, Types, callVars, endVars, Resting
  <2>4. Located(p)' /\ Tried(p)' /\ Told(p)'
    BY <2>p, <2>1 DEF Located, Tried, Told, Working
  <2>5. ProcInv'
    BY <2>1, <2>2, <2>4, OthersKeep
  <2>6. handle[p] = "open" => key[p] \in cut'
    BY <1>16 DEF Crash, Abandon
  <2>7. FileInv'
    BY <2>1, <2>2, <2>6, LeavingKeeps
  <2> QED  BY <2>3, <2>5, <2>7
<1>17. CASE FindStale
  <2>1. Types'
    BY <1>17 DEF FindStale, Types, callVars, saveVars, endVars
  <2>2. ProcInv'
    BY <1>17 DEF FindStale, ProcInv, Located, Tried, Told, callVars, saveVars, endVars
  <2>3. FileInv'
    BY <1>17, BystanderKeeps DEF FindStale, callVars, saveVars
  <2> QED  BY <2>1, <2>2, <2>3
<1>18. CASE Unlink
  <2>1. PICK k \in doomed :
            /\ doomed' = doomed \ {k} /\ file' = [file EXCEPT ![k] = Absent]
            /\ handle' = [p \in Procs |->
                            IF key[p] = k /\ handle[p] = "open" THEN "stale" ELSE handle[p]]
    BY <1>18 DEF Unlink
  <2>2. UNCHANGED <<contended, cut, key, retries, attempt, response, called, written,
          foundAbsent,
                    answer, failure, pc>>
    BY <1>18 DEF Unlink, callVars, endVars
  <2>3. k \in Keys /\ file'[k] = Absent /\ \A l \in Keys \ {k} : file'[l] = file[l]
    BY <2>1 DEF Types
  <2>4. Types'
    <3>1. Absent \in [present : BOOLEAN, pieces : Seq(Content)]
      BY DEF Absent
    <3>2. file' \in [Keys -> [present : BOOLEAN, pieces : Seq(Content)]]
      BY <2>1, <3>1 DEF Types
    <3> QED
      BY <2>1, <2>2, <3>2 DEF Types
  <2>5. \A p \in Procs : handle'[p] = "none" <=> handle[p] = "none"
    BY <2>1 DEF Types
  <2>6. ProcInv'
    BY <2>2, <2>5 DEF ProcInv, Located, Tried, Told
  <2>7. \A p \in Procs : handle'[p] = "open" <=> handle[p] = "open" /\ key[p] # k
    BY <2>1
  <2>8. FileInv'
    <3>1. Named' /\ Alone'
      BY <2>2, <2>3, <2>7 DEF Types, FileInv, Named, Alone
    <3>2. Filled'
      BY <2>2, <2>3, <2>7 DEF Types, FileInv, Filled
    <3>3. Beginning' /\ Settled'
      BY <2>2, <2>3, <2>7 DEF FileInv, Beginning, Settled, Absent
    <3> QED  BY <3>1, <3>2, <3>3 DEF FileInv
  <2> QED  BY <2>4, <2>6, <2>8
<1>19. CASE UNCHANGED vars
  <2>1. Types'
    BY <1>19 DEF vars, Types, fileVars, callVars, saveVars, endVars
  <2>2. ProcInv'
    BY <1>19 DEF vars, ProcInv, Located, Tried, Told, fileVars, callVars, saveVars, endVars
  <2>3. FileInv'
    BY <1>19, BystanderKeeps DEF vars, fileVars, callVars, saveVars
  <2> QED  BY <2>1, <2>2, <2>3
<1> QED
  BY <1>1, <1>2, <1>3, <1>4, <1>5, <1>6, <1>7, <1>8, <1>9, <1>10, <1>11, <1>12, <1>13, <1>14,
     <1>15, <1>16, <1>17, <1>18, <1>19 DEF Next, Step

LEMMA InvAlways == Spec => []IInv
<1>1. Init => IInv
  BY InvInit
<1>2. IInv /\ [Next]_vars => IInv'
  BY InvStep
<1> QED
  BY <1>1, <1>2, PTL DEF Spec

-----------------------------------------------------------------------------
(***************************************************************************)
(* The theorems.                                                           *)
(***************************************************************************)
\* A file that does not exist has no contents, and only a process that writes holds a
\* file open, for any number of processes, keys and calls.
THEOREM TypeCorrect == Spec => []TypeOK
<1>1. IInv => TypeOK
  <2> SUFFICES ASSUME IInv PROVE TypeOK
    OBVIOUS
  <2>1. ASSUME NEW p \in Procs PROVE written[p] \in 0 .. response[p].size
    <3>1. written[p] \in Nat /\ written[p] <= response[p].size /\ response[p].size \in Nat
      BY GivenFacts DEF IInv, Types, ProcInv, Located, NoResponse
    <3> QED  BY <3>1
  <2> QED
    BY <2>1 DEF IInv, Types, ProcInv, Located, FileInv, Named, TypeOK
<1> QED
  BY <1>1, InvAlways, PTL

\* A call returns one complete response or, of an entry that two processes had open at
\* once, what happened to parse: cache_lookup never takes half an answer for a whole one.
THEOREM WholeAnswers == Spec => []AnswersAreWhole
<1>1. IInv => AnswersAreWhole
  BY DEF IInv, ProcInv, Told, AnswersAreWhole
<1> QED
  BY <1>1, InvAlways, PTL

\* An entry that can not be read has a writer, or lost one, or had two; and a call that
\* gives up met an error on every attempt that max_retries allows.
THEOREM CausesOfFailure == Spec => []FailuresHaveACause
<1>1. IInv => FailuresHaveACause
  BY DEF IInv, ProcInv, Tried, FileInv, Settled, FailuresHaveACause
<1> QED
  BY <1>1, InvAlways, PTL

\* A complete entry is changed only by an eviction, or by a process whose check found no
\* entry: cache_save does not overwrite what it has seen.
THEOREM FirstResponseStays == Spec => FirstResponseWins
<1> DEFINE Stays ==
        \A k \in Keys : IsWhole(file[k].pieces) /\ file'[k] # file[k] =>
            \/ ~file'[k].present
            \/ \E p \in Procs :
                  key[p] = k /\ pc[p] \in {"open", "write"} /\ foundAbsent[p]
<1>1. IInv /\ [Next]_vars => [Stays]_vars
  <2> SUFFICES ASSUME IInv, Next, NEW k \in Keys, file'[k] # file[k]
               PROVE  \/ ~file'[k].present
                      \/ \E p \in Procs :
                            key[p] = k /\ pc[p] \in {"open", "write"} /\ foundAbsent[p]
    OBVIOUS
  <2>1. ASSUME NEW p \in Procs, Open(p) \/ WritePiece(p)
        PROVE  key[p] = k /\ pc[p] \in {"open", "write"} /\ foundAbsent[p]
    BY <2>1 DEF Open, WritePiece, Goto, IInv, Types, ProcInv, Located
  <2>2. CASE Unlink
    BY <2>2 DEF Unlink, IInv, Types, Absent
  <2>3. ASSUME NEW p \in Procs, Call(p) \/ Step(p) \/ Crash(p), ~Open(p), ~WritePiece(p)
        PROVE  file' = file
    BY <2>3 DEF Step, Call, Crash, Lookup, Read, ReadMalformed, ReadVanished, Served,
                TransientError, PermanentError, GiveUp, SaveSkipped, SaveNew, Close,
                WriteFails, fileVars
  <2>4. CASE FindStale
    BY <2>4 DEF FindStale
  <2> QED
    BY <2>1, <2>2, <2>3, <2>4 DEF Next
<1> QED
  BY <1>1, InvAlways, PTL DEF Spec, FirstResponseWins
=============================================================================
