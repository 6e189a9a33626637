-------------------------- MODULE GenerationProofs --------------------------
(***************************************************************************)
(* Proofs about Generation. The inductive invariant IInv says, of every    *)
(* point between the design and the compliance check, what the execution   *)
(* relies on:                                                              *)
(*   Counted     every call was counted, in the usage or as a recovery;    *)
(*   Planning    how far the chunks are, and whose plan they follow;       *)
(*   Diagnosed   what was_truncated can be trusted for;                    *)
(*   Cached      where the manifests of the chunks are in the cache;       *)
(*   Agreed      that an execution repeats the one whose conflicts were    *)
(*               reported, as far as it has come;                          *)
(*   Arbitrated  that only a merge without conflicts is the manifest;      *)
(*   Extracted   which files the tree got from it;                         *)
(*   Reported    what the report says of the tree.                         *)
(***************************************************************************)
EXTENDS Generation, FiniteSetTheorems, SequenceTheorems, TLAPS

-----------------------------------------------------------------------------
\* All lists of files there are: the responses' and what checks leave.
Lists     == {r.files : r \in Responses} \cup {e.left : e \in Effects}
Pathnames == UNION {{l[k].path : k \in DOMAIN l} : l \in Lists}
Typesets  == UNION {{l[k].types : k \in DOMAIN l} : l \in Lists}

\* What Stamp makes of them.
Entries   == [path : Pathnames, types : Typesets, by : Nat]
Manifests == Seq(Entries)
Answers   == [kind : {"manifest", "missing", "malformed"}, cut : BOOLEAN,
              files : Manifests, by : Nat]

\* The loop over the components; merge and gate; what comes after the gate.
Looping    == {"chunk", "split", "recover"}
Deciding   == {"merge", "gate"}
Saving     == {"save", "saving", "saved"}
Extracting == {"write", "extracted", "tested", "checked"}

Shapes ==
    /\ pc \in Resting \cup Working
    /\ run \in 0 .. MaxRuns
    /\ design \in Designs \cup {NoDesign}
    /\ contract # NoContract =>
         Valid(contract) /\ IsContract(contract) /\ \E d \in Designs : contract = d.contract
    /\ cache \in [DOMAIN cache -> Answers]
    /\ markdown \in 0 .. run
    /\ manifest = [by |-> manifest.by, files |-> manifest.files]
    /\ manifest.by \in 0 .. run /\ manifest.files \in Manifests
    /\ tree \in [DOMAIN tree -> Entries]
    /\ chunked \in BOOLEAN /\ driven \in BOOLEAN /\ hit \in BOOLEAN /\ truncated \in BOOLEAN
    /\ Listed(plan) /\ parts \in Seq(Manifests) /\ response \in Answers
    /\ merged \in Manifests /\ written \in Nat
    /\ usage \in Nat /\ spent \in Nat /\ calls \in Nat

Counted ==
    /\ recovered \subseteq 1 .. Len(parts)
    /\ spent = usage + Cardinality(recovered) /\ spent <= calls

\* The components that the contract C plans.
ComponentsOf(C) ==
    [k \in DOMAIN C.components |-> Component(C.components[k].name, C.components[k].files)]

\* How far the chunks are.
Planning ==
    /\ Len(parts) <= Len(plan)
    /\ pc \in {"idle", "design", "plan"} => parts = <<>>
    /\ pc = "plan" => ~driven
    /\ pc \in Looping => Len(parts) < Len(plan)
    /\ pc \in Deciding \cup Saving \cup Extracting => parts # <<>> /\ Len(parts) = Len(plan)
    /\ pc \in {"gate", "plan"} => chunked
    /\ pc \in Looping \cup Deciding \cup {"plan"} => driven = (contract # NoContract)
    /\ pc \in Looping \cup Deciding /\ chunked /\ driven => plan = ComponentsOf(contract)

Diagnosed ==
    /\ pc # "failed" => failure = "none"
    /\ failure = "missing" => (response.cut => hit)
    /\ pc \in {"split", "recover"} /\ ~hit => truncated = response.cut
    /\ pc = "recover" => response.kind = "missing" /\ Recovers

\* Every chunk so far went through the cache. What came of it is what the cache holds, or
\* was recovered because the cache holds no manifest.
Cached ==
    /\ pc \in {"split", "recover"} => KeyOf \in DOMAIN cache /\ cache[KeyOf] = response
    /\ pc \in Working => \A k \in DOMAIN parts :
        /\ KeyAt(k) \in DOMAIN cache
        /\ k \in recovered => cache[KeyAt(k)].kind = "missing"
        /\ k \notin recovered =>
             cache[KeyAt(k)].kind = "manifest" /\ cache[KeyAt(k)].files = parts[k]

\* This execution's design as ConflictsFail would record it.
Ours == [id |-> design.id, contract |-> contract]

\* The key of the k-th component that a design plans, behind the parts Q.
KeyAfter(who, Q, k) ==
    LET sofar == FlattenSeq(SubSeq(Q, 1, k - 1))
    IN  [design    |-> who.id,
         component |-> ComponentsOf(who.contract)[k],
         schema    |-> who.contract.types,
         existing  |-> [j \in DOMAIN sofar |-> sofar[j].path],
         types     |-> TypeContracts(sofar)]

\* Q are the parts whose conflicts were reported: the cache answers every one of their keys,
\* if with a manifest, then with the part itself.
Shown(Q) ==
    /\ conflicts = Conflicts(Q)
    /\ Len(Q) = Len(confronted.contract.components)
    /\ \A k \in DOMAIN Q :
        /\ KeyAfter(confronted, Q, k) \in DOMAIN cache
        /\ cache[KeyAfter(confronted, Q, k)].kind = "manifest" =>
             cache[KeyAfter(confronted, Q, k)].files = Q[k]

\* Unless a manifest was recovered again, the parts so far are those of Q.
Repeats(Q) ==
    pc \in Looping \cup Deciding /\ chunked /\ recovered = {} /\ confronted = Ours =>
        \A k \in DOMAIN parts : parts[k] = Q[k]

Agreed ==
    confronted.contract # NoContract => \E Q \in Seq(Manifests) : Shown(Q) /\ Repeats(Q)

\* The manifest goes from the merge over the gate to the document.
Arbitrated ==
    /\ pc = "gate" => merged = Merge(parts, "last")
    /\ pc \in Saving \cup Extracting /\ chunked =>
         merged = Merge(parts, "last") /\ Conflicts(parts) = {}
    /\ pc \in Extracting \cup {"saved"} => manifest.files = merged

\* The files of the entries written so far.
Listing == {Resolve(manifest.files[j].path) : j \in 1 .. written}

\* What an entry is on disk, now or once the extraction has ended.
Landed(entry) == IF pc = "write" THEN entry ELSE OnDisk(entry)

\* The tree is what was there before and what was written since, up to what checks did.
Extracted ==
    /\ written <= Len(manifest.files)
    /\ pc \notin Extracting \cup {"failed"} => written = 0
    /\ pc \in {"extracted", "tested", "checked"} => written = Len(manifest.files)
    /\ pc \notin {"tested", "checked"} => touched = {}
    /\ DOMAIN before \subseteq DOMAIN tree \cup touched
    /\ \A f \in DOMAIN tree : Resolve(tree[f].path) = f /\ tree[f].path \notin Unsafe
    /\ pc \in Extracting =>
        /\ Listing \subseteq DOMAIN tree \cup touched
        /\ DOMAIN tree \subseteq DOMAIN before \cup Listing \cup touched
    /\ pc \in {"write", "extracted"} => \A j \in 1 .. written : \E i \in 1 .. written :
        /\ j <= i /\ Resolve(manifest.files[i].path) = Resolve(manifest.files[j].path)
        /\ tree[Resolve(manifest.files[j].path)] = Landed(manifest.files[i])

Reported ==
    report = IF pc # "checked" \/ contract = NoContract THEN Absent
             ELSE IF Passes(contract, tree) THEN "passed" ELSE "failed"

IInv == /\ Shapes /\ Counted /\ Planning /\ Diagnosed /\ Cached /\ Agreed
        /\ Arbitrated /\ Extracted /\ Reported

-----------------------------------------------------------------------------
(***************************************************************************)
(* Lemmas on numbers, sequences and the operators of Manifest. Induction   *)
(* is by least counterexample: the library's induction theorems take an    *)
(* operator that the provers cannot instantiate, its well-founded orders   *)
(* do not.                                                                 *)
(***************************************************************************)
LEMMA Smallest ==
    ASSUME NEW T, T \subseteq Nat, T # {}
    PROVE  \E x \in T : \A y \in T : x <= y
<1> DEFINE Below == {1 .. x : x \in T}
<1>1. Below \subseteq FiniteSubsetsOf(Nat) /\ Below # {}
  <2>1. \A x \in T : 1 .. x \subseteq Nat /\ IsFiniteSet(1 .. x)
    BY FS_Interval
  <2> QED BY <2>1 DEF FiniteSubsetsOf
<1>2. PICK X \in Below : \A Y \in Below : <<Y, X>> \notin StrictSubsetOrdering(Nat)
  BY <1>1, FS_StrictSubsetOrderingWellFounded, WFMin
<1>3. PICK x \in T : X = 1 .. x
  BY <1>2
<1>4. ASSUME NEW y \in T  PROVE x <= y
  <2>1. <<1 .. y, 1 .. x>> \notin StrictSubsetOrdering(Nat)
    BY <1>2, <1>3
  <2>2. 1 .. y \in SUBSET Nat /\ 1 .. x \in SUBSET Nat
    OBVIOUS
  <2>3. ~ (1 .. y \subseteq 1 .. x /\ 1 .. y # 1 .. x)
    BY <2>1, <2>2 DEF StrictSubsetOrdering
  <2>4. x \in 1 .. x \/ x = 0
    OBVIOUS
  <2> QED BY <2>3, <2>4
<1> QED BY <1>4

LEMMA MinIs ==
    ASSUME NEW T, T \subseteq Nat, T # {}
    PROVE  Min(T) \in T /\ \A y \in T : Min(T) <= y
BY Smallest DEF Min

LEMMA MaxIs ==
    ASSUME NEW n \in Nat, NEW T, T \subseteq 1 .. n, T # {}
    PROVE  Max(T) \in T /\ \A y \in T : y <= Max(T)
<1> DEFINE D == {n - x : x \in T}
<1>1. PICK d \in D : \A e \in D : d <= e
  <2>1. D \subseteq Nat /\ D # {}
    <3>1. \A x \in T : n - x \in Nat
      OBVIOUS
    <3> QED BY <3>1
  <2> QED BY <2>1, Smallest
<1>2. PICK x \in T : d = n - x
  BY <1>1
<1>3. \A y \in T : y <= x
  <2> TAKE y \in T
  <2>1. n - x <= n - y
    BY <1>1, <1>2
  <2> QED BY <2>1
<1>4. \E m \in T : \A y \in T : m >= y
  BY <1>3
<1>5. Max(T) \in T /\ \A y \in T : Max(T) >= y
  BY <1>4, Zenon DEF Max
<1> QED BY <1>5

\* Every finite set of positive numbers can be listed in ascending order.
LEMMA AscendingExists ==
    ASSUME NEW n \in Nat, NEW S, S \subseteq 1 .. n
    PROVE  \E s \in [1 .. Cardinality(S) -> S] :
             \A i, j \in DOMAIN s : i < j => s[i] < s[j]
<1> DEFINE Sorted(U) == \E s \in [1 .. Cardinality(U) -> U] :
                          \A i, j \in DOMAIN s : i < j => s[i] < s[j]
           Bad == {m \in Nat : \E U \in SUBSET (1 .. m) : ~Sorted(U)}
<1>1. SUFFICES ASSUME Bad # {}  PROVE FALSE
  <2>1. S \in SUBSET (1 .. n)
    OBVIOUS
  <2>2. Sorted(S)
    BY <1>1, <2>1
  <2> QED BY <2>2
<1>2. PICK m \in Bad : \A k \in Bad : m <= k
  <2>1. Bad \subseteq Nat
    OBVIOUS
  <2> HIDE DEF Bad
  <2> QED BY <1>1, <2>1, Smallest
<1>3. PICK U \in SUBSET (1 .. m) : ~Sorted(U)
  BY <1>2
<1>4. m \in Nat /\ IsFiniteSet(U) /\ Cardinality(U) \in Nat
  <2>1. m \in Nat
    BY <1>2
  <2>2. IsFiniteSet(1 .. m)
    BY <2>1, FS_Interval
  <2>3. IsFiniteSet(U)
    BY <2>2, <1>3, FS_Subset
  <2> HIDE DEF Sorted
  <2> QED BY <2>1, <2>3, FS_CardinalityType
<1>5. CASE m = 0
  <2>1. U = {} /\ Cardinality(U) = 0
    <3>1. U = {}
      BY <1>5
    <3> QED BY <3>1, FS_EmptySet
  <2>2. [i \in 1 .. 0 |-> 0] \in [1 .. Cardinality(U) -> U]
    BY <2>1
  <2>3. Sorted(U)
    <3> WITNESS [i \in 1 .. 0 |-> 0] \in [1 .. Cardinality(U) -> U]
    <3> QED OBVIOUS
  <2> QED BY <1>3, <2>3
<1>6. CASE m > 0
  <2>1. m - 1 \in Nat /\ m - 1 \notin Bad
    <3>1. m - 1 \in Nat /\ ~ (m <= m - 1)
      BY <1>4, <1>6
    <3> HIDE DEF Bad
    <3> QED BY <3>1, <1>2
  <2> DEFINE V == U \ {m}
  <2>2. V \in SUBSET (1 .. (m - 1))
    BY <1>4, <1>6
  <2>3. Sorted(V)
    BY <2>1, <2>2
  <2>4. PICK s \in [1 .. Cardinality(V) -> V] : \A i, j \in DOMAIN s : i < j => s[i] < s[j]
    BY <2>3
  <2>5. CASE m \in U
    <3>1. Cardinality(V) = Cardinality(U) - 1 /\ IsFiniteSet(V) /\ Cardinality(V) \in Nat
      BY <1>4, <2>5, FS_RemoveElement, FS_CardinalityType
    <3> DEFINE c == Cardinality(U)
               t == [i \in 1 .. c |-> IF i = c THEN m ELSE s[i]]
    <3>2. \A i \in 1 .. c : i # c => i \in 1 .. Cardinality(V) /\ s[i] \in V /\ s[i] < m
      <4> TAKE i \in 1 .. c
      <4>1. i # c => i \in 1 .. Cardinality(V)
        BY <3>1, <1>4
      <4>2. \A v \in V : v < m
        BY <2>2, <1>4
      <4> HIDE DEF c, V
      <4> QED BY <4>1, <4>2, <2>4
    <3>3. t \in [1 .. Cardinality(U) -> U]
      BY <3>2, <2>5
    <3>4. ASSUME NEW i \in DOMAIN t, NEW j \in DOMAIN t, i < j  PROVE t[i] < t[j]
      <4>1. i \in 1 .. c /\ j \in 1 .. c /\ i # c /\ t[i] = s[i]
        BY <3>4, <1>4
      <4>2. CASE j = c
        BY <4>1, <4>2, <3>2
      <4>3. CASE j # c
        <5>1. t[j] = s[j] /\ i \in DOMAIN s /\ j \in DOMAIN s
          BY <4>1, <4>3, <3>2
        <5> QED BY <5>1, <4>1, <3>4, <2>4
      <4> QED BY <4>2, <4>3
    <3>5. Sorted(U)
      <4> HIDE DEF t
      <4> WITNESS t \in [1 .. Cardinality(U) -> U]
      <4> QED BY <3>4
    <3> QED BY <3>5, <1>3
  <2>6. CASE m \notin U
    <3>1. V = U
      BY <2>6
    <3> QED BY <3>1, <2>3, <1>3
  <2> QED BY <2>5, <2>6
<1> QED BY <1>4, <1>5, <1>6

\* Ascending lists every member, once.
LEMMA AscendingIs ==
    ASSUME NEW n \in Nat, NEW S, S \subseteq 1 .. n
    PROVE  /\ Cardinality(S) \in Nat
           /\ Ascending(S) \in [1 .. Cardinality(S) -> S]
           /\ \A i, j \in 1 .. Cardinality(S) : i < j => Ascending(S)[i] < Ascending(S)[j]
           /\ \A x \in S : \E i \in 1 .. Cardinality(S) : Ascending(S)[i] = x
<1> DEFINE c == Cardinality(S)
           a == Ascending(S)
<1>1. IsFiniteSet(S) /\ c \in Nat
  <2>1. IsFiniteSet(1 .. n)
    BY FS_Interval
  <2>2. IsFiniteSet(S)
    BY <2>1, FS_Subset
  <2> QED BY <2>2, FS_CardinalityType
<1>2. a \in [1 .. c -> S] /\ \A i, j \in DOMAIN a : i < j => a[i] < a[j]
  BY AscendingExists, Zenon DEF Ascending
<1>3. \A i, j \in 1 .. c : i < j => a[i] < a[j]
  BY <1>2
<1>4. a \in Injection(1 .. c, S)
  <2>1. ASSUME NEW i \in 1 .. c, NEW j \in 1 .. c, a[i] = a[j]  PROVE i = j
    <3> HIDE DEF a, c
    <3>1. a[i] \in S /\ a[j] \in S
      BY <1>2
    <3>2. a[i] \in Nat /\ a[j] \in Nat
      <4>1. S \subseteq Nat
        OBVIOUS
      <4> QED BY <3>1, <4>1
    <3>3. ~ (a[i] < a[j]) /\ ~ (a[j] < a[i])
      BY <2>1, <3>2
    <3>4. ~ (i < j) /\ ~ (j < i)
      BY <3>3, <1>3
    <3> QED BY <3>4, <1>1
  <2> HIDE DEF a, c
  <2> QED BY <2>1, <1>2 DEF Injection, IsInjective
<1>5. a \in Surjection(1 .. c, S)
  <2>1. Cardinality(1 .. c) = c
    BY <1>1, FS_Interval
  <2> HIDE DEF a
  <2> QED BY <2>1, <1>1, <1>4, FS_Injection
<1> QED BY <1>1, <1>2, <1>3, <1>5 DEF Surjection
\* Flattening a sequence of sequences over S gives a sequence over S.
LEMMA FlattenIs ==
    ASSUME NEW S, NEW seqs \in Seq(Seq(S))
    PROVE  FlattenSeq(seqs) \in Seq(S)
<1> DEFINE N == Len(seqs)
           Flat(m) == \E g \in [1 .. m -> Seq(S)] :
             \A i \in 1 .. m : g[i] = IF i = 1 THEN seqs[i] ELSE g[i - 1] \o seqs[i]
           Bad == {m \in 1 .. N : ~Flat(m)}
<1>1. N \in Nat /\ \A i \in 1 .. N : seqs[i] \in Seq(S)
  OBVIOUS
<1>2. CASE N = 0
  <2>1. FlattenSeq(seqs) = <<>>
    BY <1>2 DEF FlattenSeq
  <2> QED BY <2>1
<1>3. CASE N > 0
  <2>1. Bad = {}
    <3>1. SUFFICES ASSUME Bad # {}  PROVE FALSE
      OBVIOUS
    <3>2. PICK m \in Bad : \A k \in Bad : m <= k
      <4>1. Bad \subseteq Nat
        OBVIOUS
      <4> HIDE DEF Bad
      <4> QED BY <3>1, <4>1, Smallest
    <3>3. m \in 1 .. N /\ ~Flat(m)
      BY <3>2
    <3>4. CASE m = 1
      <4> DEFINE g == [i \in 1 .. 1 |-> seqs[1]]
      <4>1. g \in [1 .. m -> Seq(S)]
        BY <1>1, <1>3, <3>4
      <4>2. \A i \in 1 .. m : g[i] = IF i = 1 THEN seqs[i] ELSE g[i - 1] \o seqs[i]
        BY <3>4
      <4> QED BY <4>1, <4>2, <3>3
    <3>5. CASE m > 1
      <4>1. Flat(m - 1)
        <5>1. m - 1 \in 1 .. N /\ ~ (m <= m - 1)
          BY <3>3, <3>5
        <5>2. m - 1 \notin Bad
          <6> HIDE DEF Bad
          <6> QED BY <5>1, <3>2
        <5> QED BY <5>1, <5>2
      <4>2. PICK h \in [1 .. (m - 1) -> Seq(S)] : \A i \in 1 .. (m - 1) :
              h[i] = IF i = 1 THEN seqs[i] ELSE h[i - 1] \o seqs[i]
        BY <4>1
      <4> DEFINE g == [i \in 1 .. m |-> IF i = m THEN h[m - 1] \o seqs[m] ELSE h[i]]
      <4>3. m - 1 \in 1 .. (m - 1) /\ m \in Nat
        BY <3>3, <3>5
      <4>4. h[m - 1] \o seqs[m] \in Seq(S)
        <5>1. h[m - 1] \in Seq(S) /\ seqs[m] \in Seq(S)
          BY <1>1, <3>3, <4>2, <4>3
        <5> QED BY <5>1, ConcatProperties
      <4>5. g \in [1 .. m -> Seq(S)]
        <5>1. \A i \in 1 .. m : i # m => i \in 1 .. (m - 1)
          BY <4>3
        <5> QED BY <5>1, <4>2, <4>4
      <4>6. ASSUME NEW i \in 1 .. m
            PROVE  g[i] = IF i = 1 THEN seqs[i] ELSE g[i - 1] \o seqs[i]
        <5>1. CASE i = m
          <6>1. m \in 1 .. m /\ m - 1 \in 1 .. m /\ m - 1 # m
            BY <4>3
          <6>2. g[i] = h[m - 1] \o seqs[m] /\ g[i - 1] = h[m - 1]
            BY <5>1, <6>1
          <6> HIDE DEF g
          <6>3. i # 1
            BY <5>1, <4>3, <3>5
          <6> QED BY <6>2, <6>3, <5>1
        <5>2. CASE i = 1
          <6>1. 1 \in 1 .. (m - 1) /\ 1 \in 1 .. m /\ 1 # m
            BY <4>3, <3>5
          <6>2. g[1] = h[1] /\ h[1] = seqs[1]
            BY <6>1, <4>2
          <6> QED BY <6>2, <5>2
        <5>3. CASE i # m /\ i # 1
          <6>1. i \in 1 .. (m - 1) /\ i - 1 \in 1 .. m /\ i - 1 # m
            BY <5>3, <4>3
          <6>2. g[i] = h[i] /\ g[i - 1] = h[i - 1]
            BY <6>1, <5>3
          <6> HIDE DEF g
          <6> QED BY <6>1, <6>2, <5>3, <4>2
        <5> QED BY <5>1, <5>2, <5>3
      <4>7. Flat(m)
        <5> HIDE DEF g
        <5> WITNESS g \in [1 .. m -> Seq(S)]
        <5> QED BY <4>6
      <4> QED BY <4>7, <3>3
    <3> QED BY <3>3, <3>4, <3>5
  <2>2. PICK g \in [1 .. N -> Seq(S)] : \A i \in 1 .. N :
          g[i] = IF i = 1 THEN seqs[i] ELSE g[i - 1] \o seqs[i]
    <3>1. Flat(N)
      <4>1. N \in 1 .. N
        BY <1>1, <1>3
      <4> QED BY <4>1, <2>1
    <3> QED BY <3>1
  <2>3. g = [i \in 1 .. N |-> IF i = 1 THEN seqs[i] ELSE g[i - 1] \o seqs[i]]
    BY <2>2
  <2> DEFINE F == CHOOSE f : f = [i \in 1 .. N |->
                       IF i = 1 THEN seqs[i] ELSE f[i - 1] \o seqs[i]]
  <2>4. F = [i \in 1 .. N |-> IF i = 1 THEN seqs[i] ELSE F[i - 1] \o seqs[i]]
    BY <2>3
  <2>5. FlattenSeq(seqs) = F[N]
    <3>1. Len(seqs) # 0
      BY <1>3
    <3> QED BY <3>1, Zenon DEF FlattenSeq
  <2> HIDE DEF F
  <2>6. \A i \in 1 .. N : F[i] = IF i = 1 THEN seqs[i] ELSE F[i - 1] \o seqs[i]
    BY <2>4
  <2> DEFINE Odd == {i \in 1 .. N : F[i] \notin Seq(S)}
  <2>7. Odd = {}
    <3>1. SUFFICES ASSUME Odd # {}  PROVE FALSE
      OBVIOUS
    <3>2. PICK m \in Odd : \A k \in Odd : m <= k
      <4>1. Odd \subseteq Nat
        OBVIOUS
      <4> HIDE DEF Odd
      <4> QED BY <3>1, <4>1, Smallest
    <3>3. m \in 1 .. N /\ F[m] \notin Seq(S)
      BY <3>2
    <3>4. m # 1 /\ F[m] = F[m - 1] \o seqs[m] /\ seqs[m] \in Seq(S)
      BY <3>3, <2>6, <1>1
    <3>5. m - 1 \in 1 .. N /\ ~ (m <= m - 1)
      BY <3>3, <3>4
    <3>6. F[m - 1] \in Seq(S)
      BY <3>2, <3>5
    <3> QED BY <3>3, <3>4, <3>6, ConcatProperties
  <2>8. N \in 1 .. N
    BY <1>1, <1>3
  <2> QED BY <2>5, <2>7, <2>8
<1> QED BY <1>1, <1>2, <1>3

\* What _merge_manifests gives for any chunks: no path twice and none lost, each in the
\* first or in the last version that any chunk gave of it.
THEOREM MergeResolves ==
    ASSUME NEW E, NEW manifests \in Seq(Seq(E)), NEW policy
    PROVE  LET all == FlattenSeq(manifests)
               out == Merge(manifests, policy)
           IN  /\ all \in Seq(E) /\ out \in Seq(E)
               /\ \A j \in DOMAIN out : \E w \in DOMAIN all :
                    /\ out[j] = all[w]
                    /\ \A i \in DOMAIN all : all[i].path = all[w].path =>
                         IF policy = "first" THEN w <= i ELSE i <= w
               /\ \A k \in DOMAIN all : \E j \in DOMAIN out : out[j].path = all[k].path
               /\ \A i, j \in DOMAIN out : out[i].path = out[j].path => i = j
<1> DEFINE all == FlattenSeq(manifests)
           N == Len(all)
           firsts == {FirstOf(all, p) : p \in Paths(all)}
           order == Ascending(firsts)
           c == Cardinality(firsts)
           W(p) == IF policy = "first" THEN FirstOf(all, p) ELSE LastOf(all, p)
           out == Merge(manifests, policy)
<1>1. all \in Seq(E)
  BY FlattenIs
<1> HIDE DEF all
<1>2. N \in Nat /\ DOMAIN all = 1 .. N /\ \A i \in 1 .. N : all[i] \in E
  BY <1>1
<1>3. ASSUME NEW p \in Paths(all)
      PROVE  /\ FirstOf(all, p) \in 1 .. N /\ all[FirstOf(all, p)].path = p
             /\ LastOf(all, p) \in 1 .. N /\ all[LastOf(all, p)].path = p
             /\ \A i \in 1 .. N : all[i].path = p =>
                  FirstOf(all, p) <= i /\ i <= LastOf(all, p)
  <2> DEFINE T == Positions(all, p)
  <2>1. T \subseteq 1 .. N /\ T # {} /\ T \subseteq Nat
    BY <1>2 DEF Positions, Paths
  <2>2. \A i \in 1 .. N : i \in T <=> all[i].path = p
    BY <1>2 DEF Positions
  <2> HIDE DEF T
  <2>3. Min(T) \in T /\ \A y \in T : Min(T) <= y
    BY <2>1, MinIs
  <2>4. Max(T) \in T /\ \A y \in T : y <= Max(T)
    BY <1>2, <2>1, MaxIs
  <2>5. FirstOf(all, p) = Min(T) /\ LastOf(all, p) = Max(T)
    BY DEF FirstOf, LastOf, T
  <2> QED BY <2>1, <2>2, <2>3, <2>4, <2>5
<1>4. firsts \subseteq 1 .. N
  BY <1>3
<1>5. /\ c \in Nat /\ order \in [1 .. c -> firsts]
      /\ \A i, j \in 1 .. c : i < j => order[i] < order[j]
      /\ \A x \in firsts : \E i \in 1 .. c : order[i] = x
  <2> HIDE DEF firsts
  <2> QED BY <1>2, <1>4, AscendingIs
<1>6. out = [k \in 1 .. c |-> all[W(all[order[k]].path)]]
  <2>1. DOMAIN order = 1 .. c
    BY <1>5
  <2> QED BY <2>1 DEF Merge, all
<1> HIDE DEF order, c, out
<1>7. ASSUME NEW k \in 1 .. c
      PROVE  \E p \in Paths(all) :
               order[k] = FirstOf(all, p) /\ all[order[k]].path = p /\ out[k] = all[W(p)]
  <2>1. PICK p \in Paths(all) : order[k] = FirstOf(all, p)
    BY <1>5
  <2>2. all[order[k]].path = p
    BY <2>1, <1>3
  <2> QED BY <2>1, <2>2, <1>6
<1>8. DOMAIN out = 1 .. c
  BY <1>6
<1>9. \A p \in Paths(all) : W(p) \in 1 .. N /\ all[W(p)].path = p
  BY <1>3
<1>10. out \in Seq(E)
  <2>1. \A k \in 1 .. c : out[k] \in E
    BY <1>2, <1>7, <1>9
  <2>2. out \in [1 .. c -> E]
    BY <2>1, <1>6
  <2> QED BY <2>2, <1>5
<1>11. ASSUME NEW j \in DOMAIN out
       PROVE  \E w \in DOMAIN all : /\ out[j] = all[w]
                /\ \A i \in DOMAIN all : all[i].path = all[w].path =>
                     IF policy = "first" THEN w <= i ELSE i <= w
  <2>1. PICK p \in Paths(all) : out[j] = all[W(p)]
    BY <1>7, <1>8
  <2>2. \A i \in 1 .. N : all[i].path = p => IF policy = "first" THEN W(p) <= i ELSE i <= W(p)
    BY <1>3
  <2>3. W(p) \in DOMAIN all /\ all[W(p)].path = p
    BY <1>2, <1>9
  <2>4. \A i \in DOMAIN all : all[i].path = all[W(p)].path =>
          IF policy = "first" THEN W(p) <= i ELSE i <= W(p)
    BY <2>2, <2>3, <1>2
  <2> HIDE DEF W
  <2> QED BY <2>1, <2>3, <2>4
<1>12. ASSUME NEW k \in DOMAIN all
       PROVE  \E j \in DOMAIN out : out[j].path = all[k].path
  <2> DEFINE p == all[k].path
  <2>1. p \in Paths(all)
    BY DEF Paths
  <2>2. PICK j \in 1 .. c : order[j] = FirstOf(all, p)
    BY <1>5, <2>1
  <2>3. out[j] = all[W(p)]
    BY <1>3, <1>6, <2>1, <2>2
  <2> QED BY <1>8, <1>9, <2>1, <2>3
<1>13. ASSUME NEW i \in DOMAIN out, NEW j \in DOMAIN out, out[i].path = out[j].path
       PROVE  i = j
  <2>1. order[i] = order[j]
    <3>1. PICK p \in Paths(all) : order[i] = FirstOf(all, p) /\ out[i] = all[W(p)]
      BY <1>7, <1>8
    <3>2. PICK q \in Paths(all) : order[j] = FirstOf(all, q) /\ out[j] = all[W(q)]
      BY <1>7, <1>8
    <3>3. p = q
      BY <1>9, <1>13, <3>1, <3>2
    <3> QED BY <3>1, <3>2, <3>3
  <2>2. order[i] \in Nat /\ order[j] \in Nat
    <3>1. order[i] \in 1 .. N /\ order[j] \in 1 .. N
      BY <1>4, <1>5, <1>8
    <3> QED BY <3>1
  <2>3. i \in Nat /\ j \in Nat
    BY <1>5, <1>8
  <2>4. ~ (i < j) /\ ~ (j < i)
    BY <2>1, <2>2, <1>5, <1>8
  <2> QED BY <2>3, <2>4
<1> QED BY <1>1, <1>10, <1>11, <1>12, <1>13 DEF all, out

\* The greatest position at which a list names a file.
LEMMA LastForIs ==
    ASSUME NEW E, NEW m \in Seq(E), NEW f \in FilesOf(m)
    PROVE  /\ LastFor(m, f) \in DOMAIN m /\ Resolve(m[LastFor(m, f)].path) = f
           /\ \A i \in DOMAIN m : Resolve(m[i].path) = f => i <= LastFor(m, f)
<1> DEFINE T == {k \in DOMAIN m : Resolve(m[k].path) = f}
<1>1. Len(m) \in Nat /\ DOMAIN m = 1 .. Len(m)
  OBVIOUS
<1>2. T \subseteq 1 .. Len(m) /\ T # {}
  BY <1>1 DEF FilesOf
<1>3. Max(T) \in T /\ \A y \in T : y <= Max(T)
  <2> HIDE DEF T
  <2> QED BY <1>1, <1>2, MaxIs
<1>4. LastFor(m, f) = Max(T)
  BY DEF LastFor
<1> QED BY <1>3, <1>4

\* "Last writer wins", the default of _merge_manifests: where no file has two paths, to
\* write the merged manifest leaves in any directory what writing the manifests of all
\* chunks in their order leaves.
THEOREM LastWriterWins ==
    ASSUME NEW E, NEW manifests \in Seq(Seq(E)), NEW directory,
           \A i, j \in DOMAIN FlattenSeq(manifests) :
             Resolve(FlattenSeq(manifests)[i].path) = Resolve(FlattenSeq(manifests)[j].path)
             => FlattenSeq(manifests)[i].path = FlattenSeq(manifests)[j].path
    PROVE  Written(directory, Merge(manifests, "last"))
           = Written(directory, FlattenSeq(manifests))
<1> DEFINE all == FlattenSeq(manifests)
           out == Merge(manifests, "last")
<1>1. /\ all \in Seq(E) /\ out \in Seq(E)
      /\ \A j \in DOMAIN out : \E w \in DOMAIN all :
           /\ out[j] = all[w]
           /\ \A i \in DOMAIN all : all[i].path = all[w].path => i <= w
      /\ \A k \in DOMAIN all : \E j \in DOMAIN out : out[j].path = all[k].path
  BY MergeResolves
<1>2. \A i, j \in DOMAIN all :
        Resolve(all[i].path) = Resolve(all[j].path) => all[i].path = all[j].path
  OBVIOUS
<1> HIDE DEF all, out
<1>3. FilesOf(out) = FilesOf(all)
  <2>1. \A j \in DOMAIN out : \E w \in DOMAIN all : out[j].path = all[w].path
    BY <1>1
  <2>2. \A k \in DOMAIN all : \E j \in DOMAIN out : out[j].path = all[k].path
    BY <1>1
  <2> QED BY <2>1, <2>2 DEF FilesOf
<1>4. ASSUME NEW f \in FilesOf(all)
      PROVE  out[LastFor(out, f)] = all[LastFor(all, f)]
  <2>1. LastFor(out, f) \in DOMAIN out /\ Resolve(out[LastFor(out, f)].path) = f
    BY <1>1, <1>3, LastForIs
  <2>2. PICK w \in DOMAIN all :
          /\ out[LastFor(out, f)] = all[w]
          /\ \A i \in DOMAIN all : all[i].path = all[w].path => i <= w
    BY <1>1, <2>1
  <2>3. /\ LastFor(all, f) \in DOMAIN all /\ Resolve(all[LastFor(all, f)].path) = f
        /\ \A i \in DOMAIN all : Resolve(all[i].path) = f => i <= LastFor(all, f)
    BY <1>1, LastForIs
  <2>4. Resolve(all[w].path) = f /\ all[LastFor(all, f)].path = all[w].path
    BY <1>2, <2>1, <2>2, <2>3
  <2>5. w <= LastFor(all, f) /\ LastFor(all, f) <= w
    BY <2>2, <2>3, <2>4
  <2>6. w \in Nat /\ LastFor(all, f) \in Nat
    <3>1. DOMAIN all = 1 .. Len(all) /\ Len(all) \in Nat
      BY <1>1, SMT
    <3> QED BY <2>2, <2>3, <3>1
  <2>7. w = LastFor(all, f)
    BY <2>5, <2>6
  <2> QED BY <2>2, <2>7
<1>5. Written(directory, out) = Written(directory, all)
  BY <1>3, <1>4 DEF Written
<1> QED BY <1>5 DEF all, out

\* Without conflicts no path is listed twice.
LEMMA NoConflictsIs ==
    ASSUME NEW E, NEW manifests \in Seq(Seq(E)), Conflicts(manifests) = {},
           NEW i \in DOMAIN FlattenSeq(manifests), NEW j \in DOMAIN FlattenSeq(manifests),
           FlattenSeq(manifests)[i].path = FlattenSeq(manifests)[j].path
    PROVE  i = j
<1> DEFINE all == FlattenSeq(manifests)
           p == all[i].path
           T == Positions(all, p)
<1>1. all \in Seq(E)
  BY FlattenIs
<1>2. p \in Paths(all) /\ i \in T /\ j \in T
  BY DEF Paths, Positions
<1>3. ~ (Cardinality(T) > 1)
  <2> DEFINE Several == {q \in Paths(all) : Cardinality(Positions(all, q)) > 1}
             Report(q) == [path |-> q, versions |-> SelectSeq(all, LAMBDA e : e.path = q)]
  <2>1. Conflicts(manifests) = {Report(q) : q \in Several}
    BY DEF Conflicts
  <2> HIDE DEF Several, Report
  <2>2. Several = {}
    BY <2>1
  <2> QED BY <1>2, <2>2 DEF Several
<1>4. Len(all) \in Nat /\ DOMAIN all = 1 .. Len(all)
  <2> HIDE DEF all
  <2> QED BY <1>1
<1>5. T \subseteq 1 .. Len(all)
  BY <1>4 DEF Positions
<1>6. IsFiniteSet(T) /\ Cardinality(T) \in Nat
  <2> HIDE DEF T, all
  <2>1. IsFiniteSet(1 .. Len(all))
    BY <1>4, FS_Interval
  <2>2. IsFiniteSet(T)
    BY <1>5, <2>1, FS_Subset
  <2> QED BY <2>2, FS_CardinalityType
<1>7. SUFFICES ASSUME i # j  PROVE FALSE
  OBVIOUS
<1> HIDE DEF T
<1>8. Cardinality({i, j}) = 2
  <2>1. IsFiniteSet({i}) /\ Cardinality({i}) = 1
    BY FS_Singleton
  <2>2. Cardinality({i} \cup {j}) = Cardinality({i}) + 1
    BY <1>7, <2>1, FS_AddElement
  <2>3. {i} \cup {j} = {i, j}
    OBVIOUS
  <2> QED BY <2>1, <2>2, <2>3
<1>9. Cardinality({i, j}) <= Cardinality(T)
  <2>1. {i, j} \in SUBSET T
    BY <1>2
  <2> QED BY <1>6, <2>1, FS_Subset
<1> QED BY <1>3, <1>6, <1>8, <1>9

\* Without conflicts a merge keeps every entry, and their order.
LEMMA MergeKeepsAll ==
    ASSUME NEW E, NEW manifests \in Seq(Seq(E)), Conflicts(manifests) = {}, NEW policy
    PROVE  LET all == FlattenSeq(manifests)
               out == Merge(manifests, policy)
           IN  \E at \in [DOMAIN out -> DOMAIN all] :
                 /\ \A k \in DOMAIN out : out[k] = all[at[k]]
                 /\ \A i, j \in DOMAIN out : i < j => at[i] < at[j]
                 /\ \A k \in DOMAIN all : \E i \in DOMAIN out : at[i] = k
<1> DEFINE all == FlattenSeq(manifests)
           N == Len(all)
           firsts == {FirstOf(all, p) : p \in Paths(all)}
           order == Ascending(firsts)
           c == Cardinality(firsts)
           W(p) == IF policy = "first" THEN FirstOf(all, p) ELSE LastOf(all, p)
           out == Merge(manifests, policy)
<1>1. all \in Seq(E) /\ \A i, j \in DOMAIN all : all[i].path = all[j].path => i = j
  BY FlattenIs, NoConflictsIs
<1> HIDE DEF all
<1>2. N \in Nat /\ DOMAIN all = 1 .. N
  BY <1>1
<1>3. ASSUME NEW k \in 1 .. N
      PROVE  FirstOf(all, all[k].path) = k /\ LastOf(all, all[k].path) = k
  <2>1. Positions(all, all[k].path) = {k}
    BY <1>1, <1>2 DEF Positions
  <2>2. Min({k}) = k /\ Max({k}) = k
    <3>1. Min({k}) \in {k}
      <4>1. {k} \subseteq Nat /\ {k} # {}
        BY <1>2
      <4> QED BY <4>1, MinIs
    <3>2. Max({k}) \in {k}
      BY <1>2, MaxIs
    <3> QED BY <3>1, <3>2
  <2> QED BY <2>1, <2>2 DEF FirstOf, LastOf
<1>4. firsts = 1 .. N
  <2>1. Paths(all) = {all[k].path : k \in 1 .. N}
    BY <1>2 DEF Paths
  <2> QED BY <1>3, <2>1
<1>5. /\ c \in Nat /\ order \in [1 .. c -> 1 .. N]
      /\ \A i, j \in 1 .. c : i < j => order[i] < order[j]
      /\ \A x \in 1 .. N : \E i \in 1 .. c : order[i] = x
  <2> HIDE DEF firsts
  <2>1. firsts \subseteq 1 .. N
    BY <1>4
  <2>2. /\ c \in Nat /\ order \in [1 .. c -> firsts]
        /\ \A i, j \in 1 .. c : i < j => order[i] < order[j]
        /\ \A x \in firsts : \E i \in 1 .. c : order[i] = x
    BY <1>2, <2>1, AscendingIs
  <2> HIDE DEF order, c
  <2> QED BY <1>4, <2>2
<1>6. out = [k \in 1 .. c |-> all[W(all[order[k]].path)]]
  <2>1. DOMAIN order = 1 .. c
    BY <1>5
  <2> QED BY <2>1 DEF Merge, all
<1> HIDE DEF order, c, out
<1>7. DOMAIN out = 1 .. c /\ \A k \in 1 .. c : out[k] = all[order[k]]
  <2>1. \A k \in 1 .. c : order[k] \in 1 .. N
    BY <1>5
  <2> QED BY <1>3, <1>6, <2>1
<1>8. order \in [DOMAIN out -> DOMAIN all]
  BY <1>2, <1>5, <1>7
<1>9. \E at \in [DOMAIN out -> DOMAIN all] :
        /\ \A k \in DOMAIN out : out[k] = all[at[k]]
        /\ \A i, j \in DOMAIN out : i < j => at[i] < at[j]
        /\ \A k \in DOMAIN all : \E i \in DOMAIN out : at[i] = k
  <2> WITNESS order \in [DOMAIN out -> DOMAIN all]
  <2> QED BY <1>2, <1>5, <1>7
<1> QED BY <1>9 DEF all, out

LEMMA ListIs ==
    ASSUME NEW f, NEW n \in Nat, f = [k \in 1 .. n |-> f[k]]
    PROVE  f \in Seq(ToSet(f)) /\ Len(f) = n
<1>1. f \in [1 .. n -> ToSet(f)]
  BY DEF ToSet
<1> QED BY <1>1

LEMMA ListedIs ==
    ASSUME NEW f, Listed(f)
    PROVE  Len(f) \in Nat /\ DOMAIN f = 1 .. Len(f)
BY DEF Listed

\* A list of n has at most n different members.
LEMMA MembersOf ==
    ASSUME NEW f, NEW n \in Nat, DOMAIN f = 1 .. n
    PROVE  /\ IsFiniteSet(ToSet(f)) /\ Cardinality(ToSet(f)) \in Nat
           /\ Cardinality(ToSet(f)) <= n
<1>1. IsFiniteSet(1 .. n) /\ Cardinality(1 .. n) = n
  BY FS_Interval
<1>2. [i \in 1 .. n |-> f[i]] \in Surjection(1 .. n, ToSet(f))
  BY DEF Surjection, ToSet
<1>3. IsFiniteSet(ToSet(f)) /\ Cardinality(ToSet(f)) <= Cardinality(1 .. n)
  BY <1>1, <1>2, FS_Surjection
<1> QED BY <1>1, <1>3, FS_CardinalityType

\* The files of a valid contract are within its budgets.
LEMMA ValidBudgets ==
    ASSUME NEW c, IsContract(c), Valid(c)
    PROVE  /\ c.budget \in Int
           /\ IsFiniteSet(Files(c)) /\ Cardinality(Files(c)) <= c.budget
           /\ \A comp \in ToSet(c.components) :
                /\ comp.maxFiles \in Int /\ IsFiniteSet(ToSet(comp.files))
                /\ Cardinality(ToSet(comp.files)) <= comp.maxFiles
<1>1. ASSUME NEW comp \in ToSet(c.components)
      PROVE  /\ comp.maxFiles \in Int /\ IsFiniteSet(ToSet(comp.files))
             /\ Cardinality(ToSet(comp.files)) <= comp.maxFiles
  <2>1. PICK k \in DOMAIN c.components : comp = c.components[k]
    BY DEF ToSet
  <2>2. Listed(comp.files) /\ comp.maxFiles \in Int /\ Len(comp.files) <= comp.maxFiles
    BY <2>1 DEF IsContract, Valid, ComponentValid
  <2>3. Len(comp.files) \in Nat /\ DOMAIN comp.files = 1 .. Len(comp.files)
    BY <2>2, ListedIs
  <2>4. /\ IsFiniteSet(ToSet(comp.files)) /\ Cardinality(ToSet(comp.files)) \in Nat
        /\ Cardinality(ToSet(comp.files)) <= Len(comp.files)
    BY <2>3, MembersOf
  <2> QED BY <2>2, <2>3, <2>4
<1>2. IsFiniteSet(Files(c))
  <2> DEFINE n == Len(c.components)
             lists == [k \in 1 .. n |-> ToSet(c.components[k].files)]
  <2>1. n \in Nat /\ DOMAIN c.components = 1 .. n
    BY ListedIs DEF IsContract
  <2>2. Files(c) = UNION ToSet(lists)
    <3>1. ToSet(lists) = {ToSet(c.components[k].files) : k \in 1 .. n}
      BY DEF ToSet
    <3> QED BY <2>1, <3>1 DEF Files
  <2>3. ASSUME NEW s \in ToSet(lists)  PROVE IsFiniteSet(s)
    <3>1. PICK k \in 1 .. n : s = ToSet(c.components[k].files)
      BY DEF ToSet
    <3>2. c.components[k] \in ToSet(c.components)
      BY <2>1 DEF ToSet
    <3> QED BY <1>1, <3>1, <3>2
  <2>4. DOMAIN lists = 1 .. n
    OBVIOUS
  <2> HIDE DEF lists, n
  <2>5. IsFiniteSet(ToSet(lists))
    BY <2>1, <2>4, MembersOf
  <2> QED BY <2>2, <2>3, <2>5, FS_UNION
<1> QED BY <1>1, <1>2 DEF IsContract, Valid

LEMMA StampIs ==
    ASSUME NEW l \in Lists, NEW n \in Nat
    PROVE  Stamp(l, n) \in Manifests
<1>1. Len(l) \in Nat /\ DOMAIN l = 1 .. Len(l)
  BY GenerationAssumption, ListedIs DEF Lists
<1>2. \A k \in DOMAIN l : [path |-> l[k].path, types |-> l[k].types, by |-> n] \in Entries
  BY DEF Entries, Pathnames, Typesets
<1>3. Stamp(l, n) \in [1 .. Len(l) -> Entries]
  BY <1>1, <1>2 DEF Stamp
<1> QED BY <1>1, <1>3 DEF Manifests

LEMMA RecoveredIs ==
    ASSUME Shapes, Counted
    PROVE  IsFiniteSet(recovered) /\ Cardinality(recovered) \in Nat
<1>1. IsFiniteSet(1 .. Len(parts))
  <2>1. Len(parts) \in Int
    BY DEF Shapes
  <2> QED BY <2>1, FS_Interval
<1>2. IsFiniteSet(recovered)
  BY <1>1, FS_Subset DEF Counted
<1> QED BY <1>2, FS_CardinalityType

LEMMA MergedIs ==
    ASSUME parts \in Seq(Manifests), NEW policy
    PROVE  Merge(parts, policy) \in Manifests
BY MergeResolves DEF Manifests

-----------------------------------------------------------------------------
(***************************************************************************)
(* What stays while the execution goes on.                                 *)
(***************************************************************************)
keyVars == <<contract, design, planVars>>

\* A key looks back only: it is the same when a part is added behind it.
LEMMA KeysStay ==
    ASSUME parts \in Seq(Manifests), UNCHANGED keyVars,
           parts' = parts \/ \E m \in Manifests : parts' = Append(parts, m)
    PROVE  \A k \in 1 .. Len(parts) + 1 : KeyAt(k)' = KeyAt(k)
<1> TAKE k \in 1 .. Len(parts) + 1
<1>1. SubSeq(parts', 1, k - 1) = SubSeq(parts, 1, k - 1)
  <2>1. CASE parts' = parts
    BY <2>1
  <2>2. ASSUME NEW m \in Manifests, parts' = Append(parts, m)
        PROVE  SubSeq(parts', 1, k - 1) = SubSeq(parts, 1, k - 1)
    BY <2>2
  <2> QED BY <2>1, <2>2
<1> QED BY <1>1 DEF KeyAt, keyVars, planVars, Schema, TypeContracts

LEMMA CachedStays ==
    ASSUME Shapes, Cached, UNCHANGED <<keyVars, parts, cache, recovered, response>>,
           pc' \in Working => pc \in Working,
           pc' \in {"split", "recover"} => pc \in {"split", "recover"}
    PROVE  Cached'
<1>1. parts \in Seq(Manifests) /\ Current' = Current /\ Current \in 1 .. Len(parts) + 1
      /\ DOMAIN parts \subseteq 1 .. Len(parts) + 1
  BY DEF Shapes, Current
<1>2. \A k \in 1 .. Len(parts) + 1 : KeyAt(k)' = KeyAt(k)
  BY <1>1, KeysStay
<1>3. KeyOf' = KeyOf
  BY <1>1, <1>2 DEF KeyOf
<1>4. \A k \in DOMAIN parts : KeyAt(k)' = KeyAt(k)
  BY <1>1, <1>2
<1> QED BY <1>3, <1>4 DEF Cached

\* What was reported stays as long as the report and the cache do; an execution repeats it
\* as long as its parts stay, or when it has none that count.
LEMMA AgreedStays ==
    ASSUME Agreed, UNCHANGED <<confronted, cache, conflicts>>,
           \/ pc' \notin Looping \cup Deciding
           \/ parts' = <<>>
           \/ recovered' # {}
           \/ /\ pc \in Looping \cup Deciding
              /\ UNCHANGED <<contract, design, chunked, parts, recovered>>
    PROVE  Agreed'
<1>1. SUFFICES ASSUME confronted'.contract # NoContract
               PROVE  \E Q \in Seq(Manifests) : Shown(Q)' /\ Repeats(Q)'
  BY DEF Agreed
<1>2. PICK Q \in Seq(Manifests) : Shown(Q) /\ Repeats(Q)
  BY <1>1 DEF Agreed
<1>3. Shown(Q)'
  BY <1>2 DEF Shown, KeyAfter, ComponentsOf, Component, TypeContracts
<1>4. Repeats(Q)'
  <2>1. CASE pc' \notin Looping \cup Deciding \/ parts' = <<>> \/ recovered' # {}
    BY <2>1 DEF Repeats
  <2>2. CASE pc \in Looping \cup Deciding
             /\ UNCHANGED <<contract, design, chunked, parts, recovered>>
    <3>1. Ours' = Ours
      BY <2>2 DEF Ours
    <3> QED BY <1>2, <2>2, <3>1 DEF Repeats
  <2> QED BY <2>1, <2>2
<1> QED BY <1>3, <1>4

\* The keys of a chunked, driven execution are those of the contract's components.
LEMMA DrivenKey ==
    ASSUME Shapes, Planning, chunked, contract # NoContract, pc \in Looping \cup Deciding,
           NEW Q, NEW k \in 1 .. Len(plan), SubSeq(Q, 1, k - 1) = SubSeq(parts, 1, k - 1)
    PROVE  KeyAfter(Ours, Q, k) = KeyAt(k)
<1>1. Schema = contract.types
  BY DEF Planning, Schema
<1>2. plan = ComponentsOf(contract)
  BY DEF Planning
<1>3. Ours.id = design.id /\ Ours.contract = contract
  BY DEF Ours
<1> QED BY <1>1, <1>2, <1>3 DEF KeyAfter, KeyAt

LEMMA DrivenLength ==
    ASSUME Shapes, Planning, chunked, contract # NoContract, pc \in Looping \cup Deciding
    PROVE  Len(plan) = Len(contract.components)
<1>1. plan = [j \in DOMAIN contract.components |->
                Component(contract.components[j].name, contract.components[j].files)]
  BY DEF Planning, ComponentsOf
<1>2. Len(contract.components) \in Nat
      /\ DOMAIN contract.components = 1 .. Len(contract.components)
  BY ListedIs DEF Shapes, IsContract
<1> QED BY <1>1, <1>2

\* A chunk whose predecessors repeat what was reported gets the response behind it.
LEMMA RepeatedKey ==
    ASSUME IInv, pc = "split", chunked, contract # NoContract, recovered = {},
           confronted = Ours, response.kind = "manifest",
           NEW Q \in Seq(Manifests), Shown(Q), Repeats(Q)
    PROVE  response.files = Q[Len(parts) + 1]
<1> DEFINE n == Len(parts)
<1>1. parts \in Seq(Manifests) /\ n \in Nat /\ n + 1 \in 1 .. Len(plan)
  BY ListedIs DEF IInv, Shapes, Planning, Looping
<1>2. Len(plan) = Len(Q)
  <2>1. Len(plan) = Len(contract.components)
    BY DrivenLength DEF IInv, Looping
  <2> QED BY <2>1 DEF Shown, Ours
<1>3. SubSeq(Q, 1, n) = SubSeq(parts, 1, n)
  <2>1. \A k \in 1 .. n : parts[k] = Q[k]
    BY <1>1 DEF Repeats, Looping
  <2> QED BY <1>1, <1>2, <2>1
<1>4. KeyAfter(confronted, Q, n + 1) = KeyAt(n + 1)
  <2>1. SubSeq(Q, 1, (n + 1) - 1) = SubSeq(parts, 1, (n + 1) - 1)
    BY <1>1, <1>3
  <2> QED BY <1>1, <2>1, DrivenKey DEF IInv, Looping
<1>5. cache[KeyAt(n + 1)] = response
  BY DEF IInv, Cached, KeyOf, Current
<1>6. n + 1 \in DOMAIN Q
  BY <1>1, <1>2
<1> QED BY <1>4, <1>5, <1>6 DEF Shown

-----------------------------------------------------------------------------
(***************************************************************************)
(* Every way to fail leaves everything but the program counter.            *)
(***************************************************************************)
LEMMA FailsKeeps ==
    ASSUME IInv, pc \in Working \ {"tested"}, pc' = "failed",
           failure' = "missing" => (response.cut => hit),
           UNCHANGED <<fileVars, runVars, planVars, llmVars, endVars, treeVars, parts>>
    PROVE  IInv'
<1>1. Shapes'
  BY DEF IInv, fileVars, runVars, planVars, llmVars, endVars, Shapes, Resting
<1>2. Counted' /\ Diagnosed'
  BY DEF IInv, planVars, llmVars, Counted, Diagnosed
<1>3. Planning' /\ Arbitrated'
  BY DEF IInv, planVars, Planning, Arbitrated, Looping, Deciding, Saving, Extracting
<1>4. Cached'
  BY DEF Cached, Working
<1>5. Agreed'
  BY AgreedStays DEF IInv, fileVars, runVars, Looping, Deciding
<1>6. Extracted'
  <2>1. touched = {}
    BY DEF IInv, Extracted, Working
  <2> QED BY <2>1 DEF IInv, fileVars, endVars, treeVars, Extracted, Extracting
<1>7. Reported'
  BY DEF IInv, Reported, fileVars, endVars, Working
<1> QED BY <1>1, <1>2, <1>3, <1>4, <1>5, <1>6, <1>7 DEF IInv

LEMMA FailuresKeep ==
    ASSUME IInv,
           GenerateFails \/ SplitFails \/ GiveUp \/ RecoverFails \/ SchemaFails
           \/ CircuitBreaker \/ WriteFails
    PROVE  IInv'
<1>1. pc \in Working \ {"tested"} /\ pc' = "failed"
      /\ UNCHANGED <<fileVars, runVars, planVars, llmVars, endVars, treeVars, parts>>
  BY DEF GenerateFails, SplitFails, GiveUp, RecoverFails, SchemaFails, CircuitBreaker,
         WriteFails, Fail, Goto, Working
<1>2. failure' = "missing" => GiveUp
  BY DEF GenerateFails, SplitFails, RecoverFails, SchemaFails, CircuitBreaker, WriteFails,
         Fail
<1>3. GiveUp => (response.cut => hit)
  BY DEF GiveUp, Fail, Goto, IInv, Diagnosed, Recovers, Shapes, Answers
<1> QED BY <1>1, <1>2, <1>3, FailsKeeps

-----------------------------------------------------------------------------
(***************************************************************************)
(* One lemma per action that goes on.                                      *)
(***************************************************************************)
LEMMA PlanFailsKeeps ==
    ASSUME IInv, PlanFails
    PROVE  IInv'
<1>1. Shapes'
  <2>1. /\ usage' \in Nat /\ spent' \in Nat /\ calls' \in Nat /\ truncated' \in BOOLEAN
        /\ pc' \in Resting
    BY DEF IInv, Shapes, PlanFails, Fail, Goto, Generates, Resting, llmVars
  <2>2. UNCHANGED <<fileVars, runVars, planVars, response, hit, endVars, parts>>
    BY DEF PlanFails, Generates, llmVars
  <2> QED BY <2>1, <2>2 DEF IInv, Shapes, fileVars, runVars, planVars, endVars
<1>2. Counted'
  <2>1. UNCHANGED <<recovered, parts>>
        /\ \/ usage' = usage + 1 /\ spent' = spent + 1 /\ calls' = calls + 1
           \/ UNCHANGED <<usage, spent, calls>>
    BY DEF PlanFails, Generates
  <2>2. Cardinality(recovered) \in Nat /\ usage \in Nat /\ spent \in Nat /\ calls \in Nat
    BY RecoveredIs DEF IInv, Shapes
  <2> QED BY <2>1, <2>2 DEF IInv, Counted
<1>3. Planning'
  BY DEF IInv, PlanFails, Goto, fileVars, runVars, planVars, llmVars, endVars, treeVars,
       Planning, Looping, Deciding, Saving, Extracting, Fail
<1>4. Diagnosed'
  BY DEF IInv, PlanFails, Goto, fileVars, runVars, planVars, llmVars, endVars, treeVars,
       Diagnosed, Shapes, Recovers, Fail
<1>5. Cached'
  BY DEF PlanFails, Fail, Goto, Cached, Working
<1>6. Agreed'
  BY AgreedStays DEF IInv, PlanFails, Goto, fileVars, runVars, planVars, llmVars, endVars,
       treeVars, Looping, Deciding, Fail
<1>7. Arbitrated'
  BY DEF IInv, PlanFails, Goto, fileVars, runVars, planVars, llmVars, endVars, treeVars,
       Arbitrated, Planning, Saving, Extracting, Fail
<1>8. Extracted'
  BY DEF IInv, PlanFails, Goto, fileVars, runVars, planVars, llmVars, endVars, treeVars,
       Extracted, Extracting, Landed, Listing, Fail
<1>9. Reported'
  BY DEF IInv, PlanFails, Goto, fileVars, runVars, planVars, llmVars, endVars, treeVars,
       Reported, Fail
<1> QED BY <1>1, <1>2, <1>3, <1>4, <1>5, <1>6, <1>7, <1>8, <1>9 DEF IInv

LEMMA AskAgainKeeps ==
    ASSUME IInv, AskAgain
    PROVE  IInv'
<1>1. Shapes'
  BY DEF IInv, AskAgain, Goto, fileVars, runVars, planVars, llmVars, endVars, treeVars,
       Shapes, Resting, Working
<1>2. Counted'
  BY DEF IInv, AskAgain, Goto, fileVars, runVars, planVars, llmVars, endVars, treeVars,
       Counted
<1>3. Planning'
  BY DEF IInv, AskAgain, Goto, fileVars, runVars, planVars, llmVars, endVars, treeVars,
       Planning, Looping, Deciding, Saving, Extracting
<1>4. Diagnosed'
  BY DEF IInv, AskAgain, Goto, fileVars, runVars, planVars, llmVars, endVars, treeVars,
       Diagnosed, Shapes, Recovers
<1>5. Cached'
  BY CachedStays DEF IInv, AskAgain, Goto, fileVars, runVars, planVars, llmVars, endVars,
       treeVars, keyVars, Working
<1>6. Agreed'
  BY AgreedStays DEF IInv, AskAgain, Goto, fileVars, runVars, planVars, llmVars, endVars,
       treeVars, Looping, Deciding
<1>7. Arbitrated'
  BY DEF IInv, AskAgain, Goto, fileVars, runVars, planVars, llmVars, endVars, treeVars,
       Arbitrated, Planning, Saving, Extracting
<1>8. Extracted'
  BY DEF IInv, AskAgain, Goto, fileVars, runVars, planVars, llmVars, endVars, treeVars,
       Extracted, Extracting, Landed, Listing
<1>9. Reported'
  BY DEF IInv, AskAgain, Goto, fileVars, runVars, planVars, llmVars, endVars, treeVars,
       Reported
<1> QED BY <1>1, <1>2, <1>3, <1>4, <1>5, <1>6, <1>7, <1>8, <1>9 DEF IInv

LEMMA SaveMarkdownKeeps ==
    ASSUME IInv, SaveMarkdown
    PROVE  IInv'
<1>1. Shapes'
  BY DEF IInv, SaveMarkdown, Goto, fileVars, runVars, planVars, llmVars, endVars, treeVars,
       Shapes, Resting, Working
<1>2. Counted'
  BY DEF IInv, SaveMarkdown, Goto, fileVars, runVars, planVars, llmVars, endVars, treeVars,
       Counted
<1>3. Planning'
  BY DEF IInv, SaveMarkdown, Goto, fileVars, runVars, planVars, llmVars, endVars, treeVars,
       Planning, Looping, Deciding, Saving, Extracting
<1>4. Diagnosed'
  BY DEF IInv, SaveMarkdown, Goto, fileVars, runVars, planVars, llmVars, endVars, treeVars,
       Diagnosed, Shapes, Recovers
<1>5. Cached'
  BY CachedStays DEF IInv, SaveMarkdown, Goto, fileVars, runVars, planVars, llmVars,
       endVars, treeVars, keyVars, Working
<1>6. Agreed'
  BY AgreedStays DEF IInv, SaveMarkdown, Goto, fileVars, runVars, planVars, llmVars,
       endVars, treeVars, Looping, Deciding
<1>7. Arbitrated'
  BY DEF IInv, SaveMarkdown, Goto, fileVars, runVars, planVars, llmVars, endVars, treeVars,
       Arbitrated, Planning, Saving, Extracting
<1>8. Extracted'
  BY DEF IInv, SaveMarkdown, Goto, fileVars, runVars, planVars, llmVars, endVars, treeVars,
       Extracted, Extracting, Landed, Listing
<1>9. Reported'
  BY DEF IInv, SaveMarkdown, Goto, fileVars, runVars, planVars, llmVars, endVars, treeVars,
       Reported
<1> QED BY <1>1, <1>2, <1>3, <1>4, <1>5, <1>6, <1>7, <1>8, <1>9 DEF IInv

LEMMA SaveManifestKeeps ==
    ASSUME IInv, SaveManifest
    PROVE  IInv'
<1>1. Shapes'
  BY DEF IInv, SaveManifest, Goto, fileVars, runVars, planVars, llmVars, endVars, treeVars,
       Shapes, Resting, Working
<1>2. Counted'
  BY DEF IInv, SaveManifest, Goto, fileVars, runVars, planVars, llmVars, endVars, treeVars,
       Counted
<1>3. Planning'
  BY DEF IInv, SaveManifest, Goto, fileVars, runVars, planVars, llmVars, endVars, treeVars,
       Planning, Looping, Deciding, Saving, Extracting
<1>4. Diagnosed'
  BY DEF IInv, SaveManifest, Goto, fileVars, runVars, planVars, llmVars, endVars, treeVars,
       Diagnosed, Shapes, Recovers
<1>5. Cached'
  BY CachedStays DEF IInv, SaveManifest, Goto, fileVars, runVars, planVars, llmVars,
       endVars, treeVars, keyVars, Working
<1>6. Agreed'
  BY AgreedStays DEF IInv, SaveManifest, Goto, fileVars, runVars, planVars, llmVars,
       endVars, treeVars, Looping, Deciding
<1>7. Arbitrated'
  BY DEF IInv, SaveManifest, Goto, fileVars, runVars, planVars, llmVars, endVars, treeVars,
       Arbitrated, Planning, Saving, Extracting
<1>8. Extracted'
  BY DEF IInv, SaveManifest, Goto, fileVars, runVars, planVars, llmVars, endVars, treeVars,
       Extracted, Extracting, Landed, Listing
<1>9. Reported'
  BY DEF IInv, SaveManifest, Goto, fileVars, runVars, planVars, llmVars, endVars, treeVars,
       Reported
<1> QED BY <1>1, <1>2, <1>3, <1>4, <1>5, <1>6, <1>7, <1>8, <1>9 DEF IInv

LEMMA NoConflictsKeeps ==
    ASSUME IInv, NoConflicts
    PROVE  IInv'
<1>1. Shapes'
  BY DEF IInv, NoConflicts, Goto, fileVars, runVars, planVars, llmVars, endVars, treeVars,
       Shapes, Resting, Working
<1>2. Counted'
  BY DEF IInv, NoConflicts, Goto, fileVars, runVars, planVars, llmVars, endVars, treeVars,
       Counted
<1>3. Planning'
  BY DEF IInv, NoConflicts, Goto, fileVars, runVars, planVars, llmVars, endVars, treeVars,
       Planning, Looping, Deciding, Saving, Extracting
<1>4. Diagnosed'
  BY DEF IInv, NoConflicts, Goto, fileVars, runVars, planVars, llmVars, endVars, treeVars,
       Diagnosed, Shapes, Recovers
<1>5. Cached'
  BY CachedStays DEF IInv, NoConflicts, Goto, fileVars, runVars, planVars, llmVars, endVars,
       treeVars, keyVars, Working
<1>6. Agreed'
  BY AgreedStays DEF IInv, NoConflicts, Goto, fileVars, runVars, planVars, llmVars, endVars,
       treeVars, Looping, Deciding
<1>7. Arbitrated'
  BY DEF IInv, NoConflicts, Goto, fileVars, runVars, planVars, llmVars, endVars, treeVars,
       Arbitrated, Planning, Saving, Extracting
<1>8. Extracted'
  BY DEF IInv, NoConflicts, Goto, fileVars, runVars, planVars, llmVars, endVars, treeVars,
       Extracted, Extracting, Landed, Listing
<1>9. Reported'
  BY DEF IInv, NoConflicts, Goto, fileVars, runVars, planVars, llmVars, endVars, treeVars,
       Reported
<1> QED BY <1>1, <1>2, <1>3, <1>4, <1>5, <1>6, <1>7, <1>8, <1>9 DEF IInv

LEMMA DesignKeeps ==
    ASSUME IInv, Design
    PROVE  IInv'
<1>1. Shapes'
  <2>1. PICK d \in Designs :
          design' = d /\ contract' = IF Valid(d.contract) THEN d.contract ELSE contract
    BY DEF Design
  <2>2. IsContract(d.contract)
    BY GenerationAssumption
  <2>3. contract' # NoContract => Valid(contract)' /\ IsContract(contract)'
                                  /\ \E e \in Designs : contract' = e.contract
    BY <2>1, <2>2 DEF IInv, Shapes, Valid, IsContract
  <2> QED BY <2>1, <2>3 DEF IInv, Design, Goto, fileVars, runVars, planVars, llmVars,
       endVars, treeVars, Shapes, Working
<1>2. Counted'
  BY DEF IInv, Design, Goto, fileVars, runVars, planVars, llmVars, endVars, treeVars,
       Counted
<1>3. Planning'
  BY DEF IInv, Design, Goto, fileVars, runVars, planVars, llmVars, endVars, treeVars,
       Planning, Looping, Deciding, Saving, Extracting
<1>4. Diagnosed'
  BY DEF IInv, Design, Goto, fileVars, runVars, planVars, llmVars, endVars, treeVars,
       Diagnosed, Shapes, Recovers
<1>5. Cached'
  BY DEF IInv, Design, Goto, fileVars, planVars, llmVars, Cached, Planning, Working
<1>6. Agreed'
  BY AgreedStays DEF IInv, Design, Goto, fileVars, runVars, planVars, llmVars, endVars,
       treeVars, Looping, Deciding
<1>7. Arbitrated'
  BY DEF IInv, Design, Goto, fileVars, runVars, planVars, llmVars, endVars, treeVars,
       Arbitrated, Planning, Saving, Extracting
<1>8. Extracted'
  BY DEF IInv, Design, Goto, fileVars, runVars, planVars, llmVars, endVars, treeVars,
       Extracted, Extracting, Landed, Listing
<1>9. Reported'
  BY DEF IInv, Design, Goto, fileVars, runVars, planVars, llmVars, endVars, treeVars,
       Reported
<1> QED BY <1>1, <1>2, <1>3, <1>4, <1>5, <1>6, <1>7, <1>8, <1>9 DEF IInv

LEMMA CacheHitKeeps ==
    ASSUME IInv, CacheHit
    PROVE  IInv'
<1>1. Shapes'
  BY DEF IInv, CacheHit, Goto, fileVars, runVars, planVars, llmVars, endVars, treeVars,
       Shapes, Resting, Working
<1>2. Counted'
  BY DEF IInv, CacheHit, Goto, fileVars, runVars, planVars, llmVars, endVars, treeVars,
       Counted
<1>3. Planning'
  BY DEF IInv, CacheHit, Goto, fileVars, runVars, planVars, llmVars, endVars, treeVars,
       Planning, Looping, Deciding, Saving, Extracting
<1>4. Diagnosed'
  BY DEF IInv, CacheHit, Goto, fileVars, runVars, planVars, llmVars, endVars, treeVars,
       Diagnosed, Shapes, Recovers
<1>5. Cached'
  <2>1. \A k \in 1 .. Len(parts) + 1 : KeyAt(k)' = KeyAt(k)
    BY KeysStay DEF IInv, CacheHit, Goto, fileVars, runVars, planVars, llmVars, endVars, treeVars,
       keyVars, Shapes
  <2>2. Current' = Current /\ Current \in 1 .. Len(parts) + 1 /\ DOMAIN parts = 1 ..
       Len(parts)
    BY DEF IInv, CacheHit, Goto, fileVars, runVars, planVars, llmVars, endVars, treeVars, Current,
       Shapes
  <2>3. KeyOf' = KeyOf
    BY <2>1, <2>2 DEF KeyOf
  <2>4. \A k \in DOMAIN parts : KeyAt(k)' = KeyAt(k)
    BY <2>1, <2>2 DEF Shapes
  <2> QED BY <2>3, <2>4 DEF IInv, CacheHit, Goto, fileVars, runVars, planVars, llmVars,
       endVars, treeVars, Cached, Working
<1>6. Agreed'
  BY AgreedStays DEF IInv, CacheHit, Goto, fileVars, runVars, planVars, llmVars, endVars,
       treeVars, Looping, Deciding
<1>7. Arbitrated'
  BY DEF IInv, CacheHit, Goto, fileVars, runVars, planVars, llmVars, endVars, treeVars,
       Arbitrated, Planning, Saving, Extracting
<1>8. Extracted'
  BY DEF IInv, CacheHit, Goto, fileVars, runVars, planVars, llmVars, endVars, treeVars,
       Extracted, Extracting, Landed, Listing
<1>9. Reported'
  BY DEF IInv, CacheHit, Goto, fileVars, runVars, planVars, llmVars, endVars, treeVars,
       Reported
<1> QED BY <1>1, <1>2, <1>3, <1>4, <1>5, <1>6, <1>7, <1>8, <1>9 DEF IInv

LEMMA MergePartsKeeps ==
    ASSUME IInv, MergeParts
    PROVE  IInv'
<1>1. Shapes'
  <2>1. Merge(parts, "last") \in Manifests
    BY MergedIs DEF IInv, Shapes
  <2>2. parts[1] \in Manifests
    BY DEF IInv, MergeParts, Goto, fileVars, runVars, planVars, llmVars, endVars, treeVars, Shapes,
       Planning, Deciding
  <2>3. merged' \in Manifests
    BY <2>1, <2>2 DEF MergeParts
  <2> QED BY <2>3 DEF IInv, MergeParts, Goto, fileVars, runVars, planVars, llmVars,
      endVars, treeVars,
       Shapes, Working
<1>2. Counted'
  BY DEF IInv, MergeParts, Goto, fileVars, runVars, planVars, llmVars, endVars, treeVars,
       Counted
<1>3. Planning'
  BY DEF IInv, MergeParts, Goto, fileVars, runVars, planVars, llmVars, endVars, treeVars,
       Planning, Looping, Deciding, Saving, Extracting
<1>4. Diagnosed'
  BY DEF IInv, MergeParts, Goto, fileVars, runVars, planVars, llmVars, endVars, treeVars,
       Diagnosed, Shapes, Recovers
<1>5. Cached'
  BY CachedStays DEF IInv, MergeParts, Goto, fileVars, runVars, planVars, llmVars, endVars,
       treeVars, keyVars, Working
<1>6. Agreed'
  BY AgreedStays DEF IInv, MergeParts, Goto, fileVars, runVars, planVars, llmVars, endVars,
       treeVars, Looping, Deciding
<1>7. Arbitrated'
  BY DEF IInv, MergeParts, Goto, fileVars, runVars, planVars, llmVars, endVars, treeVars,
       Arbitrated, Planning, Saving, Extracting
<1>8. Extracted'
  BY DEF IInv, MergeParts, Goto, fileVars, runVars, planVars, llmVars, endVars, treeVars,
       Extracted, Extracting, Landed, Listing
<1>9. Reported'
  BY DEF IInv, MergeParts, Goto, fileVars, runVars, planVars, llmVars, endVars, treeVars,
       Reported
<1> QED BY <1>1, <1>2, <1>3, <1>4, <1>5, <1>6, <1>7, <1>8, <1>9 DEF IInv

LEMMA StartExtractKeeps ==
    ASSUME IInv, StartExtract
    PROVE  IInv'
<1>1. Shapes'
  BY DEF IInv, StartExtract, Goto, fileVars, runVars, planVars, llmVars, endVars, treeVars,
       Shapes, Resting, Working
<1>2. Counted'
  BY DEF IInv, StartExtract, Goto, fileVars, runVars, planVars, llmVars, endVars, treeVars,
       Counted
<1>3. Planning'
  BY DEF IInv, StartExtract, Goto, fileVars, runVars, planVars, llmVars, endVars, treeVars,
       Planning, Looping, Deciding, Saving, Extracting
<1>4. Diagnosed'
  BY DEF IInv, StartExtract, Goto, fileVars, runVars, planVars, llmVars, endVars, treeVars,
       Diagnosed, Shapes, Recovers
<1>5. Cached'
  BY CachedStays DEF IInv, StartExtract, Goto, fileVars, runVars, planVars, llmVars,
       endVars, treeVars, keyVars, Working
<1>6. Agreed'
  BY AgreedStays DEF IInv, StartExtract, Goto, fileVars, runVars, planVars, llmVars,
       endVars, treeVars, Looping, Deciding
<1>7. Arbitrated'
  BY DEF IInv, StartExtract, Goto, fileVars, runVars, planVars, llmVars, endVars, treeVars,
       Arbitrated, Planning, Saving, Extracting
<1>8. Extracted'
  <2>1. 1 .. written' = {}
    BY DEF StartExtract
  <2>2. /\ pc' = "write" /\ written' = 0 /\ before' = tree /\ touched' = {}
        /\ UNCHANGED <<tree, manifest>>
    BY DEF StartExtract, Goto, fileVars, IInv, Extracted
  <2>3. Len(manifest.files) \in Nat
    BY DEF IInv, Shapes, Manifests
  <2>4. Listing' = {}
    BY <2>1 DEF Listing
  <2> QED BY <2>1, <2>2, <2>3, <2>4 DEF IInv, Extracted, Extracting
<1>9. Reported'
  BY DEF IInv, StartExtract, Goto, fileVars, runVars, planVars, llmVars, endVars, treeVars,
       Reported
<1> QED BY <1>1, <1>2, <1>3, <1>4, <1>5, <1>6, <1>7, <1>8, <1>9 DEF IInv

LEMMA CheckComplianceKeeps ==
    ASSUME IInv, CheckCompliance
    PROVE  IInv'
<1>1. Shapes'
  BY DEF IInv, CheckCompliance, Goto, fileVars, runVars, planVars, llmVars, endVars,
       treeVars, Shapes, Resting, Working
<1>2. Counted'
  BY DEF IInv, CheckCompliance, Goto, fileVars, runVars, planVars, llmVars, endVars,
       treeVars, Counted
<1>3. Planning'
  BY DEF IInv, CheckCompliance, Goto, fileVars, runVars, planVars, llmVars, endVars,
       treeVars, Planning, Looping, Deciding, Saving, Extracting
<1>4. Diagnosed'
  BY DEF IInv, CheckCompliance, Goto, fileVars, runVars, planVars, llmVars, endVars,
       treeVars, Diagnosed, Shapes, Recovers
<1>5. Cached'
  BY CachedStays DEF IInv, CheckCompliance, Goto, fileVars, runVars, planVars, llmVars,
       endVars, treeVars, keyVars, Working
<1>6. Agreed'
  BY AgreedStays DEF IInv, CheckCompliance, Goto, fileVars, runVars, planVars, llmVars,
       endVars, treeVars, Looping, Deciding
<1>7. Arbitrated'
  BY DEF IInv, CheckCompliance, Goto, fileVars, runVars, planVars, llmVars, endVars,
       treeVars, Arbitrated, Planning, Saving, Extracting
<1>8. Extracted'
  BY DEF IInv, CheckCompliance, Goto, fileVars, runVars, planVars, llmVars, endVars,
       treeVars, Extracted, Extracting, Landed, Listing
<1>9. Reported'
  BY DEF IInv, CheckCompliance, Goto, fileVars, runVars, planVars, llmVars, endVars,
       treeVars, Reported
<1> QED BY <1>1, <1>2, <1>3, <1>4, <1>5, <1>6, <1>7, <1>8, <1>9 DEF IInv

LEMMA PlanComponentsKeeps ==
    ASSUME IInv, PlanComponents
    PROVE  IInv'
<1>1. Listed(plan)' /\ Len(plan') \in Nat \ {0}
  <2>1. PICK names \in Plans : plan' = [k \in DOMAIN names |-> Component(names[k], <<>>)]
    BY DEF PlanComponents
  <2>2. Len(names) \in Nat /\ DOMAIN names = 1 .. Len(names) /\ Len(names) # 0
    BY GenerationAssumption, ListedIs DEF Listed
  <2>3. plan' = [k \in 1 .. Len(names) |-> plan'[k]]
    BY <2>1, <2>2
  <2>4. plan' \in Seq(ToSet(plan')) /\ Len(plan') = Len(names)
    BY <2>2, <2>3, ListIs
  <2> QED BY <2>2, <2>4 DEF Listed, ToSet
<1>2. Shapes'
  <2>1. /\ usage' = usage + 1 /\ spent' = spent + 1 /\ calls' = calls + 1
        /\ truncated' = FALSE /\ pc' = "chunk"
        /\ UNCHANGED <<fileVars, runVars, chunked, driven, response, hit, endVars, parts>>
    BY DEF PlanComponents, Generates, Goto
  <2>2. usage' \in Nat /\ spent' \in Nat /\ calls' \in Nat
    BY <2>1 DEF IInv, Shapes
  <2> QED BY <1>1, <2>1, <2>2 DEF IInv, Shapes, Working, fileVars, runVars, endVars
<1>3. Counted'
  <2>1. UNCHANGED <<recovered, parts>> /\ usage' = usage + 1 /\ spent' = spent + 1
        /\ calls' = calls + 1
    BY DEF PlanComponents, Generates, llmVars
  <2>2. Cardinality(recovered) \in Nat /\ usage \in Nat /\ spent \in Nat /\ calls \in Nat
    BY RecoveredIs DEF IInv, Shapes
  <2> QED BY <2>1, <2>2 DEF IInv, Counted
<1>4. pc = "plan" /\ pc' = "chunk" /\ parts = <<>>
      /\ UNCHANGED <<fileVars, runVars, chunked, driven, endVars, treeVars, parts, failure>>
  BY DEF IInv, Planning, PlanComponents, Goto
<1>5. Planning'
  BY <1>1, <1>4 DEF IInv, Planning, Shapes, Looping, Deciding, Saving, Extracting, fileVars
<1>6. Diagnosed' /\ Cached'
  BY <1>4 DEF IInv, Diagnosed, Cached
<1>7. Agreed'
  BY <1>4, AgreedStays DEF IInv, fileVars, runVars
<1>8. Arbitrated' /\ Extracted' /\ Reported'
  BY <1>4 DEF IInv, Arbitrated, Extracted, Reported, Saving, Extracting, Landed, Listing,
       fileVars, endVars, treeVars
<1> QED BY <1>2, <1>3, <1>5, <1>6, <1>7, <1>8 DEF IInv

\* The report of an execution that fails on conflicts comes from parts that are all cached.
LEMMA ConflictsFailKeeps ==
    ASSUME IInv, ConflictsFail
    PROVE  IInv'
<1>1. /\ pc = "gate" /\ pc' = "failed" /\ failure' = "conflict" /\ touched = {}
      /\ conflicts' = Conflicts(parts) /\ confronted' = Ours
      /\ UNCHANGED <<contract, cache, markdown, manifest, tree, run, design, planVars,
                     llmVars, endVars, treeVars, parts>>
  BY DEF IInv, Extracted, ConflictsFail, Fail, Goto, Ours
<1>2. Shapes' /\ Counted' /\ Diagnosed' /\ Cached'
  BY <1>1 DEF IInv, planVars, llmVars, endVars, Shapes, Counted, Diagnosed, Cached, Resting,
       Working
<1>3. Planning' /\ Arbitrated' /\ Reported'
  BY <1>1 DEF IInv, planVars, endVars, Planning, Arbitrated, Reported, Looping, Deciding,
       Saving, Extracting
<1>4. Extracted'
  BY <1>1 DEF IInv, endVars, treeVars, Extracted, Extracting
<1>5. Agreed'
  <2>1. SUFFICES ASSUME contract # NoContract
                 PROVE  \E Q \in Seq(Manifests) : Shown(Q)' /\ Repeats(Q)'
    BY <1>1 DEF Agreed, Ours
  <2>2. chunked /\ pc \in Looping \cup Deciding
    BY <1>1 DEF IInv, Planning, Deciding
  <2>3. /\ parts \in Seq(Manifests) /\ DOMAIN parts = 1 .. Len(parts)
        /\ Len(parts) = Len(plan) /\ Len(plan) = Len(contract.components)
    <3>1. Len(plan) = Len(contract.components)
      BY <2>1, <2>2, DrivenLength DEF IInv
    <3> QED BY <1>1, <3>1 DEF IInv, Shapes, Planning, Deciding
  <2>4. \A k \in DOMAIN parts : KeyAfter(Ours, parts, k) = KeyAt(k)
    BY <2>1, <2>2, <2>3, DrivenKey DEF IInv
  <2>5. \A k \in DOMAIN parts :
          /\ KeyAt(k) \in DOMAIN cache
          /\ cache[KeyAt(k)].kind = "manifest" => cache[KeyAt(k)].files = parts[k]
    BY <1>1 DEF IInv, Cached, Working
  <2>6. \A k : KeyAfter(confronted, parts, k)' = KeyAfter(Ours, parts, k)
    BY <1>1 DEF KeyAfter, ComponentsOf, Component, TypeContracts
  <2>7. Len(parts') = Len(confronted'.contract.components)
    BY <1>1, <2>3 DEF Ours
  <2>8. Shown(parts)'
    BY <1>1, <2>4, <2>5, <2>6, <2>7 DEF Shown
  <2>9. Repeats(parts)'
    BY <1>1 DEF Repeats, Looping, Deciding
  <2>10. parts' \in Seq(Manifests)
    BY <1>1, <2>3
  <2> QED BY <2>8, <2>9, <2>10
<1> QED BY <1>2, <1>3, <1>4, <1>5 DEF IInv

\* Sanitizing the requirements changes no path.
LEMMA ExtractEndsKeeps ==
    ASSUME IInv, ExtractEnds
    PROVE  IInv'
<1>1. /\ pc = "write" /\ pc' = "extracted" /\ written = Len(manifest.files)
      /\ UNCHANGED <<contract, cache, markdown, manifest, conflicts, runVars, planVars,
                     llmVars, endVars, treeVars, parts, failure>>
  BY DEF ExtractEnds, Goto
<1>2. DOMAIN tree' = DOMAIN tree
      /\ \A f \in DOMAIN tree :
           tree'[f] = IF f = Requirements THEN Sanitized(tree[f]) ELSE tree[f]
  BY DEF ExtractEnds
<1>3. \A e \in Entries : Sanitized(e) \in Entries /\ Sanitized(e).path = e.path
  BY DEF Sanitized, Entries
<1>4. tree \in [DOMAIN tree -> Entries]
  BY DEF IInv, Shapes
<1>5. Shapes'
  <2>1. tree' \in [DOMAIN tree' -> Entries]
    <3>1. \A f \in DOMAIN tree : tree'[f] \in Entries
      BY <1>2, <1>3, <1>4
    <3>2. tree' = [f \in DOMAIN tree |-> tree'[f]]
      BY <1>4 DEF ExtractEnds
    <3> QED BY <1>2, <3>1, <3>2
  <2> QED BY <1>1, <2>1 DEF IInv, Shapes, Working, runVars, planVars, llmVars, endVars
<1>6. Counted' /\ Diagnosed'
  BY <1>1 DEF IInv, llmVars, Counted, Diagnosed
<1>7. Planning' /\ Arbitrated'
  BY <1>1 DEF IInv, planVars, endVars, Planning, Arbitrated, Looping, Deciding, Saving,
       Extracting
<1>8. Cached'
  BY <1>1, CachedStays DEF IInv, keyVars, runVars, planVars, llmVars, Working
<1>9. Agreed'
  BY <1>1, AgreedStays DEF IInv, runVars, Looping, Deciding
<1>10. Extracted'
  <2>1. /\ Listing \subseteq DOMAIN tree /\ DOMAIN tree \subseteq DOMAIN before \cup Listing
        /\ DOMAIN before \subseteq DOMAIN tree /\ touched = {}
        /\ \A f \in DOMAIN tree : Resolve(tree[f].path) = f /\ tree[f].path \notin Unsafe
        /\ written <= Len(manifest.files)
    BY <1>1 DEF IInv, Extracted, Extracting
  <2>2. Listing' = Listing
    BY <1>1 DEF Listing, endVars
  <2>3. \A f \in DOMAIN tree' : Resolve(tree'[f].path) = f /\ tree'[f].path \notin Unsafe
    BY <1>2, <1>3, <1>4, <2>1
  <2>4. ASSUME NEW j \in 1 .. written
        PROVE  \E i \in 1 .. written :
                 /\ j <= i
                 /\ Resolve(manifest.files[i].path) = Resolve(manifest.files[j].path)
                 /\ tree'[Resolve(manifest.files[j].path)] = OnDisk(manifest.files[i])
    <3>1. PICK i \in 1 .. written :
            /\ j <= i /\ Resolve(manifest.files[i].path) = Resolve(manifest.files[j].path)
            /\ tree[Resolve(manifest.files[j].path)] = manifest.files[i]
      BY <1>1 DEF IInv, Extracted, Landed
    <3>2. Resolve(manifest.files[j].path) \in DOMAIN tree
      BY <2>1 DEF Listing
    <3>3. tree'[Resolve(manifest.files[j].path)] = OnDisk(manifest.files[i])
      BY <1>2, <3>1, <3>2 DEF OnDisk
    <3> QED BY <3>1, <3>3
  <2> QED BY <1>1, <1>2, <2>1, <2>2, <2>3, <2>4
          DEF Extracted, Extracting, Landed, OnDisk, Sanitized, endVars, treeVars
<1>11. Reported'
  BY <1>1 DEF IInv, Reported, endVars
<1> QED BY <1>5, <1>6, <1>7, <1>8, <1>9, <1>10, <1>11 DEF IInv

\* What is touched is exactly where the tree may differ afterwards.
LEMMA RunChecksKeeps ==
    ASSUME IInv, RunChecks
    PROVE  IInv'
<1>1. /\ pc = "extracted" /\ pc' = "tested"
      /\ UNCHANGED <<contract, cache, markdown, manifest, conflicts, runVars, planVars,
                     llmVars, endVars, before, parts, failure>>
  BY DEF RunChecks, Goto
<1>2. /\ Listing \subseteq DOMAIN tree /\ DOMAIN tree \subseteq DOMAIN before \cup Listing
      /\ DOMAIN before \subseteq DOMAIN tree /\ touched = {}
      /\ written = Len(manifest.files) /\ written <= Len(manifest.files)
  BY <1>1 DEF IInv, Extracted, Extracting
<1>3. tree \in [DOMAIN tree -> Entries]
      /\ \A f \in DOMAIN tree : Resolve(tree[f].path) = f /\ tree[f].path \notin Unsafe
  BY DEF IInv, Shapes, Extracted
<1>4. /\ tree' \in [DOMAIN tree' -> Entries]
      /\ \A f \in DOMAIN tree' : Resolve(tree'[f].path) = f /\ tree'[f].path \notin Unsafe
      /\ DOMAIN tree \subseteq DOMAIN tree' \cup touched'
      /\ DOMAIN tree' \subseteq DOMAIN tree \cup touched'
  <2>1. CASE UNCHANGED <<tree, touched>>
    BY <1>3, <2>1
  <2>2. ASSUME NEW e \in Effects,
               tree' = Written([f \in DOMAIN tree \ e.removed |-> tree[f]], Stamp(e.left, 0)),
               touched' = e.removed \cup FilesOf(e.left)
        PROVE  <1>4!:
    <3> DEFINE kept == [f \in DOMAIN tree \ e.removed |-> tree[f]]
               new  == Stamp(e.left, 0)
    <3>1. e.left \in Lists
      BY DEF Lists
    <3>2. new \in Seq(Entries)
      <4>1. 0 \in Nat
        OBVIOUS
      <4> QED BY <3>1, <4>1, StampIs DEF Manifests
    <3>3. DOMAIN new = DOMAIN e.left /\ \A k \in DOMAIN new : new[k].path = e.left[k].path
      BY DEF Stamp
    <3> HIDE DEF new
    <3>4. FilesOf(new) = FilesOf(e.left)
      BY <3>3 DEF FilesOf
    <3>5. ASSUME NEW f \in FilesOf(new)
          PROVE  /\ new[LastFor(new, f)] \in Entries
                 /\ Resolve(new[LastFor(new, f)].path) = f
                 /\ new[LastFor(new, f)].path \notin Unsafe
      <4>1. LastFor(new, f) \in DOMAIN new /\ Resolve(new[LastFor(new, f)].path) = f
        BY <3>2, LastForIs
      <4>2. new[LastFor(new, f)] \in Entries
        BY <3>2, <4>1
      <4>3. \A k \in DOMAIN e.left : e.left[k].path \notin Unsafe
        BY GenerationAssumption
      <4>4. new[LastFor(new, f)].path \notin Unsafe
        BY <3>3, <4>1, <4>3
      <4> QED BY <4>1, <4>2, <4>4
    <3>6. DOMAIN kept = DOMAIN tree \ e.removed /\ \A f \in DOMAIN kept : kept[f] = tree[f]
      OBVIOUS
    <3>7. tree' = Written(kept, new)
      BY <2>2 DEF new
    <3> HIDE DEF kept
    <3>8. tree' = [f \in DOMAIN kept \cup FilesOf(new) |->
                     IF f \in FilesOf(new) THEN new[LastFor(new, f)] ELSE kept[f]]
      BY <3>7 DEF Written
    <3>9. \A f \in DOMAIN kept \cup FilesOf(new) :
            /\ tree'[f] \in Entries
            /\ Resolve(tree'[f].path) = f /\ tree'[f].path \notin Unsafe
      BY <1>3, <3>5, <3>6, <3>8
    <3>10. DOMAIN tree' = (DOMAIN tree \ e.removed) \cup FilesOf(e.left)
      BY <3>4, <3>6, <3>8
    <3>11. tree' \in [DOMAIN tree' -> Entries]
      BY <3>8, <3>9
    <3> QED BY <2>2, <3>4, <3>6, <3>9, <3>10, <3>11
  <2> QED BY <2>1, <2>2 DEF RunChecks
<1>5. Shapes'
  BY <1>1, <1>4 DEF IInv, Shapes, Working, runVars, planVars, llmVars, endVars
<1>6. Counted' /\ Diagnosed'
  BY <1>1 DEF IInv, llmVars, Counted, Diagnosed
<1>7. Planning' /\ Arbitrated'
  BY <1>1 DEF IInv, planVars, endVars, Planning, Arbitrated, Looping, Deciding, Saving,
       Extracting
<1>8. Cached'
  BY <1>1, CachedStays DEF IInv, keyVars, runVars, planVars, llmVars, Working
<1>9. Agreed'
  BY <1>1, AgreedStays DEF IInv, runVars, Looping, Deciding
<1>10. Extracted'
  <2>1. Listing' = Listing
    BY <1>1 DEF Listing, endVars
  <2> QED BY <1>1, <1>2, <1>4, <2>1 DEF Extracted, Extracting, endVars
<1>11. Reported'
  BY <1>1 DEF IInv, Reported, endVars
<1> QED BY <1>5, <1>6, <1>7, <1>8, <1>9, <1>10, <1>11 DEF IInv

LEMMA SplitKeeps ==
    ASSUME IInv, Split
    PROVE  IInv'
<1>1. parts \in Seq(Manifests) /\ response.files \in Manifests /\ Len(parts) \in Nat
  BY DEF IInv, Shapes, Answers
<1>2. /\ parts' = Append(parts, response.files) /\ parts' \in Seq(Manifests)
      /\ Len(parts') = Len(parts) + 1 /\ parts'[Len(parts) + 1] = response.files
      /\ \A k \in 1 .. Len(parts) : parts'[k] = parts[k]
  BY <1>1 DEF Split, NextPart
<1>3. pc = "split" /\ response.kind = "manifest"
      /\ pc' = IF Len(parts') < Len(plan) THEN "chunk" ELSE "merge"
  BY DEF Split, NextPart
<1>4. UNCHANGED <<fileVars, runVars, planVars, llmVars, endVars, treeVars, failure>>
  BY DEF Split
<1>5. Shapes'
  BY <1>2, <1>3, <1>4 DEF IInv, Shapes, Working, fileVars, runVars, planVars, llmVars,
       endVars
<1>6. Counted'
  BY <1>1, <1>2, <1>4 DEF IInv, Counted, fileVars, runVars, planVars, llmVars, endVars
<1>7. Planning'
  BY <1>1, <1>2, <1>3, <1>4, ListedIs DEF IInv, Shapes, Planning, Looping, Deciding, Saving,
       Extracting, fileVars, runVars, planVars, llmVars, endVars
<1>8. Diagnosed'
  BY <1>3, <1>4 DEF IInv, Diagnosed, fileVars, runVars, planVars, llmVars, endVars
<1>9. Cached'
  <2>1. \A k \in 1 .. Len(parts) + 1 : KeyAt(k)' = KeyAt(k)
    BY <1>1, <1>2, <1>4, KeysStay DEF keyVars, fileVars, runVars
  <2>2. KeyAt(Len(parts) + 1) \in DOMAIN cache /\ cache[KeyAt(Len(parts) + 1)] = response
    BY <1>3 DEF IInv, Cached, KeyOf, Current
  <2>3. ASSUME NEW k \in DOMAIN parts'
        PROVE  /\ KeyAt(k) \in DOMAIN cache
               /\ k \in recovered => cache[KeyAt(k)].kind = "missing"
               /\ k \notin recovered =>
                    cache[KeyAt(k)].kind = "manifest" /\ cache[KeyAt(k)].files = parts'[k]
    <3>1. CASE k = Len(parts) + 1
      BY <1>1, <1>2, <1>3, <2>2, <3>1 DEF IInv, Counted
    <3>2. CASE k # Len(parts) + 1
      <4>1. k \in DOMAIN parts /\ parts'[k] = parts[k]
        BY <1>1, <1>2, <3>2
      <4> QED BY <1>3, <4>1 DEF IInv, Cached, Working
    <3> QED BY <3>1, <3>2
  <2>4. \A k \in DOMAIN parts' : KeyAt(k)' = KeyAt(k)
    BY <1>1, <1>2, <2>1
  <2> QED BY <1>3, <1>4, <2>3, <2>4 DEF Cached, fileVars, llmVars
<1>10. Agreed'
  <2>1. SUFFICES ASSUME confronted.contract # NoContract
                 PROVE  \E Q \in Seq(Manifests) : Shown(Q)' /\ Repeats(Q)'
    BY <1>4 DEF Agreed, runVars
  <2>2. PICK Q \in Seq(Manifests) : Shown(Q) /\ Repeats(Q)
    BY <2>1 DEF IInv, Agreed
  <2>3. Shown(Q)'
    BY <1>4, <2>2 DEF Shown, KeyAfter, ComponentsOf, Component, TypeContracts, fileVars,
         runVars
  <2>4. Repeats(Q)'
    <3>1. SUFFICES ASSUME chunked, recovered = {}, confronted = Ours
                   PROVE  \A k \in DOMAIN parts' : parts'[k] = Q[k]
      BY <1>4 DEF Repeats, Ours, fileVars, runVars, planVars, llmVars
    <3>2. contract # NoContract
      BY <2>1, <3>1 DEF Ours
    <3>3. \A k \in 1 .. Len(parts) : parts[k] = Q[k]
      BY <1>1, <1>3, <2>2, <3>1 DEF Repeats, Looping
    <3>4. response.files = Q[Len(parts) + 1]
      BY RepeatedKey, <1>3, <2>2, <3>1, <3>2
    <3> QED BY <1>1, <1>2, <3>3, <3>4
  <2> QED BY <2>3, <2>4
<1>11. Arbitrated'
  BY <1>3, <1>4 DEF IInv, Arbitrated, Saving, Extracting
<1>12. Extracted'
  BY <1>3, <1>4 DEF IInv, Extracted, Extracting, fileVars, endVars, treeVars
<1>13. Reported'
  BY <1>3, <1>4 DEF IInv, Reported, fileVars, endVars
<1> QED BY <1>5, <1>6, <1>7, <1>8, <1>9, <1>10, <1>11, <1>12, <1>13 DEF IInv

LEMMA BeginKeeps ==
    ASSUME IInv, Begin
    PROVE  IInv'
<1>1. parts' = <<>> /\ recovered' = {} /\ usage' = 0 /\ spent' = 0
      /\ merged' = <<>> /\ written' = 0
  BY DEF Begin
<1>2. /\ pc = "begin" /\ chunked' \in BOOLEAN /\ truncated' = FALSE
      /\ driven' = (contract # NoContract)
      /\ pc' = IF chunked' /\ ~driven' THEN "plan" ELSE "chunk"
  BY DEF Begin
<1>3. UNCHANGED <<fileVars, runVars, response, hit, calls, report, treeVars, failure>>
  BY DEF Begin
<1>4. /\ pc' = "chunk" => Len(plan') > 0
      /\ chunked' /\ driven' => plan' = ComponentsOf(contract)
      /\ Listed(plan)' /\ Len(plan') \in Nat
  <2>1. CASE ~chunked'
    <3>1. plan' = <<Component("single", <<>>)>>
      BY <2>1 DEF Begin
    <3>2. plan'[1] \in ToSet(plan')
      BY <3>1 DEF ToSet
    <3>3. plan' \in Seq(ToSet(plan')) /\ Len(plan') = 1
      BY <3>1, <3>2
    <3> QED BY <2>1, <3>3 DEF Listed, ToSet
  <2>2. CASE chunked' /\ driven'
    <3> DEFINE n == Len(contract.components)
    <3>1. n \in Nat /\ n > 0 /\ DOMAIN contract.components = 1 .. n
      <4>1. Valid(contract) /\ IsContract(contract)
        BY <1>2, <2>2 DEF IInv, Shapes
      <4>2. contract.components # <<>>
        BY <4>1 DEF Valid
      <4> QED BY <4>1, <4>2, ListedIs DEF IsContract, Listed
    <3>2. plan' = [k \in DOMAIN contract.components |->
             Component(contract.components[k].name, contract.components[k].files)]
      BY <2>2 DEF Begin
    <3>3. plan' = [k \in 1 .. n |-> plan'[k]]
      BY <3>1, <3>2
    <3> HIDE DEF n
    <3>4. plan' \in Seq(ToSet(plan')) /\ Len(plan') = n
      BY <3>1, <3>3, ListIs
    <3> QED BY <3>1, <3>2, <3>4 DEF Listed, ToSet, ComponentsOf
  <2>3. CASE chunked' /\ ~driven'
    <3>1. plan' = <<>> /\ pc' = "plan"
      BY <2>3 DEF Begin
    <3>2. <<>> \in Seq(ToSet(<<>>))
      OBVIOUS
    <3> QED BY <2>3, <3>1, <3>2 DEF Listed, ToSet
  <2> QED BY <1>2, <2>1, <2>2, <2>3
<1>5. Shapes'
  <2>1. parts' \in Seq(Manifests) /\ merged' \in Manifests
    BY <1>1 DEF Manifests
  <2> QED BY <1>1, <1>2, <1>3, <1>4, <2>1 DEF IInv, Shapes, Working, fileVars, runVars
<1>6. Counted'
  <2>1. Cardinality({}) = 0
    BY FS_EmptySet
  <2> QED BY <1>1, <1>3, <2>1 DEF IInv, Shapes, Counted
<1>7. Planning'
  BY <1>1, <1>2, <1>3, <1>4 DEF IInv, Planning, Looping, Deciding, Saving, Extracting,
       ComponentsOf, fileVars, runVars
<1>8. Diagnosed'
  BY <1>1, <1>2, <1>3, <1>4 DEF IInv, Diagnosed
<1>9. Cached'
  BY <1>1, <1>2, <1>3, <1>4 DEF IInv, Cached
<1>10. Agreed'
  BY <1>1, <1>3, AgreedStays DEF IInv, fileVars, runVars
<1>11. Arbitrated'
  BY <1>1, <1>2, <1>3, <1>4 DEF IInv, Arbitrated, Saving, Extracting
<1>12. Extracted'
  <2>1. Len(manifest.files) \in Nat
    BY DEF IInv, Shapes, Manifests
  <2> QED BY <1>1, <1>2, <1>3, <2>1 DEF IInv, Extracted, Extracting, fileVars, treeVars
<1>13. Reported'
  BY <1>1, <1>2, <1>3, <1>4 DEF IInv, Reported, fileVars
<1> QED BY <1>5, <1>6, <1>7, <1>8, <1>9, <1>10, <1>11, <1>12, <1>13 DEF IInv

LEMMA GenerateKeeps ==
    ASSUME IInv, Generate
    PROVE  IInv'
<1>1. pc = "chunk" /\ pc' = "split" /\ KeyOf \notin DOMAIN cache
  BY DEF Generate, Goto
<1>2. /\ cache' = [k \in DOMAIN cache \cup {KeyOf} |->
                     IF k = KeyOf THEN response' ELSE cache[k]]
      /\ hit' = FALSE
  BY DEF Generate
<1>3. /\ response' \in Answers /\ truncated' = response'.cut /\ truncated' \in BOOLEAN
      /\ calls' = calls + 1 /\ spent' = spent + 1 /\ usage' = usage + 1
  <2>1. PICK r \in Responses :
          /\ Generates(r.cut)
          /\ response' = [kind |-> r.kind, cut |-> r.cut, by |-> calls + 1,
                files |-> IF r.kind = "manifest" THEN Stamp(r.files, calls + 1) ELSE <<>>]
    BY DEF Generate
  <2>2. r.kind \in {"manifest", "missing", "malformed"} /\ r.cut \in BOOLEAN
    BY GenerationAssumption
  <2>3. Stamp(r.files, calls + 1) \in Manifests /\ <<>> \in Manifests /\ calls + 1 \in Nat
    <3>1. calls + 1 \in Nat
      BY DEF IInv, Shapes
    <3>2. <<>> \in Manifests
      BY DEF Manifests
    <3>3. r.files \in Lists
      BY DEF Lists
    <3> QED BY <3>1, <3>2, <3>3, StampIs
  <2>4. response' \in Answers
    <3>1. CASE r.kind = "manifest"
      BY <2>1, <2>2, <2>3, <3>1 DEF Answers
    <3>2. CASE r.kind # "manifest"
      BY <2>1, <2>2, <2>3, <3>2 DEF Answers
    <3> QED BY <3>1, <3>2
  <2> QED BY <2>1, <2>2, <2>4 DEF Generates
<1>4. UNCHANGED <<contract, markdown, manifest, conflicts, tree, runVars, planVars,
                  recovered, endVars, treeVars, parts, failure>>
  BY DEF Generate
<1>5. Shapes'
  <2>1. cache' \in [DOMAIN cache' -> Answers]
    BY <1>2, <1>3 DEF IInv, Shapes
  <2>2. usage' \in Nat /\ spent' \in Nat /\ calls' \in Nat
    BY <1>3 DEF IInv, Shapes
  <2>3. response' \in Answers /\ truncated' \in BOOLEAN
    BY <1>3
  <2> QED BY <1>1, <1>2, <1>4, <2>1, <2>2, <2>3 DEF IInv, Shapes, Working, runVars,
       planVars, endVars
<1>6. Counted'
  <2>1. Cardinality(recovered) \in Nat /\ usage \in Nat /\ spent \in Nat /\ calls \in Nat
    BY RecoveredIs DEF IInv, Shapes
  <2> QED BY <1>3, <1>4, <2>1 DEF IInv, Counted
<1>7. Planning'
  BY <1>1, <1>4 DEF IInv, Planning, Looping, Deciding, Saving, Extracting, runVars,
       planVars, endVars
<1>8. Diagnosed'
  BY <1>1, <1>2, <1>3, <1>4 DEF IInv, Diagnosed
<1>9. Cached'
  <2>1. \A k \in 1 .. Len(parts) + 1 : KeyAt(k)' = KeyAt(k)
    BY <1>4, KeysStay DEF IInv, Shapes, keyVars, runVars
  <2>2. Current' = Current /\ Current \in 1 .. Len(parts) + 1 /\ DOMAIN parts = 1 ..
       Len(parts)
    BY <1>4 DEF IInv, Current, Shapes
  <2>3. KeyOf' = KeyOf
    BY <2>1, <2>2 DEF KeyOf
  <2>4. \A k \in DOMAIN parts : KeyAt(k)' = KeyAt(k)
    BY <2>1, <2>2
  <2>5. \A k \in DOMAIN cache : k \in DOMAIN cache' /\ cache'[k] = cache[k]
    BY <1>1, <1>2
  <2>6. KeyOf \in DOMAIN cache' /\ cache'[KeyOf] = response'
    BY <1>2
  <2> QED BY <1>1, <1>4, <2>3, <2>4, <2>5, <2>6 DEF IInv, Cached, Working
<1>10. Agreed'
  <2>1. \A k \in DOMAIN cache : k \in DOMAIN cache' /\ cache'[k] = cache[k]
    BY <1>1, <1>2
  <2>2. ASSUME NEW Q, Shown(Q)  PROVE Shown(Q)'
    <3>1. \A k : KeyAfter(confronted, Q, k)' = KeyAfter(confronted, Q, k)
      BY <1>4 DEF KeyAfter, ComponentsOf, Component, TypeContracts, runVars
    <3> QED BY <1>4, <2>1, <2>2, <3>1 DEF Shown, runVars
  <2>3. \A Q : Repeats(Q) => Repeats(Q)'
    BY <1>1, <1>4 DEF Repeats, Ours, Looping, runVars, planVars
  <2> QED BY <1>4, <2>2, <2>3 DEF IInv, Agreed, runVars
<1>11. Arbitrated'
  BY <1>1, <1>2, <1>3, <1>4 DEF IInv, Arbitrated, Saving, Extracting
<1>12. Extracted'
  BY <1>1, <1>2, <1>3, <1>4 DEF IInv, Extracted, Extracting, endVars, treeVars
<1>13. Reported'
  BY <1>1, <1>2, <1>3, <1>4 DEF IInv, Reported, endVars
<1> QED BY <1>5, <1>6, <1>7, <1>8, <1>9, <1>10, <1>11, <1>12, <1>13 DEF IInv

LEMMA RecoverKeeps ==
    ASSUME IInv, Recover
    PROVE  IInv'
<1>1. pc = "recover" /\ pc' = IF Len(parts') < Len(plan) THEN "chunk" ELSE "merge"
  BY DEF Recover, NextPart
<1>2. \E m \in Manifests : parts' = Append(parts, m)
  <2>1. PICK r \in Responses : NextPart(Stamp(r.files, calls + 1))
    BY DEF Recover
  <2>2. Stamp(r.files, calls + 1) \in Manifests
    <3>1. calls + 1 \in Nat
      BY DEF IInv, Shapes
    <3>2. r.files \in Lists
      BY DEF Lists
    <3> QED BY <3>1, <3>2, StampIs
  <2> QED BY <2>1, <2>2 DEF NextPart
<1>3. /\ parts \in Seq(Manifests) /\ Len(parts) \in Nat /\ parts' \in Seq(Manifests)
      /\ Len(parts') = Len(parts) + 1
      /\ \A k \in 1 .. Len(parts) : parts'[k] = parts[k]
  BY <1>2 DEF IInv, Shapes
<1>4. /\ recovered' = recovered \cup {Len(parts) + 1} /\ Len(parts) + 1 \notin recovered
      /\ calls' = calls + 1 /\ spent' = spent + 1
  BY <1>3 DEF Recover, Current, IInv, Counted
<1>5. UNCHANGED <<fileVars, runVars, planVars, response, hit, truncated, usage, endVars,
                  treeVars, failure>>
  BY DEF Recover
<1>6. Shapes'
  <2>1. spent' \in Nat /\ calls' \in Nat
    BY <1>4 DEF IInv, Shapes
  <2>2. parts' \in Seq(Manifests) /\ pc' \in Working
    BY <1>1, <1>3 DEF Working
  <2> QED BY <1>5, <2>1, <2>2 DEF IInv, Shapes, fileVars, runVars, planVars, endVars
<1>7. Counted'
  <2>1. Cardinality(recovered') = Cardinality(recovered) + 1 /\ Cardinality(recovered) \in
       Nat
    BY <1>4, RecoveredIs, FS_AddElement DEF IInv
  <2>2. usage \in Nat /\ spent \in Nat /\ calls \in Nat
    BY DEF IInv, Shapes
  <2>3. recovered' \subseteq 1 .. Len(parts')
    <3>1. recovered \subseteq 1 .. Len(parts)
      BY DEF IInv, Counted
    <3>2. 1 .. Len(parts) \subseteq 1 .. Len(parts') /\ Len(parts) + 1 \in 1 .. Len(parts')
      BY <1>3
    <3> QED BY <1>4, <3>1, <3>2
  <2> QED BY <1>4, <1>5, <2>1, <2>2, <2>3 DEF IInv, Counted
<1>8. Planning'
  BY <1>1, <1>3, <1>5, ListedIs DEF IInv, Shapes, Planning, Looping, Deciding, Saving,
       Extracting, fileVars, runVars, planVars
<1>9. Diagnosed'
  BY <1>1, <1>5 DEF IInv, Diagnosed
<1>10. Cached'
  <2>1. \A k \in 1 .. Len(parts) + 1 : KeyAt(k)' = KeyAt(k)
    BY <1>2, <1>3, <1>5, KeysStay DEF keyVars, fileVars, runVars
  <2>2. KeyAt(Len(parts) + 1) \in DOMAIN cache /\ cache[KeyAt(Len(parts) + 1)] = response
        /\ response.kind = "missing"
    BY <1>1 DEF IInv, Cached, Diagnosed, KeyOf, Current
  <2>3. ASSUME NEW k \in DOMAIN parts'
        PROVE  /\ KeyAt(k) \in DOMAIN cache
               /\ k \in recovered' => cache[KeyAt(k)].kind = "missing"
               /\ k \notin recovered' =>
                    cache[KeyAt(k)].kind = "manifest" /\ cache[KeyAt(k)].files = parts'[k]
    <3>1. CASE k = Len(parts) + 1
      BY <1>4, <2>2, <3>1
    <3>2. CASE k # Len(parts) + 1
      <4>1. k \in DOMAIN parts /\ parts'[k] = parts[k]
        BY <1>3, <3>2
      <4>2. k \in recovered' <=> k \in recovered
        BY <1>4, <3>2
      <4> QED BY <1>1, <4>1, <4>2 DEF IInv, Cached, Working
    <3> QED BY <3>1, <3>2
  <2>4. \A k \in DOMAIN parts' : KeyAt(k)' = KeyAt(k)
    BY <1>3, <2>1
  <2> QED BY <1>1, <1>5, <2>3, <2>4 DEF Cached, fileVars
<1>11. Agreed'
  BY <1>4, <1>5, AgreedStays DEF IInv, fileVars, runVars
<1>12. Arbitrated'
  BY <1>1, <1>5 DEF IInv, Arbitrated, Saving, Extracting
<1>13. Extracted'
  BY <1>1, <1>5 DEF IInv, Extracted, Extracting, fileVars, endVars, treeVars
<1>14. Reported'
  BY <1>1, <1>5 DEF IInv, Reported, fileVars, endVars
<1> QED BY <1>6, <1>7, <1>8, <1>9, <1>10, <1>11, <1>12, <1>13, <1>14 DEF IInv

LEMMA WriteFileKeeps ==
    ASSUME IInv, WriteFile
    PROVE  IInv'
<1> DEFINE e == NextEntry
           f == Resolve(e.path)
           n == written + 1
<1>1. /\ pc = "write" /\ pc' = "write" /\ written' = n
      /\ written < Len(manifest.files) /\ e.path \notin Unsafe
  BY DEF WriteFile, Goto
<1>2. /\ e \in Entries /\ written \in Nat /\ Len(manifest.files) \in Nat
      /\ n \in 1 .. Len(manifest.files) /\ e = manifest.files[n]
  BY <1>1 DEF IInv, Shapes, Manifests, NextEntry
<1>3. tree' = [g \in DOMAIN tree \cup {f} |-> IF g = f THEN e ELSE tree[g]]
  <2> DEFINE one == <<e>>
  <2>1. DOMAIN one = 1 .. 1 /\ one[1] = e
    OBVIOUS
  <2>2. FilesOf(one) = {f}
    BY <2>1 DEF FilesOf
  <2>3. LastFor(one, f) = 1
    <3>1. {k \in DOMAIN one : Resolve(one[k].path) = f} = {1}
      BY <2>1
    <3>2. Max({1}) \in {1}
      BY MaxIs
    <3> QED BY <3>1, <3>2 DEF LastFor
  <2>4. tree' = Written(tree, one)
    BY DEF WriteFile
  <2> HIDE DEF one, f, e
  <2> QED BY <2>1, <2>2, <2>3, <2>4 DEF Written
<1>4. UNCHANGED <<contract, cache, markdown, manifest, conflicts, runVars, planVars,
                  llmVars, merged, report, treeVars, parts, failure>>
  BY DEF WriteFile
<1>5. Shapes'
  <2>1. tree' \in [DOMAIN tree' -> Entries]
    <3> HIDE DEF e, f, n
    <3> QED BY <1>2, <1>3 DEF IInv, Shapes
  <2>2. written' \in Nat /\ pc' \in Working
    BY <1>1, <1>2 DEF Working
  <2> QED BY <1>4, <2>1, <2>2 DEF IInv, Shapes, runVars, planVars, llmVars
<1>6. Counted' /\ Diagnosed'
  BY <1>1, <1>4 DEF IInv, Counted, Diagnosed, llmVars
<1>7. Planning' /\ Arbitrated'
  BY <1>1, <1>4 DEF IInv, Planning, Arbitrated, Looping, Deciding, Saving, Extracting,
       runVars, planVars
<1>8. Cached'
  BY <1>1, <1>4, CachedStays DEF IInv, keyVars, Working, runVars, planVars, llmVars
<1>9. Agreed'
  BY <1>1, <1>4, AgreedStays DEF IInv, runVars, Looping, Deciding
<1>10. Extracted'
  <2>1. 1 .. n = 1 .. written \cup {n} /\ n \notin 1 .. written
        /\ \A j \in 1 .. written : j <= n
    BY <1>2
  <2>2. /\ Listing \subseteq DOMAIN tree /\ DOMAIN tree \subseteq DOMAIN before \cup Listing
        /\ DOMAIN before \subseteq DOMAIN tree /\ touched = {}
        /\ \A g \in DOMAIN tree : Resolve(tree[g].path) = g /\ tree[g].path \notin Unsafe
        /\ \A j \in 1 .. written : \E i \in 1 .. written :
             /\ j <= i
             /\ Resolve(manifest.files[i].path) = Resolve(manifest.files[j].path)
             /\ tree[Resolve(manifest.files[j].path)] = manifest.files[i]
    BY <1>1 DEF IInv, Extracted, Extracting, Landed
  <2>3. Listing' = Listing \cup {f}
    <3>1. Listing' = {Resolve(manifest.files[j].path) : j \in 1 .. n}
      BY <1>1, <1>4 DEF Listing
    <3> HIDE DEF n
    <3> QED BY <1>2, <2>1, <3>1 DEF Listing
  <2>4. Resolve(e.path) = f
    OBVIOUS
  <2>5. e.path \notin Unsafe /\ written' = n /\ n <= Len(manifest.files)
    BY <1>1, <1>2
  <2> HIDE DEF e, f, n
  <2>6. DOMAIN tree' = DOMAIN tree \cup {f}
        /\ tree'[f] = e /\ \A g \in DOMAIN tree \ {f} : tree'[g] = tree[g]
    BY <1>3
  <2>7. ASSUME NEW j \in 1 .. n
        PROVE  \E i \in 1 .. n :
                 /\ j <= i
                 /\ Resolve(manifest.files[i].path) = Resolve(manifest.files[j].path)
                 /\ tree'[Resolve(manifest.files[j].path)] = manifest.files[i]
    <3>1. CASE Resolve(manifest.files[j].path) = f
      <4>1. j <= n /\ n \in 1 .. n
        BY <1>2, <2>1
      <4> QED BY <1>2, <2>4, <2>6, <3>1, <4>1
    <3>2. CASE Resolve(manifest.files[j].path) # f
      <4>1. j \in 1 .. written
        BY <1>2, <2>1, <2>4, <3>2
      <4>2. Resolve(manifest.files[j].path) \in DOMAIN tree
        BY <2>2, <4>1 DEF Listing
      <4> QED BY <2>1, <2>2, <2>6, <3>2, <4>1, <4>2
    <3> QED BY <3>1, <3>2
  <2>8. \A g \in DOMAIN tree' : Resolve(tree'[g].path) = g /\ tree'[g].path \notin Unsafe
    BY <2>2, <2>4, <2>5, <2>6
  <2> QED BY <1>1, <1>4, <2>2, <2>3, <2>5, <2>6, <2>7, <2>8
          DEF Extracted, Extracting, Landed, treeVars
<1>11. Reported'
  BY <1>1, <1>4 DEF IInv, Reported
<1> QED BY <1>5, <1>6, <1>7, <1>8, <1>9, <1>10, <1>11 DEF IInv

\* The locals of a run that ended are nobody's.
LEMMA Forgotten ==
    ASSUME IInv, Forget, UNCHANGED <<contract, markdown, manifest, tree, design, calls>>,
           cache' \in [DOMAIN cache' -> Answers], run' \in 0 .. MaxRuns, run <= run',
           pc' \in {"idle", "design"}
    PROVE  /\ Shapes' /\ Counted' /\ Planning' /\ Diagnosed' /\ Cached'
           /\ Arbitrated' /\ Extracted' /\ Reported'
<1>1. /\ parts' = <<>> /\ plan' = <<>> /\ response' = NoResponse /\ recovered' = {}
      /\ chunked' = FALSE /\ driven' = FALSE /\ hit' = FALSE /\ truncated' = FALSE
      /\ usage' = 0 /\ spent' = 0 /\ merged' = <<>> /\ written' = 0
      /\ report' = Absent /\ failure' = "none" /\ before' = Nothing /\ touched' = {}
  BY DEF Forget
<1>2. /\ Listed(plan)' /\ Len(plan') = 0 /\ response' \in Answers
      /\ parts' \in Seq(Manifests) /\ merged' \in Manifests
  <2>1. <<>> \in Seq(ToSet(<<>>)) /\ <<>> \in Seq(Manifests) /\ <<>> \in Manifests
    BY DEF Manifests
  <2> QED BY <1>1, <2>1 DEF Listed, ToSet, NoResponse, Answers
<1>3. DOMAIN before' = {} /\ Cardinality({}) = 0
  BY <1>1, FS_EmptySet DEF Nothing
<1>4. Shapes'
  <2>1. 0 .. run \subseteq 0 .. run'
    BY GenerationAssumption DEF IInv, Shapes
  <2>2. pc' \in Resting \cup Working
    BY DEF Resting, Working
  <2> QED BY <1>1, <1>2, <2>1, <2>2 DEF IInv, Shapes
<1>5. Counted'
  BY <1>1, <1>3 DEF IInv, Shapes, Counted
<1>6. Planning'
  BY <1>1, <1>2 DEF Planning, Looping, Deciding, Saving, Extracting
<1>7. Diagnosed' /\ Cached' /\ Arbitrated' /\ Reported'
  BY <1>1 DEF Diagnosed, Cached, Arbitrated, Reported, Saving, Extracting
<1>8. Extracted'
  <2>1. Len(manifest.files) \in Nat
    BY DEF IInv, Shapes, Manifests
  <2> QED BY <1>1, <1>3, <2>1 DEF IInv, Extracted, Extracting
<1> QED BY <1>4, <1>5, <1>6, <1>7, <1>8

LEMMA NewRunKeeps ==
    ASSUME IInv, NewRun
    PROVE  IInv'
<1>1. /\ Forget /\ pc' = "design" /\ run' = run + 1 /\ run < MaxRuns
      /\ UNCHANGED <<contract, markdown, manifest, conflicts, tree, design, calls>>
      /\ confronted' = IF cache' = cache THEN confronted ELSE NoDesign
  BY DEF NewRun
<1>2. cache' \in [DOMAIN cache' -> Answers]
  BY DEF NewRun, IInv, Shapes
<1>3. run' \in 0 .. MaxRuns /\ run <= run'
  BY <1>1, GenerationAssumption DEF IInv, Shapes
<1>4. Agreed'
  <2>1. CASE cache' = cache
    BY <1>1, <2>1, AgreedStays DEF IInv, Looping, Deciding
  <2>2. CASE cache' # cache
    BY <1>1, <2>2 DEF Agreed, NoDesign
  <2> QED BY <2>1, <2>2
<1> QED BY <1>1, <1>2, <1>3, <1>4, Forgotten DEF IInv

LEMMA CrashKeeps ==
    ASSUME IInv, Crash
    PROVE  IInv'
<1>1. Forget /\ pc' = "idle" /\ UNCHANGED <<fileVars, runVars, calls>>
  BY DEF Crash
<1>2. cache' \in [DOMAIN cache' -> Answers] /\ run' \in 0 .. MaxRuns /\ run <= run'
  BY <1>1, GenerationAssumption DEF IInv, Shapes, fileVars, runVars
<1>3. Agreed'
  BY <1>1, AgreedStays DEF IInv, fileVars, runVars, Looping, Deciding
<1> QED BY <1>1, <1>2, <1>3, Forgotten DEF IInv, fileVars, runVars

-----------------------------------------------------------------------------
LEMMA Initially == Init => IInv
<1> SUFFICES ASSUME Init  PROVE IInv
  OBVIOUS
<1>1. /\ <<>> \in Seq(ToSet(<<>>)) /\ <<>> \in Manifests /\ <<>> \in Seq(Manifests)
      /\ Cardinality({}) = 0
  BY FS_EmptySet DEF Manifests
<1>2. Shapes
  <2>1. NoResponse \in Answers /\ NoManifest.files \in Manifests /\ NoManifest.by = 0
        /\ NoManifest = [by |-> 0, files |-> <<>>]
    BY <1>1 DEF NoResponse, Answers, NoManifest
  <2>2. DOMAIN Nothing = {} /\ Nothing = [p \in {} |-> NoResponse]
    BY DEF Nothing
  <2>3. cache \in [DOMAIN cache -> Answers] /\ tree \in [DOMAIN tree -> Entries]
    BY <2>2 DEF Init
  <2>4. Listed(plan)
    BY <1>1 DEF Init, Listed
  <2>5. /\ manifest = [by |-> manifest.by, files |-> manifest.files] /\ manifest.by = 0
        /\ manifest.files \in Manifests
    BY <2>1 DEF Init
  <2>6. 0 \in 0 .. MaxRuns /\ 0 \in 0 .. 0
    BY GenerationAssumption
  <2> QED BY <1>1, <2>1, <2>3, <2>4, <2>5, <2>6 DEF Init, Shapes, Resting
<1>3. Counted /\ Planning
  BY <1>1 DEF Init, Counted, Planning, Looping, Deciding, Saving, Extracting
<1>4. Diagnosed /\ Cached /\ Agreed /\ Arbitrated
  BY DEF Init, Diagnosed, Cached, Agreed, NoDesign, Arbitrated, Working, Looping, Deciding,
         Saving, Extracting
<1>5. Extracted /\ Reported
  BY <1>1 DEF Init, Extracted, Reported, NoManifest, Nothing, Extracting
<1> QED BY <1>2, <1>3, <1>4, <1>5 DEF IInv

LEMMA Stuttering ==
    ASSUME IInv, UNCHANGED vars
    PROVE  IInv'
<1>1. UNCHANGED <<contract, cache, markdown, manifest, conflicts, tree, run, design,
                  confronted, chunked, driven, plan, response, hit, truncated, usage, calls,
                  spent, recovered, merged, written, report, before, touched, pc, parts,
                  failure>>
  BY DEF vars, fileVars, runVars, planVars, llmVars, endVars, treeVars
<1>2. Shapes' /\ Counted' /\ Planning'
  BY <1>1 DEF IInv, Shapes, Counted, Planning
<1>3. Diagnosed' /\ Arbitrated' /\ Extracted' /\ Reported'
  BY <1>1 DEF IInv, Diagnosed, Recovers, Arbitrated, Extracted, Listing, Landed, Reported
<1>4. Cached'
  BY <1>1, CachedStays DEF IInv, keyVars, planVars
<1>5. Agreed'
  BY <1>1, AgreedStays DEF IInv
<1> QED BY <1>2, <1>3, <1>4, <1>5 DEF IInv

LEMMA Inductive == IInv /\ [Next]_vars => IInv'
<1> SUFFICES ASSUME IInv, [Next]_vars  PROVE IInv'
  OBVIOUS
<1>1. CASE Design \/ Begin \/ PlanComponents \/ PlanFails
  BY <1>1, DesignKeeps, BeginKeeps, PlanComponentsKeeps, PlanFailsKeeps
<1>2. CASE CacheHit \/ Generate \/ Split \/ AskAgain \/ Recover
  BY <1>2, CacheHitKeeps, GenerateKeeps, SplitKeeps, AskAgainKeeps, RecoverKeeps
<1>3. CASE GenerateFails \/ SplitFails \/ GiveUp \/ RecoverFails \/ SchemaFails
           \/ CircuitBreaker \/ WriteFails
  BY <1>3, FailuresKeep
<1>4. CASE MergeParts \/ ConflictsFail \/ NoConflicts \/ SaveMarkdown \/ SaveManifest
  BY <1>4, MergePartsKeeps, ConflictsFailKeeps, NoConflictsKeeps, SaveMarkdownKeeps,
     SaveManifestKeeps
<1>5. CASE StartExtract \/ WriteFile \/ ExtractEnds \/ RunChecks \/ CheckCompliance
  BY <1>5, StartExtractKeeps, WriteFileKeeps, ExtractEndsKeeps, RunChecksKeeps,
     CheckComplianceKeeps
<1>6. CASE NewRun \/ Crash
  BY <1>6, NewRunKeeps, CrashKeeps
<1>7. CASE UNCHANGED vars
  BY <1>7, Stuttering
<1> QED BY <1>1, <1>2, <1>3, <1>4, <1>5, <1>6, <1>7 DEF Next, Step

LEMMA Always == Spec => []IInv
BY Initially, Inductive, PTL DEF Spec

-----------------------------------------------------------------------------
(***************************************************************************)
(* What follows from the invariant.                                        *)
(***************************************************************************)
\* The variables of the pipeline from design to compliance keep their types: no more is
\* used than was called for, recovered than was planned, or written than was listed.
THEOREM TypeCorrect == Spec => []TypeOK
<1>1. IInv => TypeOK
  <2> SUFFICES ASSUME IInv  PROVE TypeOK
    OBVIOUS
  <2>1. /\ Len(parts) \in Nat /\ Len(plan) \in Nat /\ Len(parts) <= Len(plan)
        /\ recovered \subseteq 1 .. Len(parts)
    BY ListedIs DEF IInv, Shapes, Planning, Counted
  <2>2. recovered \subseteq 1 .. Len(plan)
    BY <2>1
  <2>3. usage <= spent /\ spent <= calls
    BY RecoveredIs DEF IInv, Shapes, Counted
  <2>4. report \in {Absent, "passed", "failed"}
    BY DEF IInv, Reported
  <2> QED BY <2>1, <2>2, <2>3, <2>4 DEF IInv, Shapes, Extracted, TypeOK
<1> QED BY <1>1, Always, PTL

\* Generates counts every call in the usage, Recover none of its own: at any time, not
\* only once the chunks are merged, what was spent is the usage and one call for each
\* recovered chunk.
THEOREM UsageAccounted == Spec => []UsageIsAccounted
<1>1. IInv => UsageIsAccounted
  BY DEF IInv, Counted, UsageIsAccounted
<1> QED BY <1>1, Always, PTL

\* A missing manifest is called untruncated, or is recovered, against what its own
\* response says only when that response came from the cache.
THEOREM MarkersDiagnosed == Spec => []MissingMarkersAreDiagnosed
<1>1. IInv => MissingMarkersAreDiagnosed
  BY DEF IInv, Shapes, Answers, Diagnosed, Recovers, MissingMarkersAreDiagnosed
<1> QED BY <1>1, Always, PTL

\* Every manifest an execution took is in the cache under the key it would be looked up
\* with again, whatever was appended behind it since.
THEOREM Replays == Spec => []ReplayIsExact
<1>1. IInv => ReplayIsExact
  BY DEF IInv, Cached, ReplayIsExact
<1> QED BY <1>1, Always, PTL

\* The cache is all that makes two runs meet the same conflicts: a later run repeats the
\* parts of the one that failed, chunk by chunk, so it meets what was reported then.
THEOREM ConflictsComeBack == Spec => []ConflictsRepeat
<1>1. ASSUME IInv, pc = "gate", driven, recovered = {}, confronted = Ours
      PROVE  Conflicts(parts) = conflicts
  <2>1. chunked /\ contract # NoContract /\ pc \in Looping \cup Deciding
    BY <1>1 DEF IInv, Planning, Deciding
  <2>2. PICK Q \in Seq(Manifests) : Shown(Q) /\ Repeats(Q)
    BY <1>1, <2>1 DEF IInv, Agreed, Ours
  <2>3. parts \in Seq(Manifests) /\ \A k \in 1 .. Len(parts) : parts[k] = Q[k]
    BY <1>1, <2>1, <2>2 DEF IInv, Shapes, Repeats
  <2>4. Len(parts) = Len(Q)
    <3>1. Len(plan) = Len(contract.components)
      BY <1>1, <2>1, DrivenLength DEF IInv
    <3>2. Len(parts) = Len(plan)
      BY <1>1 DEF IInv, Planning, Deciding
    <3> QED BY <1>1, <2>2, <3>1, <3>2 DEF Shown, Ours
  <2>5. parts = Q
    BY <2>3, <2>4, SeqEqual
  <2> QED BY <2>2, <2>5 DEF Shown
<1>2. IInv => ConflictsRepeat
  BY <1>1 DEF ConflictsRepeat, Ours
<1> QED BY <1>2, Always, PTL

\* The tree holds what the manifest lists, the manifest is the merge of the parts, and a
\* merge without conflicts keeps every entry in its place: no file of any chunk is lost on
\* the way to the project, except to a later entry that names it by another path.
THEOREM TreeFollows == Spec => []TreeFollowsManifest
<1>1. ASSUME IInv, pc = "extracted", chunked
      PROVE  LET all == FlattenSeq(parts)
             IN  \A k \in DOMAIN all :
                   LET file == Resolve(all[k].path)
                   IN  /\ file \in DOMAIN tree
                       /\ \/ tree[file] = OnDisk(all[k])
                          \/ \E j \in DOMAIN all :
                               /\ j > k /\ all[j].path # all[k].path
                               /\ Resolve(all[j].path) = file /\ tree[file] = OnDisk(all[j])
  <2> DEFINE all == FlattenSeq(parts)
             out == Merge(parts, "last")
  <2>1. /\ manifest.files = out /\ out \in Manifests /\ written = Len(out)
        /\ Conflicts(parts) = {} /\ parts \in Seq(Manifests)
    BY <1>1, MergedIs DEF IInv, Shapes, Arbitrated, Extracted, Extracting
  <2>2. parts \in Seq(Seq(Entries))
    BY <2>1 DEF Manifests
  <2>3. PICK at \in [DOMAIN out -> DOMAIN all] :
          /\ \A k \in DOMAIN out : out[k] = all[at[k]]
          /\ \A i, j \in DOMAIN out : i < j => at[i] < at[j]
          /\ \A k \in DOMAIN all : \E i \in DOMAIN out : at[i] = k
    BY <2>1, <2>2, MergeKeepsAll
  <2>4. /\ all \in Seq(Entries)
        /\ \A i, j \in DOMAIN all : all[i].path = all[j].path => i = j
    BY <2>1, <2>2, FlattenIs, NoConflictsIs
  <2>5. /\ {Resolve(out[j].path) : j \in 1 .. written} \subseteq DOMAIN tree
        /\ \A j \in 1 .. written : \E i \in 1 .. written :
             /\ j <= i /\ Resolve(out[i].path) = Resolve(out[j].path)
             /\ tree[Resolve(out[j].path)] = OnDisk(out[i])
    <3> HIDE DEF all, out
    <3>1. /\ Listing \subseteq DOMAIN tree
          /\ \A j \in 1 .. written : \E i \in 1 .. written :
               /\ j <= i /\ Resolve(manifest.files[i].path) = Resolve(manifest.files[j].path)
               /\ tree[Resolve(manifest.files[j].path)] = Landed(manifest.files[i])
      BY <1>1 DEF IInv, Extracted, Extracting
    <3>2. /\ Listing = {Resolve(out[j].path) : j \in 1 .. written}
          /\ \A i \in 1 .. written : Landed(manifest.files[i]) = OnDisk(out[i])
      BY <1>1, <2>1 DEF Listing, Landed
    <3> QED BY <2>1, <3>1, <3>2
  <2> HIDE DEF all, out
  <2>6. DOMAIN out = 1 .. written /\ written \in Nat /\ DOMAIN all \subseteq Nat
    BY <2>1, <2>4 DEF Manifests
  <2>7. ASSUME NEW k \in DOMAIN all
        PROVE  LET file == Resolve(all[k].path)
               IN  /\ file \in DOMAIN tree
                   /\ \/ tree[file] = OnDisk(all[k])
                      \/ \E j \in DOMAIN all :
                           /\ j > k /\ all[j].path # all[k].path
                           /\ Resolve(all[j].path) = file /\ tree[file] = OnDisk(all[j])
    <3>1. PICK l \in 1 .. written : at[l] = k
      BY <2>3, <2>6
    <3>2. out[l] = all[k]
      BY <2>3, <2>6, <3>1
    <3>3. PICK i \in 1 .. written :
            /\ l <= i /\ Resolve(out[i].path) = Resolve(out[l].path)
            /\ tree[Resolve(out[l].path)] = OnDisk(out[i])
      BY <2>5
    <3>4. at[i] \in DOMAIN all /\ out[i] = all[at[i]]
      BY <2>3, <2>6
    <3>5. Resolve(all[k].path) \in DOMAIN tree
      BY <2>5, <3>1, <3>2
    <3>6. CASE i = l
      BY <3>2, <3>3, <3>5, <3>6
    <3>7. CASE i # l
      <4>1. l < i
        BY <2>6, <3>3, <3>7
      <4>2. at[i] > k
        BY <2>3, <2>6, <3>1, <3>4, <4>1
      <4>3. all[at[i]].path # all[k].path
        <5>1. at[i] # k
          BY <2>6, <3>4, <4>2
        <5> QED BY <2>4, <3>4, <5>1
      <4> QED BY <3>2, <3>3, <3>4, <3>5, <4>2, <4>3
    <3> QED BY <3>6, <3>7
  <2> QED BY <2>7 DEF all
<1>2. IInv => TreeFollowsManifest
  BY <1>1 DEF TreeFollowsManifest
<1> QED BY <1>2, Always, PTL

\* Up to what the checks touched, the tree is what was there and what the manifest lists.
LEMMA TreeIs ==
    ASSUME IInv, pc = "checked"
    PROVE  /\ DOMAIN tree \subseteq DOMAIN before \cup FilesOf(manifest.files) \cup touched
           /\ FilesOf(manifest.files) \subseteq DOMAIN tree \cup touched
<1>1. manifest.files \in Manifests /\ written = Len(manifest.files)
  BY DEF IInv, Shapes, Extracted
<1>2. FilesOf(manifest.files) = Listing
  BY <1>1 DEF FilesOf, Listing, Manifests
<1> QED BY <1>2 DEF IInv, Extracted, Extracting

\* validate_contract and check_contract_compliance were written apart, and agree: who
\* produces the files of a valid contract, and nothing else but structural ones, is within
\* every budget.
THEOREM ComplianceAgrees == Spec => []ComplianceAgreesWithContract
<1>1. ASSUME IInv, pc = "checked", contract # NoContract, touched = {},
             Files(contract) \subseteq FilesOf(manifest.files),
             FilesOf(manifest.files) \cup DOMAIN before \subseteq Files(contract) \cup Structural,
             Files(contract) \cap Hidden = {},
             \A t \in ToSet(contract.types) :
               Resolve(t.file) \in Files(contract) /\ t.name \in tree[Resolve(t.file)].types
      PROVE  report = "passed"
  <2>1. /\ Files(contract) \subseteq DOMAIN tree /\ Files(contract) \subseteq Seen(tree)
        /\ Seen(tree) \subseteq Files(contract) \cup Structural
    BY <1>1, TreeIs DEF Seen
  <2>2. /\ contract.budget \in Int
        /\ IsFiniteSet(Files(contract)) /\ Cardinality(Files(contract)) <= contract.budget
        /\ \A comp \in ToSet(contract.components) :
             /\ comp.maxFiles \in Int /\ IsFiniteSet(ToSet(comp.files))
             /\ Cardinality(ToSet(comp.files)) <= comp.maxFiles
    BY <1>1, ValidBudgets DEF IInv, Shapes
  <2>3. Missing(contract, tree) = {}
    BY <2>1 DEF Missing
  <2>4. OverComponentBudget(contract, tree) = {}
    <3>1. ASSUME NEW comp \in ToSet(contract.components)
          PROVE  ~ (Cardinality(ToSet(comp.files) \cap Seen(tree)) > comp.maxFiles)
      <4> DEFINE made == ToSet(comp.files) \cap Seen(tree)
      <4>1. IsFiniteSet(made) /\ Cardinality(made) <= Cardinality(ToSet(comp.files))
        BY <2>2, FS_Intersection
      <4>2. Cardinality(made) \in Nat /\ Cardinality(ToSet(comp.files)) \in Nat
        BY <2>2, <4>1, FS_CardinalityType
      <4> HIDE DEF made
      <4>3. ~ (Cardinality(made) > comp.maxFiles)
        BY <2>2, <4>1, <4>2
      <4> QED BY <4>3 DEF made
    <3> QED BY <3>1 DEF OverComponentBudget
  <2>5. ~OverBudget(contract, tree)
    <3> DEFINE counted == Seen(tree) \ Structural
    <3>1. counted \in SUBSET Files(contract)
      BY <2>1
    <3> HIDE DEF counted
    <3>2. IsFiniteSet(counted) /\ Cardinality(counted) <= Cardinality(Files(contract))
      BY <2>2, <3>1, FS_Subset
    <3>3. Cardinality(counted) \in Nat /\ Cardinality(Files(contract)) \in Nat
      BY <2>2, <3>2, FS_CardinalityType
    <3>4. ~ (Cardinality(counted) > contract.budget)
      BY <2>2, <3>2, <3>3
    <3> QED BY <3>4 DEF OverBudget, counted
  <2>6. MissingTypes(contract, tree) = {}
    BY <1>1, <2>1 DEF MissingTypes
  <2>7. Passes(contract, tree)
    BY <2>3, <2>4, <2>5, <2>6 DEF Passes
  <2> QED BY <1>1, <2>7 DEF IInv, Reported
<1>2. IInv => ComplianceAgreesWithContract
  BY <1>1 DEF ComplianceAgreesWithContract
<1> QED BY <1>2, Always, PTL

\* What the contract demands was produced by this implementation, by an earlier one whose
\* files no extraction removed, or by a check that ran in the project.
THEOREM PassedProduced == Spec => []PassedMeansProduced
<1>1. ASSUME IInv, report = "passed"
      PROVE  Files(contract) \subseteq FilesOf(manifest.files) \cup DOMAIN before \cup touched
  <2>1. pc = "checked" /\ Passes(contract, tree)
    BY <1>1 DEF IInv, Reported, Absent
  <2>2. Files(contract) \subseteq DOMAIN tree
    BY <2>1 DEF Passes, Missing, Seen
  <2> QED BY <1>1, <2>1, <2>2, TreeIs
<1>2. IInv => PassedMeansProduced
  BY <1>1 DEF PassedMeansProduced
<1> QED BY <1>2, Always, PTL
=============================================================================
