---------------------------- MODULE MCGeneration ----------------------------
(***************************************************************************)
(* Instances of Generation for TLC, and _merge_manifests against the code  *)
(* a reader would write first: a dictionary updated chunk by chunk.        *)
(***************************************************************************)
EXTENDS Generation

File(path, types) == [path |-> path, types |-> types]
Part(name, files, max) ==
    [name |-> name, files |-> files, maxFiles |-> max, imports |-> {}, exports |-> {}]

\* Two components with one file each and a shared type.
Layered ==
    [components |-> <<Part("core", <<"a.py">>, 1),
                      [Part("api", <<"b.py">>, 1) EXCEPT !.imports = {"core"}]>>,
     types |-> <<[name |-> "User", file |-> "a.py"]>>, budget |-> 2]

\* One component; a path that is not normal, a file the checker does not see, and a type in
\* a file nobody plans.
Unmeetable ==
    [components |-> <<Part("core", <<"./a.py", ".env.example">>, 2)>>,
     types |-> <<[name |-> "User", file |-> "b.py"]>>, budget |-> 2]

\* More files than its budget allows: refused by the validation.
OverPlanned == [Layered EXCEPT !.budget = 1]

MCDesigns ==
    {[id |-> "layered", contract |-> Layered], [id |-> "unmeetable", contract |-> Unmeetable],
     [id |-> "overplanned", contract |-> OverPlanned], [id |-> "prose", contract |-> NoContract]}
MCPlans == {<<"core", "api">>, <<"core", "core">>}
MCAliases == [path \in {"./a.py"} |-> "a.py"]

Answer(kind, cut, files) == [kind |-> kind, cut |-> cut, files |-> files]
MCResponses ==
    {Answer("manifest", FALSE, <<File("a.py", {"User"})>>),
     Answer("manifest", FALSE, <<File("b.py", {}), File("requirements.txt", {})>>),
     Answer("manifest", FALSE, <<File("./a.py", {})>>),
     Answer("manifest", TRUE, <<File("./a.py", {}), File("../b.py", {})>>),
     Answer("manifest", TRUE, <<File(" ", {})>>), Answer("manifest", FALSE, <<>>),
     Answer("missing", TRUE, <<>>), Answer("missing", FALSE, <<>>),
     Answer("malformed", FALSE, <<>>)}

\* A build generates a file that a contract names; another one removes a file.
MCEffects ==
    {[left |-> <<File("b.py", {})>>, removed |-> {}], [left |-> <<>>, removed |-> {"a.py"}]}

-----------------------------------------------------------------------------
SmallEntries   == [path : {"a.py", "./a.py", "b.py"}, types : {{}}, by : {1}]
SmallManifests == UNION {[1 .. n -> SmallEntries] : n \in 0 .. 2}

\* What the k-th of some entries is, told from the others.
Numbered(entries) == [k \in DOMAIN entries |-> [entries[k] EXCEPT !.by = k]]

\* Last writer wins: the merged manifest gives each path the version that a dictionary
\* updated chunk by chunk gives it. On disk that is so too where no file has two paths.
ASSUME MergeKeepsTheLast ==
    \A m1, m2 \in SmallManifests :
        LET all    == Numbered(m1 \o m2)
            chunks == <<SubSeq(all, 1, Len(m1)), SubSeq(all, Len(m1) + 1, Len(all))>>
            result == Merge(chunks, "last")
        IN  /\ ToSet(result) = {all[LastOf(all, p)] : p \in Paths(all)}
            /\ Cardinality(Paths(all)) = Cardinality(FilesOf(all)) =>
                    Written(Nothing, result) = Written(Nothing, all)

\* First writer wins.
ASSUME MergeKeepsTheFirst ==
    \A m1, m2 \in SmallManifests :
        LET all    == Numbered(m1 \o m2)
            chunks == <<SubSeq(all, 1, Len(m1)), SubSeq(all, Len(m1) + 1, Len(all))>>
            result == Merge(chunks, "first")
        IN  ToSet(result) = {all[FirstOf(all, p)] : p \in Paths(all)}

\* No path is listed twice, and without conflicts the merge keeps every entry in its place.
ASSUME MergeHasNoDuplicates ==
    \A m1, m2 \in SmallManifests : \A policy \in {"first", "last"} :
        LET result == Merge(<<m1, m2>>, policy)
        IN  /\ Conflicts(<<result>>) = {}
            /\ Conflicts(<<m1, m2>>) = {} => result = m1 \o m2
=============================================================================
