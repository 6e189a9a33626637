------------------------------ MODULE Manifest ------------------------------
(***************************************************************************)
(* _merge_manifests of tasks/implement.py. A manifest is a sequence of     *)
(* entries [path, types, by]: where the file goes, the type names in it,   *)
(* and the LLM call that wrote it (its content, as far as it matters).     *)
(***************************************************************************)
EXTENDS Naturals, Sequences, SequencesExt, FiniteSetsExt

Paths(manifest) == {manifest[k].path : k \in DOMAIN manifest}

Positions(manifest, path) == {k \in DOMAIN manifest : manifest[k].path = path}

FirstOf(manifest, path) == Min(Positions(manifest, path))
LastOf(manifest, path)  == Max(Positions(manifest, path))

\* The members of a finite set of positions, the least first.
Ascending(S) ==
    CHOOSE s \in [1 .. Cardinality(S) -> S] : \A i, j \in DOMAIN s : i < j => s[i] < s[j]

\* One entry per path, in the order in which the paths first arrived; the content is
\* the first or the last version of the path.
Merge(manifests, policy) ==
    LET all   == FlattenSeq(manifests)
        order == Ascending({FirstOf(all, p) : p \in Paths(all)})
        Winner(p) == IF policy = "first" THEN FirstOf(all, p) ELSE LastOf(all, p)
    IN  [k \in DOMAIN order |-> all[Winner(all[order[k]].path)]]

\* The report of the conflicts: per path with several versions, the versions. A chunk that
\* lists a path twice conflicts with itself; two paths of one file do not conflict.
Conflicts(manifests) ==
    LET all == FlattenSeq(manifests)
    IN  {[path |-> p, versions |-> SelectSeq(all, LAMBDA e : e.path = p)] :
            p \in {q \in Paths(all) : Cardinality(Positions(all, q)) > 1}}
=============================================================================
