---------------------------- MODULE ProjectFiles ----------------------------
(***************************************************************************)
(* The directory of the extracted project. A manifest or a contract names  *)
(* files by paths as somebody wrote them; a path names the file that       *)
(* _safe_path of tasks/extract.py, or the operating system, resolves it    *)
(* to, and "a.py" and "./a.py" name the same one. A tree maps the files    *)
(* that exist to the entries [path, types, by] they were written from.     *)
(***************************************************************************)
EXTENDS Naturals, Sequences, FiniteSetsExt

CONSTANT Aliases    \* paths that are not normal, each with the file it names

ASSUME AliasesAssumption ==
    \A path \in DOMAIN Aliases : Aliases[path] \notin DOMAIN Aliases

Resolve(path) == IF path \in DOMAIN Aliases THEN Aliases[path] ELSE path

FilesOf(entries) == {Resolve(entries[k].path) : k \in DOMAIN entries}

LastFor(entries, file) == Max({k \in DOMAIN entries : Resolve(entries[k].path) = file})

\* What writing the entries one after the other leaves in a directory.
Written(tree, entries) ==
    [file \in DOMAIN tree \cup FilesOf(entries) |->
        IF file \in FilesOf(entries) THEN entries[LastFor(entries, file)] ELSE tree[file]]
=============================================================================
