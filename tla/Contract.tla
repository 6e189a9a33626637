------------------------------ MODULE Contract ------------------------------
(***************************************************************************)
(* The design contract: what validate_contract accepts when the design     *)
(* stage extracts it (engine/design_contract.py), and what                 *)
(* check_contract_compliance demands of the extracted project              *)
(* (engine/contract_checker.py). The two are written independently; how    *)
(* far they agree is a property of Generation.                             *)
(*                                                                         *)
(* A contract is a record                                                  *)
(*   components : sequence of [name, files, maxFiles, imports, exports]    *)
(*   types      : sequence of [name, file]                                 *)
(*   budget     : number of files                                          *)
(* Languages, descriptions and fields of types are left out.               *)
(***************************************************************************)
EXTENDS Integers, Sequences, SequencesExt, FiniteSetsExt, ProjectFiles

CONSTANTS
    Hidden,     \* files the checker skips: those that contain ".env", ".git/", ...
    Structural  \* files it takes for expected extras: requirements.txt, README.md, ...

Listed(s) == s \in Seq(ToSet(s))

\* What a contract is, validated or not.
IsContract(c) ==
    /\ Listed(c.components) /\ Listed(c.types) /\ c.budget \in Int
    /\ \A k \in DOMAIN c.components :
        Listed(c.components[k].files) /\ c.components[k].maxFiles \in Int

Files(c)   == UNION {ToSet(c.components[k].files) : k \in DOMAIN c.components}
Planned(c) == FlattenSeq([k \in DOMAIN c.components |-> c.components[k].files])
Names(c)   == {c.components[k].name : k \in DOMAIN c.components}
Types(c)   == {c.types[k].name : k \in DOMAIN c.types}

ComponentValid(c, comp) ==
    /\ comp.files # <<>>
    /\ Len(comp.files) <= comp.maxFiles
    /\ comp.imports \subseteq Names(c)
    /\ comp.exports \subseteq Types(c)

\* validate_contract returns no errors. That no file is listed twice covers both
\* the check inside a component and the one across components.
Valid(c) ==
    /\ c.components # <<>>
    /\ \A k \in DOMAIN c.components : ComponentValid(c, c.components[k])
    /\ IsInjective([k \in DOMAIN c.components |-> c.components[k].name])
    /\ IsInjective(Planned(c))
    /\ Cardinality(Files(c)) <= c.budget
    /\ IsInjective([k \in DOMAIN c.types |-> c.types[k].name])

-----------------------------------------------------------------------------
(***************************************************************************)
(* The compliance check of a project directory. The files found are named  *)
(* by their normal paths, the files demanded as the contract writes them.  *)
(* "types" are the type names a file mentions.                             *)
(***************************************************************************)
Seen(tree) == DOMAIN tree \ Hidden

\* Faulty variant: the difference the other way round.
MissingSwapped(c, tree) == Seen(tree) \ Files(c)

Missing(c, tree) == Files(c) \ Seen(tree)

\* Files in no component's list: a warning only.
Extra(c, tree) == (Seen(tree) \ Files(c)) \ Structural

OverComponentBudget(c, tree) ==
    {comp \in ToSet(c.components) :
        Cardinality(ToSet(comp.files) \cap Seen(tree)) > comp.maxFiles}

\* Faulty variant: the budget itself is too much.
AtBudget(c, tree) == Cardinality(Seen(tree) \ Structural) >= c.budget

OverBudget(c, tree) == Cardinality(Seen(tree) \ Structural) > c.budget

\* The file of a type is opened, whatever it is called and hidden or not.
MissingTypes(c, tree) ==
    {t \in ToSet(c.types) :
        \/ Resolve(t.file) \notin DOMAIN tree
        \/ t.name \notin tree[Resolve(t.file)].types}

Passes(c, tree) ==
    /\ Missing(c, tree) = {}
    /\ OverComponentBudget(c, tree) = {}
    /\ ~OverBudget(c, tree)
    /\ MissingTypes(c, tree) = {}
=============================================================================
