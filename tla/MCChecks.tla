------------------------------ MODULE MCChecks ------------------------------
(***************************************************************************)
(* Two runs of one project at their test stage, with different sources and *)
(* dependency lists, on one cache.                                         *)
(***************************************************************************)
EXTENDS Checks

CONSTANTS first, second

Cfg(enabled, backend, install) ==
    [enabled |-> enabled, backend |-> backend, install |-> install]
Job(has, deps, contract, cfg, lists, executions) ==
    [has |-> has, deps |-> deps, contract |-> contract, cfg |-> cfg, lists |-> lists,
     executions |-> executions]

Local  == Cfg(TRUE, "local", TRUE)
Bare   == Cfg(TRUE, "local", FALSE)
Docker == Cfg(TRUE, "docker", TRUE)
Direct == Cfg(FALSE, "local", TRUE)

Shared(file, deps, cfg, n) == Job({file}, deps, FALSE, cfg, {<<"test">>}, n)
Pair(j1, j2) == first :> j1 @@ second :> j2

\* The cache is shared with the same list, with another one, and without installing; then
\* the other ways to run checks, while the second run finds nothing to check.
MCSettings ==
    {Pair(Shared("pyproject.toml", "old", Local, 1), Shared("pyproject.toml", "old", Local, 1)),
     Pair(Shared("requirements.txt", "old", Local, 1), Shared("requirements.txt", "new", Local, 1)),
     Pair(Shared("requirements.txt", "old", Bare, 1), Shared("requirements.txt", "old", Bare, 1))}
    \cup {Pair(j, Job({}, "none", FALSE, Local, {<<>>}, 1)) : j \in
        {Job({"pyproject.toml", "tool.pytest"}, "old", FALSE, Direct, {<<>>}, 1),
         Job({"package.json", "test"}, "old", TRUE, Local, {<<>>, <<"test", "test">>}, 2),
         Job({"requirements.txt"}, "old", TRUE, Docker, {<<"test">>, <<"lint">>}, 2)}}

-----------------------------------------------------------------------------
Features == {"package.json", "pyproject.toml", "tool.pytest", "pytest.ini", "setup.py",
             "tests", "test", "build"}

\* Auto-detection never gives two checks one name, and gives some to every project that
\* the sandbox recognises.
ASSUME AutoDetectedAreDistinct ==
    \A has \in SUBSET Features :
        /\ IsInjective(AutoDetected(has))
        /\ AutoDetected(has) = <<>> <=> ProjectType(has) = "unknown"
        /\ ToSet(AutoDetected(has)) \cap {Sentinel, Compliance} = {}

\* A project configured for pytest is tested by it, whether or not it has a tests directory.
ASSUME ConfiguredTestsAreDetected ==
    \A has \in SUBSET Features :
        ProjectType(has) = "python" /\ {"pyproject.toml", "tool.pytest"} \subseteq has
            => "test" \in ToSet(AutoDetected(has))
=============================================================================
