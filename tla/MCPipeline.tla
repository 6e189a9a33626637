----------------------------- MODULE MCPipeline -----------------------------
(***************************************************************************)
(* Instances of Pipeline for TLC: the configurations worth telling apart.  *)
(***************************************************************************)
EXTENDS Pipeline

Policies(d, i, t, v) == [design |-> d, implement |-> i, test |-> t, verify |-> v]
Defaults(d, i, t, v) == [design |-> d, implement |-> i, test |-> t, verify |-> v]

\* templates/DECISION_GATES.yml and config.yml as shipped.
Shipped ==
    [policy |-> Policies("pause", "pause", "skip", "pause"),
     default |-> Defaults(Absent, Absent, "continue", Absent),
     llmOnPass |-> TRUE, llmOnFail |-> TRUE, maxRetries |-> 1, inEngineRoot |-> FALSE]

\* A person at the test and verify gates, the project in the engine's own directory.
Supervised ==
    [Shipped EXCEPT !.policy = Policies("skip", "pause", "pause", "pause"),
                    !.inEngineRoot = TRUE]

\* Nobody at any gate: defaults are taken, design has none.
Unattended ==
    [Shipped EXCEPT !.policy = Policies("auto", "auto", "auto", "auto"),
                    !.default = Defaults(Absent, "abort", "abort", "accept"),
                    !.maxRetries = 0]

\* Rule-based verification, gates skipped.
RuleBased ==
    [Shipped EXCEPT !.policy = Policies("skip", "skip", "skip", "skip"),
                    !.llmOnPass = FALSE, !.llmOnFail = FALSE]

\* A person at the test gate only; a rejected verdict is refused by default.
Mixed ==
    [Shipped EXCEPT !.policy = Policies("skip", "skip", "pause", "auto"),
                    !.default = Defaults(Absent, Absent, Absent, "reject"),
                    !.inEngineRoot = TRUE]

MCConfigs     == {Shipped, Supervised, Unattended, RuleBased, Mixed}
\* A write for the pollers may fail where a person is asked at one gate, or nobody is.
MCMaxLost     == [c \in MCConfigs |-> IF c \in {Shipped, Supervised} THEN 0 ELSE 1]
MCSupervised  == {Supervised}
MCShipped     == {Shipped}
MCApproaches  == {"monolith", "services"}
MCOptionLists == {<<>>, <<"monolith", "services">>}
=============================================================================
