----------------------------- MODULE BuildFlow -----------------------------
(***************************************************************************)
(* What the build pipeline promises, without saying how: an invocation     *)
(* takes the stages in their order, one at a time; the only way back is    *)
(* the retry edge from test to implement, at most "budget" times; a        *)
(* stage that was refused by a recorded answer is never passed; and a      *)
(* build counts as built only after the last stage was passed.             *)
(*                                                                         *)
(* Pipeline.tla is shown to implement this specification.                  *)
(***************************************************************************)
EXTENDS Integers

VARIABLES
    budget,     \* the retry budget, fixed
    pos,        \* the stage to run next, 1 (init) .. 8 (complete); 9 = past the end
    mode,       \* "active" while an invocation runs, "waiting" at a gate, else "stopped"
    outcome,    \* "open", "built" or "abandoned"
    refused,    \* an answer that refuses the build was recorded at this stage
    retries     \* retry edges taken by this invocation

flowVars == <<budget, pos, mode, outcome, refused, retries>>

ImplementPos == 4
TestPos      == 6
CompletePos  == 8
OverPos      == 9

FlowInit ==
    /\ budget \in Nat
    /\ pos = 1
    /\ mode = "stopped"
    /\ outcome = "open"
    /\ refused = FALSE
    /\ retries = 0

\* An invocation starts the stages from the first one.
Begin ==
    /\ mode # "active"
    /\ pos' = 1 /\ mode' = "active" /\ outcome' = "open"
    /\ refused' = FALSE /\ retries' = 0

Advance ==
    /\ mode = "active" /\ pos < CompletePos /\ ~refused
    /\ pos' = pos + 1
    /\ UNCHANGED <<mode, outcome, refused, retries>>

Retry ==
    /\ mode = "active" /\ pos = TestPos /\ ~refused /\ retries < budget
    /\ pos' = ImplementPos
    /\ retries' = retries + 1
    /\ UNCHANGED <<mode, outcome, refused>>

Build ==
    /\ mode = "active" /\ pos = CompletePos /\ ~refused
    /\ pos' = OverPos /\ outcome' = "built"
    /\ UNCHANGED <<mode, refused, retries>>

Abandon ==
    /\ mode = "active" /\ pos < CompletePos
    /\ pos' = OverPos /\ outcome' = "abandoned"
    /\ UNCHANGED <<mode, refused, retries>>

Refuse ==
    /\ mode = "active" /\ pos < CompletePos
    /\ refused' = TRUE
    /\ UNCHANGED <<pos, mode, outcome, retries>>

\* The invocation waits for an answer, returns, or dies where it stands.
Leave ==
    /\ mode = "active"
    /\ \/ mode' = "waiting" /\ pos < CompletePos /\ ~refused
       \/ mode' = "stopped"
    /\ UNCHANGED <<pos, outcome, refused, retries>>

\* An answer wakes the invocation at the stage where it stood.
Wake ==
    /\ mode # "active" /\ pos < OverPos
    /\ mode' = "active"
    /\ UNCHANGED <<pos, outcome, refused, retries>>

FlowNext ==
    /\ Begin \/ Advance \/ Retry \/ Build \/ Abandon \/ Refuse \/ Leave \/ Wake
    /\ UNCHANGED budget

FlowSpec == FlowInit /\ [][FlowNext]_flowVars
=============================================================================
