----------------------------- MODULE MCLauncher -----------------------------
(***************************************************************************)
(* Two sessions on one project, which are alike: every property is about   *)
(* safety, so their permutations may be taken for one.                     *)
(***************************************************************************)
EXTENDS Launcher, TLC

SessionsAreAlike == Permutations(Sessions)
=============================================================================
