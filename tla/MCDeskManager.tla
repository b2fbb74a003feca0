---------------------------- MODULE MCDeskManager ----------------------------
(***************************************************************************)
(* An instance of DeskManager: two peripherals of one name.  Nothing tells *)
(* them apart, and what is checked is of single states and steps.          *)
(***************************************************************************)
EXTENDS DeskManager, TLC

Alike == Permutations(Peripherals)
=============================================================================
