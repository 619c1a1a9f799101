------------------------------ MODULE MCPoker ------------------------------
(* Instances of Poker for TLC: the configurations give every constant. *)
EXTENDS Poker
=============================================================================
