---------------------------- MODULE MCDuelingSim ----------------------------
(***************************************************************************)
(* Values for the constants of DuelingSim that a configuration cannot      *)
(* write.                                                                  *)
(***************************************************************************)
EXTENDS DuelingSim

MCFour == <<"LRU", "FIFO", "BIP", "RANDOM">>

MCInstr == {<<5, 6>>}

(* Of the four sets of D1, set 0 follows and the others lead; three blocks  *)
(* compete for the two ways of set 0.                                       *)
MCData == {<<4>>, <<8>>, <<12>>, <<1, 2>>}
=============================================================================
