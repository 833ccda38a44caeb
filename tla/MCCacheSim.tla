----------------------------- MODULE MCCacheSim -----------------------------
(***************************************************************************)
(* Values for the constants of CacheSim that a configuration cannot write. *)
(* Two policies stand for the four of cg_sim.c: LRU comes first and RANDOM *)
(* last there too.                                                         *)
(***************************************************************************)
EXTENDS CacheSim

MCLruBip == <<"LRU", "BIP">>

MCFour == <<"LRU", "FIFO", "BIP", "RANDOM">>

(* A fetch within a line, and one that straddles two. *)
MCInstr == {<<5>>}

MCInstrStraddling == {<<5>>, <<5, 6>>}

MCData == {<<1>>, <<2>>, <<3>>}

MCDataStraddling == {<<1>>, <<3>>, <<2, 3>>}
=============================================================================
