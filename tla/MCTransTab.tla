----------------------------- MODULE MCTransTab -----------------------------
(***************************************************************************)
(* A program of three blocks, and a replacement (8) for the first one.     *)
(* Block 1 is in two equivalence classes of guest addresses, the host code *)
(* of block 4 fills a sector and comes of two extents, and blocks 0 and 1  *)
(* collide in the hash tables.                                             *)
(***************************************************************************)
EXTENDS TransTab, TLC

Block(exts, n, exits) == [extents |-> exts, len |-> n, exits |-> exits]

MCCode ==
  (0 :> Block({<<0, 1>>}, 1, (0 :> 1)) @@
   1 :> Block({<<1, 2>>}, 1, (0 :> 4)) @@
   4 :> Block({<<4, 1>>, <<3, 1>>}, 2, (1 :> 0)) @@
   8 :> Block({<<8, 1>>}, 1, (0 :> 1)))

MCEntries == {0, 1, 4}

MCHash == (0 :> 0 @@ 1 :> 0 @@ 4 :> 1 @@ 8 :> 2)

MCRanges == {<<0, 1>>, <<2, 1>>, <<3, 1>>, <<0, 3>>}

MCSpecs == {[from |-> 0, to |-> 8, tag |-> 0, prio |-> 0]}

(* The free slots of a sector are alike. *)
Symmetry == Permutations(TTEno)
=============================================================================
