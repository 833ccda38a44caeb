------------------------------ MODULE CacheSet ------------------------------
(***************************************************************************)
(* One set of a set-associative cache, and what each replacement function  *)
(* of cg_sim.c does to it.  A set is the array tags[set_no * assoc ..] of  *)
(* cache_t2: a function from ways to tags whose way 0 is the MRU end and   *)
(* whose way Assoc - 1 is the LRU end.                                     *)
(*                                                                         *)
(* Every function cachesim_setref_is_miss_<p> scans the ways for the tag,  *)
(* returns False when it finds it and True when it does not; they differ   *)
(* in where the tag is afterwards.  So a miss is ~Hit(set, tag) for each   *)
(* of them, and setref_<p> is the contents of the set on return.           *)
(***************************************************************************)
EXTENDS Integers

CONSTANTS
  Assoc,    \* cache_t2.assoc
  Free,     \* the value 0 that cachesim_initcache stores in every way
  Throttle  \* bip_throttle_parameter, in hundredths

ASSUME AssocAssumption == Assoc \in Nat \ {0}

ASSUME ThrottleAssumption == Throttle \in 0 .. 100

Ways == 0 .. Assoc - 1

EmptySet == [i \in Ways |-> Free]

(* The blocks a set holds. *)
Blocks(set) == {set[i] : i \in Ways} \ {Free}

Hit(set, tag) == \E i \in Ways : set[i] = tag

(* The way at which the scan for i = 0, 1, ... stops. *)
HitWay(set, tag) == CHOOSE i \in Ways : /\ set[i] = tag
                                        /\ \A j \in Ways : j < i => set[j] # tag

(* Mutant: the ways before the hit are not shuffled down. *)
MoveToFront_noShift(set, w) == [set EXCEPT ![0] = set[w]]

(* A hit in the LRU-ordered policies: the tag moves into the MRU spot and   *)
(* the ways before it are shuffled down.  Nothing moves when w = 0.         *)
MoveToFront(set, w) ==
  [i \in Ways |-> IF i = 0 THEN set[w] ELSE IF i <= w THEN set[i - 1] ELSE set[i]]

(* Mutant: the shuffle runs upwards and overwrites what it has yet to copy. *)
InstallAtMRU_upwards(set, tag) == [i \in Ways |-> IF i = 0 THEN tag ELSE set[0]]

(* A miss that installs the tag as MRU: the tag in the LRU way is lost. *)
InstallAtMRU(set, tag) ==
  [i \in Ways |-> IF i = 0 THEN tag ELSE set[i - 1]]

(* A miss that overwrites one way. *)
InstallAt(set, tag, w) == [set EXCEPT ![w] = tag]

(* Mutant: a hit does not count as a use. *)
setref_lru_noUse(set, tag) ==
  IF Hit(set, tag) THEN set ELSE InstallAtMRU(set, tag)

setref_lru(set, tag) ==
  IF Hit(set, tag) THEN MoveToFront(set, HitWay(set, tag)) ELSE InstallAtMRU(set, tag)

setref_lip(set, tag) ==
  IF Hit(set, tag) THEN MoveToFront(set, HitWay(set, tag))
                   ELSE InstallAt(set, tag, Assoc - 1)

(* Mutant: a hit renews the block. *)
setref_fifo_renew(set, tag) ==
  IF Hit(set, tag) THEN MoveToFront(set, HitWay(set, tag)) ELSE InstallAtMRU(set, tag)

setref_fifo(set, tag) ==
  IF Hit(set, tag) THEN set ELSE InstallAtMRU(set, tag)

(* w is VG_(random)(NULL) % c->assoc. *)
setref_random(set, tag, w) ==
  IF Hit(set, tag) THEN set ELSE InstallAt(set, tag, w)

(* Mutant: BIP is left as the copy of LIP it was made from. *)
setref_bip_asLip(set, tag, atMRU) == setref_lip(set, tag)

(* atMRU is the outcome of the throw prob < bip_throttle_parameter * 100. *)
setref_bip(set, tag, atMRU) ==
  IF atMRU THEN setref_lru(set, tag) ELSE setref_lip(set, tag)

(* The outcomes of that throw: the parameter 1.0 makes BIP behave like LRU, *)
(* 0.0 like LIP; in between a throw from 1 to 100 decides.                  *)
BipThrows ==
  {atMRU \in BOOLEAN : IF Throttle \in {0, 100} THEN atMRU = (Throttle = 100)
                       ELSE \E prob \in 1 .. 100 : atMRU = (prob < Throttle)}

(* The replacement functions that keep no state besides the set. *)
PolicyNames == {"LRU", "LIP", "FIFO", "BIP", "RANDOM"}

(* What a set may hold after a reference under one of the replacement       *)
(* functions cachesim_setref_is_miss can point to.                          *)
Setref(policy, set, tag) ==
  CASE policy = "LRU"    -> {setref_lru(set, tag)}
    [] policy = "LIP"    -> {setref_lip(set, tag)}
    [] policy = "FIFO"   -> {setref_fifo(set, tag)}
    [] policy = "BIP"    -> {setref_bip(set, tag, atMRU) : atMRU \in BipThrows}
    [] policy = "RANDOM" -> {setref_random(set, tag, w) : w \in Ways}
=============================================================================
