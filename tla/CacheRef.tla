------------------------------ MODULE CacheRef ------------------------------
(***************************************************************************)
(* A reference to a cache (cachesim_ref_is_miss) and to a level-one cache  *)
(* backed by LL.  A cache is a function from set numbers to sets; a        *)
(* reference is the sequence of the blocks it touches: one, or two         *)
(* consecutive ones when it straddles a line.  The number of sets is a     *)
(* power of two, so that block & sets_min_1 is block % sets, and the lines *)
(* have the same size at every level.                                      *)
(***************************************************************************)
EXTENDS CacheSet, Sequences

CONSTANTS
  SetsL1,  \* the sets of I1 and of D1
  SetsLL   \* the sets of LL

ASSUME SetsAssumption == SetsL1 \in Nat \ {0} /\ SetsLL \in Nat \ {0}

EmptyCache(sets) == [s \in 0 .. sets - 1 |-> EmptySet]

(* cachesim_setref_is_miss called through the function pointer: what the    *)
(* cache may hold on return, and whether it returns True (1) or False (0).  *)
SetrefOutcomes(sets, func, cache, block) ==
  LET s == block % sets
  IN  {[cache |-> [cache EXCEPT ![s] = new], miss |-> IF Hit(cache[s], block) THEN 0 ELSE 1] :
         new \in Setref(func, cache[s], block)}

(* A reference that straddles two lines always does both, and misses once   *)
(* when either misses.                                                      *)
RefOutcomes(sets, func, cache, ref) ==
  IF Len(ref) = 1 THEN SetrefOutcomes(sets, func, cache, ref[1])
  ELSE UNION {{[cache |-> q.cache, miss |-> IF p.miss = 1 THEN 1 ELSE q.miss] :
                 q \in SetrefOutcomes(sets, func, p.cache, ref[2])} :
                p \in SetrefOutcomes(sets, func, cache, ref[1])}

(* Mutant: LL is referenced, and its miss counted, whatever level one did.  *)
LevelOutcomes_always(func, l1, ll, ref) ==
  {[l1 |-> p.cache, ll |-> q.cache, m1 |-> p.miss, mL |-> q.miss] :
     p \in RefOutcomes(SetsL1, func, l1, ref), q \in RefOutcomes(SetsLL, func, ll, ref)}

(* A level-one reference, followed by one to LL when it misses. *)
LevelOutcomes(func, l1, ll, ref) ==
  UNION {IF p.miss = 1
         THEN {[l1 |-> p.cache, ll |-> q.cache, m1 |-> 1, mL |-> q.miss] :
                 q \in RefOutcomes(SetsLL, func, ll, ref)}
         ELSE {[l1 |-> p.cache, ll |-> ll, m1 |-> 0, mL |-> 0]} :
           p \in RefOutcomes(SetsL1, func, l1, ref)}
=============================================================================
