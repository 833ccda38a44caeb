------------------------------ MODULE CacheSim ------------------------------
(***************************************************************************)
(* The cache simulator: I1, D1 and LL as the client program's references   *)
(* drive them, for a single replacement policy and for the approaches that *)
(* choose among policies (all but LEARNING, and the DIP family, whose      *)
(* functions keep state of their own).                                     *)
(*                                                                         *)
(* The result caches are the globals I1, D1 and LL; each policy of         *)
(* miss_functions has caches of its own.  All of them are referenced       *)
(* through one global function pointer, cachesim_setref_is_miss, which the *)
(* handlers set and do not restore.                                        *)
(***************************************************************************)
EXTENDS CacheRef, MissHistory

CONSTANTS
  miss_functions,  \* the policies run side by side, in order
  Threshold,       \* switching_threshold_parameter
  Approaches,      \* the values of current_cache_replacement_policy under study
  InstrRefs,       \* the instruction references the client may make
  DataRefs,        \* the data references the client may make
  Requests,        \* the policies of cachegrind.h the client may ask for
  MaxRefs          \* bound: the references of a behaviour

ASSUME FreeAssumption == Free = 0

ASSUME MissFunctionsAssumption ==
  miss_functions \in Seq(PolicyNames) /\ Len(miss_functions) # 0

(* A reference is within a line or straddles two, and block 0 is left out:  *)
(* its tag is the value of a way that was never filled.                     *)
ASSUME RefsAssumption ==
  \A ref \in InstrRefs \cup DataRefs : ref \in Seq(Nat \ {0}) /\ Len(ref) \in {1, 2}

(* All the policies of cachegrind.h but DIP, which keeps state of its own.  *)
ASSUME RequestsAssumption == Requests \subseteq {"LRU", "LIP", "RANDOM", "FIFO", "BIP", "ALL"}

VARIABLES
  approach,     \* current_cache_replacement_policy
  requested,    \* current_adaptative_cache_replacement_policy
  asked,        \* history: the policy the client asked for last
  func,         \* cachesim_setref_is_miss
  result,       \* the globals I1, D1, LL
  shadow,       \* per policy, its I1, D1, LL
  histories, selected, blocks, uses, data_blocks, since,  \* see PolicySelection
  imisses,      \* per policy, misses_I1 and misses_IL
  misses_DL,    \* per policy
  counts        \* the client's counters, summed over its lines of code

shadowVars == <<shadow, imisses>>
selectionVars == <<histories, selected, blocks, uses, data_blocks, since>>
vars == <<approach, requested, asked, func, result, shadowVars, selectionVars, misses_DL, counts>>

POLICIES == Len(miss_functions)

Selecting == {"FIXED_WINDOW", "SLIDING_WINDOW", "ONLINE"}

Sel == INSTANCE PolicySelection WITH Approaches <- Approaches \cap Selecting

Policy == 0 .. POLICIES - 1

is_miss_func(i) == miss_functions[i + 1]

EmptyCaches == [I1 |-> EmptyCache(SetsL1), D1 |-> EmptyCache(SetsL1), LL |-> EmptyCache(SetsLL)]

(* cachesim_initcaches.  LRU is the result's policy when the approach is    *)
(* not a single policy.                                                     *)
Init ==
  /\ approach \in Approaches
  /\ requested = "LRU"
  /\ asked = "LRU"
  /\ func = IF approach \in PolicyNames THEN approach ELSE "LRU"
  /\ result = EmptyCaches
  /\ shadow = [i \in Policy |-> EmptyCaches]
  /\ histories = [i \in Policy |-> NewHistory]
  /\ selected = 0
  /\ blocks = 0
  /\ uses = [i \in Policy |-> 0]
  /\ data_blocks = 0
  /\ since = 0
  /\ imisses = [i \in Policy |-> [I1 |-> 0, IL |-> 0]]
  /\ misses_DL = [i \in Policy |-> IF approach = "ONLINE" THEN Window \div 2 ELSE 0]
  /\ counts = [Ir |-> 0, I1mr |-> 0, ILmr |-> 0, Dr |-> 0, D1m |-> 0, DLm |-> 0]

(* Three caches once a reference to I1, or to D1, has had the outcome out.  *)
AfterInstr(c, out) == [I1 |-> out.l1, D1 |-> c.D1, LL |-> out.ll]

AfterData(c, out) == [I1 |-> c.I1, D1 |-> out.l1, LL |-> out.ll]

More == counts.Ir + counts.Dr < MaxRefs

(* One outcome per policy, out of those its own function may have.          *)
ShadowOutcomes(outcomes) ==
  {out \in [Policy -> UNION {outcomes[i] : i \in Policy}] :
     \A i \in Policy : out[i] \in outcomes[i]}

(* The instruction side of every policy, under the approaches that run the  *)
(* policies side by side.                                                   *)
ShadowInstr(ref) ==
  IF approach \in Selecting
  THEN \E out \in ShadowOutcomes([i \in Policy |->
                    LevelOutcomes(is_miss_func(i), shadow[i].I1, shadow[i].LL, ref)]) :
         /\ shadow' = [i \in Policy |-> AfterInstr(shadow[i], out[i])]
         /\ imisses' = [i \in Policy |-> [I1 |-> imisses[i].I1 + out[i].m1,
                                          IL |-> imisses[i].IL + out[i].mL]]
  ELSE UNCHANGED <<shadow, imisses>>

(* The reference to the result caches, counted for the client's line. *)
ResultInstr(f, ref) ==
  \E out \in LevelOutcomes(f, result.I1, result.LL, ref) :
    /\ result' = AfterInstr(result, out)
    /\ counts' = [counts EXCEPT !.Ir = @ + 1, !.I1mr = @ + out.m1, !.ILmr = @ + out.mL]

(* Mutant: the instruction misses are stored in the data history. *)
I1_doref_NoX_stores(ref) ==
  /\ More
  /\ Len(ref) = 1
  /\ ShadowInstr(ref)
  /\ ResultInstr(func, ref)
  /\ histories' = Sel!Stored([i \in Policy |-> imisses'[i].I1 - imisses[i].I1])
  /\ UNCHANGED <<approach, requested, asked, func, selected, blocks, uses, data_blocks, since,
                 misses_DL>>

(* cachesim_I1_doref_NoX: a reference within one line, with the policies'   *)
(* functions called directly.                                               *)
I1_doref_NoX(ref) ==
  /\ More
  /\ Len(ref) = 1
  /\ ShadowInstr(ref)
  /\ ResultInstr(func, ref)
  /\ UNCHANGED <<approach, requested, asked, func, selectionVars, misses_DL>>

(* cachesim_I1_doref_Gen: the loop over the policies leaves the function    *)
(* pointer at the last one, and the result caches are referenced with it.   *)
I1_doref_Gen(ref) ==
  /\ More
  /\ Len(ref) = 2
  /\ ShadowInstr(ref)
  /\ func' = IF approach \in Selecting THEN is_miss_func(POLICIES - 1) ELSE func
  /\ ResultInstr(func', ref)
  /\ UNCHANGED <<approach, requested, asked, selectionVars, misses_DL>>

(* The data side of every policy, whose outcomes at D1 the selection sees.  *)
(* store_misses_history counts misses_DL for windows longer than one.       *)
DataOutcomes(ref) ==
  ShadowOutcomes([i \in Policy |-> LevelOutcomes(is_miss_func(i), shadow[i].D1, shadow[i].LL, ref)])

DataCaches(out) == [i \in Policy |-> AfterData(shadow[i], out[i])]

DataMisses(out) ==
  [i \in Policy |-> IF Window = 1 THEN misses_DL[i] ELSE misses_DL[i] + out[i].mL]

Missed(out) == [i \in Policy |-> out[i].m1]

(* A data reference comes after one to its instruction, which set the       *)
(* pointers missesI1 and missesIL.                                          *)
DataMayCome == More /\ counts.Ir > 0

(* Mutant: nothing is copied. *)
copy_caches_not(caches, best) == caches

(* copy_caches from the best policy to each of the others. *)
copy_caches(caches, best) == [i \in Policy |-> caches[best]]

(* The end of a window: the caches of the best policy go to the others, its *)
(* misses to the client's counters, and every policy's are cleared.         *)
ChargeBest(out) ==
  LET best == Sel!MinMissesPolicy(approach, Sel!Stored(Missed(out)))
  IN  /\ shadow' = copy_caches(DataCaches(out), best)
      /\ counts' = [counts EXCEPT !.Dr = @ + 1,
                                  !.D1m = @ + Sel!Stored(Missed(out))[best].misses,
                                  !.DLm = @ + DataMisses(out)[best],
                                  !.I1mr = @ + imisses[best].I1,
                                  !.ILmr = @ + imisses[best].IL]
      /\ imisses' = [i \in Policy |-> [I1 |-> 0, IL |-> 0]]
      /\ misses_DL' = [i \in Policy |-> 0]

(* cachesim_D1_doref under FIXED_WINDOW: it returns without referencing the *)
(* result caches.                                                           *)
D1_doref_fixed(ref) ==
  /\ DataMayCome
  /\ approach = "FIXED_WINDOW"
  /\ \E out \in DataOutcomes(ref) :
       \/ /\ Sel!FillWindow(Missed(out))
          /\ shadow' = DataCaches(out)
          /\ misses_DL' = DataMisses(out)
          /\ counts' = [counts EXCEPT !.Dr = @ + 1]
          /\ UNCHANGED imisses
       \/ /\ Sel!CloseWindow(Missed(out))
          /\ ChargeBest(out)
  /\ func' = is_miss_func(POLICIES - 1)
  /\ UNCHANGED <<requested, asked, result>>

(* Mutant: the result caches are referenced with the pointer the loop left. *)
FunctionForResult_last(sel) == is_miss_func(POLICIES - 1)

(* The pointer with which the switching approaches reference the result.    *)
FunctionForResult(sel) == is_miss_func(sel)

(* The last lines of cachesim_D1_doref. *)
ResultData(f, ref) ==
  \E out \in LevelOutcomes(f, result.D1, result.LL, ref) :
    /\ result' = AfterData(result, out)
    /\ counts' = [counts EXCEPT !.Dr = @ + 1, !.D1m = @ + out.m1, !.DLm = @ + out.mL]

(* SLIDING_WINDOW and ONLINE reference the result caches with the function  *)
(* of the policy they settled on.                                           *)
D1_doref_switching(ref) ==
  /\ DataMayCome
  /\ approach \in {"SLIDING_WINDOW", "ONLINE"}
  /\ \E out \in DataOutcomes(ref) :
       /\ Sel!Reselect(Missed(out))
       /\ shadow' = DataCaches(out)
       /\ misses_DL' = DataMisses(out)
  /\ func' = FunctionForResult(selected')
  /\ ResultData(func', ref)
  /\ UNCHANGED <<requested, asked, imisses>>

D1_doref_single(ref) ==
  /\ DataMayCome
  /\ approach \in PolicyNames
  /\ data_blocks' = (data_blocks + 1) % ULongSize
  /\ ResultData(func, ref)
  /\ UNCHANGED <<approach, requested, asked, func, shadowVars, misses_DL,
                 histories, selected, blocks, uses, since>>

(* ADAPTATIVE uses the policy the client asked for, NAIVE throws for one of *)
(* the four.  LIP is not among the policies whose uses are counted.         *)
D1_doref_adaptative(ref) ==
  /\ DataMayCome
  /\ approach \in {"ADAPTATIVE", "NAIVE"}
  /\ requested' \in IF approach = "NAIVE" THEN {"LRU", "RANDOM", "FIFO", "BIP"} ELSE {requested}
  /\ func' = IF requested' \in PolicyNames THEN requested' ELSE "LRU"
  /\ uses' = [i \in Policy |-> IF is_miss_func(i) = func' THEN (uses[i] + 1) % ULongSize
                                                          ELSE uses[i]]
  /\ data_blocks' = (data_blocks + 1) % ULongSize
  /\ ResultData(func', ref)
  /\ UNCHANGED <<approach, asked, shadowVars, misses_DL, histories, selected, blocks, since>>

(* The numbers of the policies, from 0, in the client's cachegrind.h and in *)
(* the tool's cg_arch.h.                                                    *)
Cg_CachePolicy == <<"LRU", "LIP", "RANDOM", "FIFO", "BIP", "DIP", "ALL">>

ToolPolicy == <<"LRU", "RANDOM", "FIFO", "BIP", "LIP", "DIP", "DIP3", "DIP3_AGEING">>

(* The client request for policy p passes its number. *)
cg_set_cache_replacement_policy(p) ==
  /\ asked # p
  /\ asked' = p
  /\ \E n \in 1 .. Len(Cg_CachePolicy) : Cg_CachePolicy[n] = p /\ requested' = ToolPolicy[n]
  /\ UNCHANGED <<approach, func, result, shadowVars, selectionVars, misses_DL, counts>>

Next ==
  \/ \E ref \in InstrRefs : I1_doref_NoX(ref) \/ I1_doref_Gen(ref)
  \/ \E ref \in DataRefs : \/ D1_doref_fixed(ref)
                            \/ D1_doref_switching(ref)
                            \/ D1_doref_single(ref)
                            \/ D1_doref_adaptative(ref)
  \/ \E p \in Requests : cg_set_cache_replacement_policy(p)

Spec == Init /\ [][Next]_vars

-----------------------------------------------------------------------------

(* The three caches of the result or of a policy. *)
Caches == [I1 : [0 .. SetsL1 - 1 -> [Ways -> Nat]],
           D1 : [0 .. SetsL1 - 1 -> [Ways -> Nat]],
           LL : [0 .. SetsLL - 1 -> [Ways -> Nat]]]

(* The caches of the simulator: the result's and every policy's. *)
AllCaches == {result} \cup {shadow[i] : i \in Policy}

Sane(cache, sets) ==
  \A s \in 0 .. sets - 1, v, w \in Ways :
    cache[s][v] # Free => /\ cache[s][v] % sets = s
                          /\ cache[s][v] = cache[s][w] => v = w

(* Whatever policies take turns on a cache, and whatever is copied from one *)
(* policy's caches to another's, no cache holds a block twice or in a set   *)
(* where no reference would look for it.                                    *)
CachesSane ==
  \A c \in AllCaches : Sane(c.I1, SetsL1) /\ Sane(c.D1, SetsL1) /\ Sane(c.LL, SetsLL)

(* A data reference is counted as one miss at most at each level, however   *)
(* many lines it straddles and whichever policy's caches it is charged      *)
(* from, and LL never misses more often than D1.                            *)
OneMissPerDataRef == counts.D1m <= counts.Dr /\ counts.DLm <= counts.D1m

(* The same of the instruction references. *)
OneMissPerInstrRef == counts.I1mr <= counts.Ir /\ counts.ILmr <= counts.I1mr

(* Both, but for the instruction misses that FIXED_WINDOW charges at the    *)
(* end of a window: SLIDING_WINDOW and ONLINE run every policy, and report  *)
(* the misses of the result caches alone.                                   *)
MissesCountOnce ==
  OneMissPerDataRef /\ (approach # "FIXED_WINDOW" => OneMissPerInstrRef)

(* Until the first switch the result's D1 is the D1 of the first policy,    *)
(* and the misses reported are that policy's.                               *)
ResultIsFirstUntilSwitch ==
  approach \in {"SLIDING_WINDOW", "ONLINE"} /\ (\A i \in Policy \ {0} : uses[i] = 0) =>
    result.D1 = shadow[0].D1 /\ counts.D1m = histories[0].misses

(* At the start of a window all policies have the same data cache. *)
WindowStartsEqual ==
  approach = "FIXED_WINDOW" /\ blocks = 0 => \A i, j \in Policy : shadow[i].D1 = shadow[j].D1

(* A program that ends within a window leaves its references uncharged: the *)
(* misses reported are those of the windows that were closed.               *)
ClosedWindowsAreCharged ==
  approach = "FIXED_WINDOW" => counts.D1m <= counts.Dr - blocks

(* The switching approaches reference the result caches with the function   *)
(* of the policy that performs better at the moment.                        *)
ResultUsesSelected ==
  approach \in {"SLIDING_WINDOW", "ONLINE"} => func = is_miss_func(selected)

(* ADAPTATIVE runs the policy selected in the client's code. *)
AdaptativeUsesAsked ==
  [][approach = "ADAPTATIVE" /\ counts'.Dr # counts.Dr => func' = asked]_vars

(* Under an approach that chooses among policies the simulator implements   *)
(* PolicySelection: only data references move the choice, and they move it  *)
(* as specified there.                                                      *)
SelectsAsSpecified ==
  /\ approach \in Selecting => Sel!Init
  /\ [][(approach \in Selecting) => Sel!Next]_(Sel!selectionVars)
=============================================================================
