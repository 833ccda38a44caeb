-------------------------- MODULE CacheSim_proofs ---------------------------
(***************************************************************************)
(* Proofs about the simulator, for every geometry, every list of policies, *)
(* every window and every set of references.                               *)
(***************************************************************************)
EXTENDS CacheSim, Operators_proofs

GoodCaches(c) ==
  /\ c \in Caches
  /\ GoodCache(c.I1, SetsL1)
  /\ GoodCache(c.D1, SetsL1)
  /\ GoodCache(c.LL, SetsLL)

(* The caches of the start are good. *)
LEMMA EmptyIsGood == GoodCaches(EmptyCaches)
<1>1. ASSUME NEW sets \in Nat \ {0}
      PROVE  GoodCache(EmptyCache(sets), sets)
  BY FreeAssumption DEF GoodCache, EmptyCache, EmptySet, Contents, Distinct
<1>2. GoodCache(EmptyCache(SetsL1), SetsL1) /\ GoodCache(EmptyCache(SetsLL), SetsLL)
  BY <1>1, SetsAssumption
<1> QED
  BY <1>2 DEF GoodCaches, EmptyCaches, Caches, GoodCache

(* An outcome with one miss at most at each level, at LL only if at level   *)
(* one.                                                                     *)
MissesOnce(out) == out.m1 \in Outcomes /\ out.mL \in Outcomes /\ out.mL <= out.m1

(* Three good caches. *)
LEMMA ThreeAreGood ==
  ASSUME NEW i1, GoodCache(i1, SetsL1), NEW d1, GoodCache(d1, SetsL1), NEW ll, GoodCache(ll, SetsLL)
  PROVE  GoodCaches([I1 |-> i1, D1 |-> d1, LL |-> ll])
  BY DEF GoodCaches, Caches, GoodCache

(* Good caches stay good when one of them is referenced. *)
LEMMA ReferencedAreGood ==
  ASSUME NEW c, GoodCaches(c), NEW f \in PolicyNames, NEW ref \in Refs
  PROVE  /\ \A out \in LevelOutcomes(f, c.I1, c.LL, ref) :
              GoodCaches(AfterInstr(c, out)) /\ MissesOnce(out)
         /\ \A out \in LevelOutcomes(f, c.D1, c.LL, ref) :
              GoodCaches(AfterData(c, out)) /\ MissesOnce(out)
<1>1. /\ GoodCache(c.I1, SetsL1)
      /\ GoodCache(c.D1, SetsL1)
      /\ GoodCache(c.LL, SetsLL)
  BY DEF GoodCaches
<1> QED
  BY <1>1, FreeAssumption, ThreeAreGood, LevelOutcomesGood DEF AfterInstr, AfterData, MissesOnce

(* Besides good caches, the function pointer is one of the policies' and    *)
(* the histories that choose the caches to copy are records of the policies.*)
IInv ==
  /\ approach \in Approaches
  /\ func \in PolicyNames
  /\ GoodCaches(result)
  /\ shadow \in [Policy -> Caches]
  /\ \A i \in Policy : GoodCaches(shadow[i])
  /\ histories \in [Policy -> History]
  /\ selected \in Policy

(* The policies are the functions of the list. *)
LEMMA PoliciesAreNamed ==
  /\ POLICIES \in Nat \ {0}
  /\ POLICIES - 1 \in Policy
  /\ \A i \in Policy : is_miss_func(i) \in PolicyNames
<1>1. POLICIES \in Nat \ {0}
  BY MissFunctionsAssumption DEF POLICIES
<1>2. \A i \in Policy : i + 1 \in 1 .. Len(miss_functions)
  BY <1>1 DEF Policy, POLICIES
<1>3. \A i \in Policy : is_miss_func(i) \in PolicyNames
  BY <1>2, MissFunctionsAssumption DEF is_miss_func
<1> QED
  BY <1>1, <1>3 DEF Policy

(* The simulator starts in the invariant. *)
LEMMA InitIInv == Init => IInv
<1> SUFFICES ASSUME Init PROVE IInv
  OBVIOUS
<1>1. func \in PolicyNames
  BY DEF Init, PolicyNames
<1>2. NewHistory \in History
  BY NewHistoryCounts
<1>3. GoodCaches(EmptyCaches) /\ EmptyCaches \in Caches
  BY EmptyIsGood DEF GoodCaches
<1>4. 0 \in Policy
  BY PoliciesAreNamed DEF Policy
<1> QED
  BY <1>1, <1>2, <1>3, <1>4 DEF Init, IInv

(* The operators of the selection are those of MissHistory. *)
LEMMA SelStores ==
  ASSUME IInv, NEW missed \in [Policy -> Outcomes]
  PROVE  /\ Sel!Stored(missed) = [i \in Policy |-> store_misses_history(histories[i], missed[i])]
         /\ Sel!Stored(missed) \in [Policy -> History]
<1>1. \A h, v : Sel!store_misses_history(h, v) = store_misses_history(h, v)
  BY DEF Sel!store_misses_history, store_misses_history, Sel!NextSlot, NextSlot,
         Sel!NewHistoric, NewHistoric, Sel!NewOnline, NewOnline, Sel!Clamp, Clamp
<1>2. Sel!Stored(missed) = [i \in Policy |-> store_misses_history(histories[i], missed[i])]
  BY <1>1 DEF Sel!Stored, Sel!Policy, Policy
<1>3. \A i \in Policy : store_misses_history(histories[i], missed[i]) \in History
  BY StoreIsHistory DEF IInv
<1> QED
  BY <1>2, <1>3

(* The best policy is one of the policies. *)
LEMMA BestIsPolicy ==
  ASSUME NEW app, NEW hs \in [Policy -> History]
  PROVE  Sel!MinMissesPolicy(app, hs) \in Policy
<1> DEFINE sc == [i \in Policy |-> Sel!Score(app, hs[i])]
<1>1. sc \in [Policy -> Nat]
  BY WindowAssumption DEF Sel!Score, History
<1> HIDE DEF sc
<1>2. \E i \in Policy : \A j \in Policy : sc[i] <= sc[j] /\ (j < i => sc[i] < sc[j])
  BY <1>1, FirstLeast, PoliciesAreNamed, Zenon DEF Policy
<1>3. Sel!Policy = Policy
  BY DEF Sel!Policy, Policy
<1> QED
  BY <1>2, <1>3 DEF Sel!MinMissesPolicy, sc

(* A window restarted is a record. *)
LEMMA RestartedIsHistory ==
  ASSUME NEW h \in History
  PROVE  Sel!Restarted(h) \in History
<1>1. /\ h.counter \in Slots /\ h.online \in 0 .. Window /\ 0 \in 0 .. Window
      /\ 0 \in 0 .. ULongSize - 1 /\ [k \in Slots |-> 0] \in [Slots -> Outcomes]
  BY WindowAssumption, ULongAssumption DEF History, Outcomes
<1> QED
  BY <1>1 DEF Sel!Restarted, History, Sel!Slots, Slots

(* The policies' caches, all good. *)
GoodShadow(sh) == sh \in [Policy -> Caches] /\ \A i \in Policy : GoodCaches(sh[i])

(* The instruction side of the policies keeps their caches good. *)
LEMMA ShadowInstrGood ==
  ASSUME IInv, NEW ref \in Refs, ShadowInstr(ref)
  PROVE  GoodShadow(shadow')
<1>1. CASE approach \in Selecting
  <2>1. PICK out :
          /\ \A i \in Policy :
               out[i] \in LevelOutcomes(is_miss_func(i), shadow[i].I1, shadow[i].LL, ref)
          /\ shadow' = [i \in Policy |-> AfterInstr(shadow[i], out[i])]
    BY <1>1 DEF ShadowInstr, ShadowOutcomes
  <2>2. \A i \in Policy : GoodCaches(AfterInstr(shadow[i], out[i]))
    BY <2>1, ReferencedAreGood, PoliciesAreNamed, Zenon DEF IInv
  <2> QED
    BY <2>1, <2>2 DEF GoodShadow, GoodCaches
<1>2. CASE approach \notin Selecting
  BY <1>2 DEF ShadowInstr, GoodShadow, IInv
<1> QED
  BY <1>1, <1>2

(* So does the data side, which yields an outcome per policy. *)
LEMMA DataOutcomesGood ==
  ASSUME IInv, NEW ref \in Refs, NEW out \in DataOutcomes(ref)
  PROVE  /\ GoodShadow(DataCaches(out))
         /\ Missed(out) \in [Policy -> Outcomes]
         /\ \A i \in Policy : MissesOnce(out[i])
<1>1. \A i \in Policy :
        out[i] \in LevelOutcomes(is_miss_func(i), shadow[i].D1, shadow[i].LL, ref)
  BY DEF DataOutcomes, ShadowOutcomes
<1>2. \A i \in Policy : GoodCaches(AfterData(shadow[i], out[i])) /\ MissesOnce(out[i])
  BY <1>1, ReferencedAreGood, PoliciesAreNamed DEF IInv
<1> QED
  BY <1>2 DEF GoodShadow, GoodCaches, DataCaches, Missed, MissesOnce

(* The references to the result keep its caches good. *)
LEMMA ResultGood ==
  ASSUME IInv, NEW f \in PolicyNames, NEW ref \in Refs, ResultInstr(f, ref) \/ ResultData(f, ref)
  PROVE  GoodCaches(result')
<1>0. GoodCaches(result)
  BY DEF IInv
<1>1. CASE ResultInstr(f, ref)
  <2>1. \E out \in LevelOutcomes(f, result.I1, result.LL, ref) : result' = AfterInstr(result, out)
    BY <1>1, Zenon DEF ResultInstr
  <2> QED
    BY <1>0, <2>1, ReferencedAreGood
<1>2. CASE ResultData(f, ref)
  <2>1. \E out \in LevelOutcomes(f, result.D1, result.LL, ref) : result' = AfterData(result, out)
    BY <1>2, Zenon DEF ResultData
  <2> QED
    BY <1>0, <2>1, ReferencedAreGood
<1> QED
  BY <1>1, <1>2

(* Every step keeps the invariant. *)
LEMMA NextIInv == IInv /\ [Next]_vars => IInv'
<1> SUFFICES ASSUME IInv, [Next]_vars PROVE IInv'
  OBVIOUS
<1>0. InstrRefs \subseteq Refs /\ DataRefs \subseteq Refs
  BY RefsAssumption DEF Refs
<1>a. approach' \in Approaches
  <2>1. approach' = approach
    BY DEF Next, vars, I1_doref_NoX, I1_doref_Gen, D1_doref_fixed, D1_doref_switching, D1_doref_single,
           D1_doref_adaptative, cg_set_cache_replacement_policy, Sel!FillWindow, Sel!CloseWindow,
           Sel!Reselect
  <2> QED
    BY <2>1, Zenon DEF IInv
<1>1. ASSUME NEW ref \in InstrRefs, I1_doref_NoX(ref)
      PROVE  IInv'
  <2>1. GoodShadow(shadow') /\ GoodCaches(result')
    BY <1>0, <1>1, ShadowInstrGood, ResultGood DEF I1_doref_NoX, IInv
  <2>2. func' = func /\ histories' = histories /\ selected' = selected
    BY <1>1 DEF I1_doref_NoX, selectionVars
  <2> QED
    BY <1>a, <2>1, <2>2 DEF IInv, GoodShadow
<1>2. ASSUME NEW ref \in InstrRefs, I1_doref_Gen(ref)
      PROVE  IInv'
  <2>1. func' \in PolicyNames
    BY <1>2, PoliciesAreNamed DEF I1_doref_Gen, IInv
  <2>2. GoodShadow(shadow') /\ GoodCaches(result')
    BY <1>0, <1>2, <2>1, ShadowInstrGood, ResultGood, Zenon DEF I1_doref_Gen
  <2>3. histories' = histories /\ selected' = selected
    BY <1>2 DEF I1_doref_Gen, selectionVars
  <2> QED
    BY <1>a, <2>1, <2>2, <2>3 DEF IInv, GoodShadow
<1>3. ASSUME NEW ref \in DataRefs, D1_doref_fixed(ref)
      PROVE  IInv'
  <2>1. PICK out \in DataOutcomes(ref) :
          \/ Sel!FillWindow(Missed(out)) /\ shadow' = DataCaches(out)
          \/ Sel!CloseWindow(Missed(out)) /\ ChargeBest(out)
    BY <1>3 DEF D1_doref_fixed
  <2>2. GoodShadow(DataCaches(out)) /\ Missed(out) \in [Policy -> Outcomes]
    BY <1>0, DataOutcomesGood
  <2>3. Sel!Stored(Missed(out)) \in [Policy -> History]
    BY <2>2, SelStores
  <2>4. func' \in PolicyNames /\ result' = result /\ selected' = selected
    BY <1>3, PoliciesAreNamed DEF D1_doref_fixed, Sel!FillWindow, Sel!CloseWindow
  <2>5. CASE Sel!FillWindow(Missed(out)) /\ shadow' = DataCaches(out)
    <3>1. histories' = Sel!Stored(Missed(out))
      BY <2>5 DEF Sel!FillWindow
    <3> QED
      BY <1>a, <2>2, <2>3, <2>4, <2>5, <3>1, Zenon DEF IInv, GoodShadow
  <2>6. CASE Sel!CloseWindow(Missed(out)) /\ ChargeBest(out)
    <3>1. histories' = [i \in Policy |-> Sel!Restarted(Sel!Stored(Missed(out))[i])]
      BY <2>6 DEF Sel!CloseWindow, Sel!Policy, Policy
    <3>2. \A i \in Policy : Sel!Restarted(Sel!Stored(Missed(out))[i]) \in History
      BY <2>3, RestartedIsHistory
    <3>3. histories' \in [Policy -> History]
      BY <3>1, <3>2
    <3>4. PICK best \in Policy : shadow' = [i \in Policy |-> DataCaches(out)[best]]
      BY <2>3, <2>6, BestIsPolicy DEF ChargeBest, copy_caches
    <3>5. GoodShadow(shadow')
      BY <2>2, <3>4 DEF GoodShadow
    <3> QED
      BY <1>a, <2>4, <3>3, <3>5, Zenon DEF IInv, GoodShadow
  <2> QED
    BY <2>1, <2>5, <2>6
<1>4. ASSUME NEW ref \in DataRefs, D1_doref_switching(ref)
      PROVE  IInv'
  <2>1. PICK out \in DataOutcomes(ref) :
          Sel!Reselect(Missed(out)) /\ shadow' = DataCaches(out)
    BY <1>4 DEF D1_doref_switching
  <2>2. GoodShadow(shadow') /\ Missed(out) \in [Policy -> Outcomes]
    BY <1>0, <2>1, DataOutcomesGood, Zenon
  <2>3. histories' = Sel!Stored(Missed(out))
    BY <2>1 DEF Sel!Reselect
  <2>4. histories' \in [Policy -> History]
    BY <2>2, <2>3, SelStores, Zenon
  <2>5. selected' \in Policy
    <3>1. selected' = Sel!Selection(approach, Sel!Stored(Missed(out)), selected)
      BY <2>1 DEF Sel!Reselect
    <3>2. Sel!MinMissesPolicy(approach, Sel!Stored(Missed(out))) \in Policy
      BY <2>3, <2>4, BestIsPolicy
    <3> QED
      BY <3>1, <3>2 DEF Sel!Selection, IInv
  <2>6. func' \in PolicyNames
    BY <1>4, <2>5, PoliciesAreNamed DEF D1_doref_switching, FunctionForResult
  <2>7. GoodCaches(result')
    BY <1>0, <1>4, <2>6, ResultGood, Zenon DEF D1_doref_switching
  <2> QED
    BY <1>a, <2>2, <2>4, <2>5, <2>6, <2>7, Zenon DEF IInv, GoodShadow
<1>5. ASSUME NEW ref \in DataRefs, D1_doref_single(ref)
      PROVE  IInv'
  <2>1. GoodCaches(result')
    BY <1>0, <1>5, ResultGood, Zenon DEF D1_doref_single, IInv
  <2> QED
    BY <1>5, <2>1 DEF D1_doref_single, shadowVars, IInv
<1>6. ASSUME NEW ref \in DataRefs, D1_doref_adaptative(ref)
      PROVE  IInv'
  <2>1. func' \in PolicyNames
    BY <1>6 DEF D1_doref_adaptative, PolicyNames
  <2>2. GoodCaches(result')
    BY <1>0, <1>6, <2>1, ResultGood, Zenon DEF D1_doref_adaptative
  <2> QED
    BY <1>6, <2>1, <2>2 DEF D1_doref_adaptative, shadowVars, IInv
<1>7. ASSUME NEW p \in Requests, cg_set_cache_replacement_policy(p)
      PROVE  IInv'
  BY <1>7 DEF cg_set_cache_replacement_policy, shadowVars, selectionVars, IInv
<1>8. CASE UNCHANGED vars
  BY <1>8 DEF vars, shadowVars, selectionVars, IInv
<1> QED
  BY <1>1, <1>2, <1>3, <1>4, <1>5, <1>6, <1>7, <1>8, Zenon DEF Next

(* Good caches are sane. *)
LEMMA SaneWhenGood == IInv => CachesSane
<1>1. ASSUME NEW sets \in Nat \ {0}, NEW cache, GoodCache(cache, sets)
      PROVE  Sane(cache, sets)
  <2> SUFFICES ASSUME NEW s \in 0 .. sets - 1, NEW v \in Ways, NEW w \in Ways, cache[s][v] # Free
               PROVE  /\ cache[s][v] % sets = s
                      /\ cache[s][v] = cache[s][w] => v = w
    BY DEF Sane
  <2>1. cache[s] \in Contents(BlocksOf(sets, s)) /\ Distinct(cache[s])
    BY <1>1 DEF GoodCache
  <2>2. cache[s][v] \in BlocksOf(sets, s)
    BY <2>1 DEF Contents
  <2> QED
    BY <2>1, <2>2, Zenon DEF BlocksOf, Distinct
<1> SUFFICES ASSUME IInv, NEW c \in AllCaches
             PROVE  Sane(c.I1, SetsL1) /\ Sane(c.D1, SetsL1) /\ Sane(c.LL, SetsLL)
  BY DEF CachesSane
<1>2. GoodCaches(c)
  BY DEF AllCaches, IInv
<1> QED
  BY <1>1, <1>2, SetsAssumption, Zenon DEF GoodCaches

(* Whatever policies take turns on a cache, and whatever the end of a       *)
(* window copies, no cache of the simulator ever holds a block twice or in  *)
(* a set where cachesim_ref_is_miss would not look for it.                  *)
THEOREM CachesStaySane == Spec => []CachesSane
  BY SaneWhenGood, InitIInv, NextIInv, PTL DEF Spec

(* When one of the approaches that choose among policies is in force, the   *)
(* simulator implements PolicySelection: the client's instruction           *)
(* references and requests leave the choice alone and its data references   *)
(* move it as specified there, with the outcomes of the policies' own D1.   *)
THEOREM SimulatorSelects == Spec => SelectsAsSpecified
<1>1. Init => (approach \in Selecting => Sel!Init)
  BY DEF Init, Sel!Init, Sel!Policy, Policy, NewHistory, Sel!NewHistory, Sel!Slots, Slots
<1>2. IInv /\ [Next]_vars => [(approach \in Selecting) => Sel!Next]_(Sel!selectionVars)
  <2> SUFFICES ASSUME IInv, [Next]_vars, approach \in Selecting
               PROVE  Sel!Next \/ UNCHANGED Sel!selectionVars
    OBVIOUS
  <2>0. DataRefs \subseteq Refs
    BY RefsAssumption DEF Refs
  <2>1. ASSUME NEW missed \in [Policy -> Outcomes], Sel!Reference(missed)
        PROVE  Sel!Next
    BY <2>1, Zenon DEF Sel!Next, Sel!Policy, Policy, Sel!Outcomes, Outcomes
  <2>2. ASSUME NEW ref \in DataRefs, D1_doref_fixed(ref)
        PROVE  Sel!Next
    <3>1. PICK out \in DataOutcomes(ref) :
            Sel!FillWindow(Missed(out)) \/ Sel!CloseWindow(Missed(out))
      BY <2>2 DEF D1_doref_fixed
    <3> QED
      BY <2>0, <2>1, <3>1, DataOutcomesGood DEF Sel!Reference
  <2>3. ASSUME NEW ref \in DataRefs, D1_doref_switching(ref)
        PROVE  Sel!Next
    <3>1. PICK out \in DataOutcomes(ref) : Sel!Reselect(Missed(out))
      BY <2>3 DEF D1_doref_switching
    <3> QED
      BY <2>0, <2>1, <3>1, DataOutcomesGood, Zenon DEF Sel!Reference
  <2>4. ASSUME NEW ref, I1_doref_NoX(ref) \/ I1_doref_Gen(ref)
        PROVE  UNCHANGED Sel!selectionVars
    BY <2>4 DEF I1_doref_NoX, I1_doref_Gen, selectionVars, Sel!selectionVars
  <2>5. ASSUME NEW p, cg_set_cache_replacement_policy(p)
        PROVE  UNCHANGED Sel!selectionVars
    BY <2>5 DEF cg_set_cache_replacement_policy, selectionVars, Sel!selectionVars
  <2>6. ASSUME UNCHANGED vars
        PROVE  UNCHANGED Sel!selectionVars
    BY <2>6 DEF vars, selectionVars, Sel!selectionVars
  <2>7. ASSUME NEW ref, D1_doref_single(ref) \/ D1_doref_adaptative(ref)
        PROVE  approach \notin Selecting
    BY <2>7 DEF D1_doref_single, D1_doref_adaptative, Selecting, PolicyNames
  <2> QED
    BY <2>2, <2>3, <2>4, <2>5, <2>6, <2>7, Zenon DEF Next, IInv
<1> QED
  BY <1>1, <1>2, InitIInv, NextIInv, PTL DEF Spec, SelectsAsSpecified

-----------------------------------------------------------------------------

(* The client's counters are numbers. *)
IsCounters(c) ==
  /\ DOMAIN c = {"Ir", "I1mr", "ILmr", "Dr", "D1m", "DLm"}
  /\ c.Ir \in Nat /\ c.I1mr \in Nat /\ c.ILmr \in Nat
  /\ c.Dr \in Nat /\ c.D1m \in Nat /\ c.DLm \in Nat

(* Where the misses not yet charged are.  Under FIXED_WINDOW each policy    *)
(* has at most one miss for each reference of the window, none of them      *)
(* charged; under the other approaches every reference is charged at once.  *)
CountInv ==
  /\ IsCounters(counts)
  /\ misses_DL \in [Policy -> Nat]
  /\ imisses \in [Policy -> [I1 : Nat, IL : Nat]]
  /\ blocks \in Nat
  /\ counts.DLm <= counts.D1m
  /\ counts.D1m + blocks <= counts.Dr \/ (approach # "FIXED_WINDOW" /\ counts.D1m <= counts.Dr)
  /\ approach # "FIXED_WINDOW" => OneMissPerInstrRef
  /\ approach = "FIXED_WINDOW" =>
       /\ blocks < Window
       /\ \A i \in Policy : histories[i].misses <= blocks /\ misses_DL[i] <= histories[i].misses

(* A reference to the result caches counts what its outcome says. *)
LEMMA ResultCounts ==
  ASSUME IInv, CountInv, NEW f \in PolicyNames, NEW ref \in Refs
  PROVE  /\ ResultInstr(f, ref) =>
              \E out : /\ MissesOnce(out)
                       /\ IsCounters(counts')
                       /\ counts'.Ir = counts.Ir + 1
                       /\ counts'.I1mr = counts.I1mr + out.m1
                       /\ counts'.ILmr = counts.ILmr + out.mL
                       /\ counts'.Dr = counts.Dr /\ counts'.D1m = counts.D1m
                       /\ counts'.DLm = counts.DLm
         /\ ResultData(f, ref) =>
              \E out : /\ MissesOnce(out)
                       /\ IsCounters(counts')
                       /\ counts'.Ir = counts.Ir /\ counts'.I1mr = counts.I1mr
                       /\ counts'.ILmr = counts.ILmr
                       /\ counts'.Dr = counts.Dr + 1
                       /\ counts'.D1m = counts.D1m + out.m1
                       /\ counts'.DLm = counts.DLm + out.mL
<1>1. GoodCaches(result) /\ IsCounters(counts)
  BY DEF IInv, CountInv
<1>2. ASSUME ResultInstr(f, ref)
      PROVE  \E out : /\ MissesOnce(out)
                      /\ counts' = [counts EXCEPT !.Ir = @ + 1, !.I1mr = @ + out.m1, !.ILmr = @ + out.mL]
  BY <1>1, <1>2, ReferencedAreGood, Zenon DEF ResultInstr
<1>3. ASSUME ResultData(f, ref)
      PROVE  \E out : /\ MissesOnce(out)
                      /\ counts' = [counts EXCEPT !.Dr = @ + 1, !.D1m = @ + out.m1, !.DLm = @ + out.mL]
  BY <1>1, <1>3, ReferencedAreGood, Zenon DEF ResultData
<1>4. ASSUME NEW out, MissesOnce(out),
             counts' = [counts EXCEPT !.Ir = @ + 1, !.I1mr = @ + out.m1, !.ILmr = @ + out.mL]
      PROVE  /\ IsCounters(counts')
             /\ counts'.Ir = counts.Ir + 1
             /\ counts'.I1mr = counts.I1mr + out.m1
             /\ counts'.ILmr = counts.ILmr + out.mL
             /\ counts'.Dr = counts.Dr /\ counts'.D1m = counts.D1m
             /\ counts'.DLm = counts.DLm
  BY <1>1, <1>4 DEF MissesOnce, Outcomes, IsCounters
<1>5. ASSUME NEW out, MissesOnce(out),
             counts' = [counts EXCEPT !.Dr = @ + 1, !.D1m = @ + out.m1, !.DLm = @ + out.mL]
      PROVE  /\ IsCounters(counts')
             /\ counts'.Ir = counts.Ir /\ counts'.I1mr = counts.I1mr
             /\ counts'.ILmr = counts.ILmr
             /\ counts'.Dr = counts.Dr + 1
             /\ counts'.D1m = counts.D1m + out.m1
             /\ counts'.DLm = counts.DLm + out.mL
  BY <1>1, <1>5 DEF MissesOnce, Outcomes, IsCounters
<1> QED
  BY <1>2, <1>3, <1>4, <1>5, Zenon

(* The instruction side of the policies counts its misses. *)
LEMMA ShadowCounts ==
  ASSUME IInv, CountInv, NEW ref \in Refs, ShadowInstr(ref)
  PROVE  imisses' \in [Policy -> [I1 : Nat, IL : Nat]]
<1>1. CASE approach \in Selecting
  <2>1. PICK out :
          /\ \A i \in Policy :
               out[i] \in LevelOutcomes(is_miss_func(i), shadow[i].I1, shadow[i].LL, ref)
          /\ imisses' = [i \in Policy |-> [I1 |-> imisses[i].I1 + out[i].m1,
                                           IL |-> imisses[i].IL + out[i].mL]]
    BY <1>1 DEF ShadowInstr, ShadowOutcomes
  <2>2. \A i \in Policy : GoodCaches(shadow[i]) /\ is_miss_func(i) \in PolicyNames
    BY PoliciesAreNamed, Zenon DEF IInv
  <2>3. \A i \in Policy : MissesOnce(out[i])
    BY <2>1, <2>2, ReferencedAreGood
  <2>4. \A i \in Policy : out[i].m1 \in Nat /\ out[i].mL \in Nat
    BY <2>3 DEF MissesOnce, Outcomes
  <2> QED
    BY <2>1, <2>4 DEF CountInv
<1>2. CASE approach \notin Selecting
  BY <1>2 DEF ShadowInstr, CountInv
<1> QED
  BY <1>1, <1>2, Zenon

(* What the invariant says of a window that fills. *)
LEMMA WindowCounts ==
  ASSUME CountInv, approach = "FIXED_WINDOW"
  PROVE  /\ IsCounters(counts) /\ misses_DL \in [Policy -> Nat]
         /\ blocks \in Nat /\ blocks < Window
         /\ counts.DLm <= counts.D1m /\ counts.D1m + blocks <= counts.Dr
         /\ \A i \in Policy : histories[i].misses <= blocks /\ misses_DL[i] <= histories[i].misses
  BY Zenon DEF CountInv

(* A policy has at most one miss more after a reference of its window, and  *)
(* no more of them in LL than in D1.                                        *)
LEMMA StoredCounts ==
  ASSUME IInv, CountInv, approach = "FIXED_WINDOW", NEW ref \in Refs, NEW out \in DataOutcomes(ref)
  PROVE  /\ Sel!Stored(Missed(out)) \in [Policy -> History]
         /\ DataMisses(out) \in [Policy -> Nat]
         /\ \A i \in Policy : /\ Sel!Stored(Missed(out))[i].misses \in Nat
                              /\ Sel!Stored(Missed(out))[i].misses <= blocks + 1
                              /\ DataMisses(out)[i] <= Sel!Stored(Missed(out))[i].misses
<1> DEFINE hs == Sel!Stored(Missed(out))
           dl == DataMisses(out)
<1>1. /\ Missed(out) \in [Policy -> Outcomes]
      /\ \A i \in Policy : MissesOnce(out[i])
  BY DataOutcomesGood
<1>2. /\ hs \in [Policy -> History]
      /\ \A i \in Policy : hs[i] = store_misses_history(histories[i], out[i].m1)
  BY <1>1, SelStores, Zenon DEF Missed
<1>3. ASSUME NEW i \in Policy
      PROVE  /\ hs[i].misses \in Nat /\ dl[i] \in Nat
             /\ hs[i].misses <= blocks + 1
             /\ dl[i] <= hs[i].misses
  <2>1. /\ misses_DL[i] \in Nat /\ blocks \in Nat /\ blocks < Window
        /\ histories[i].misses <= blocks /\ misses_DL[i] <= histories[i].misses
    BY WindowCounts
  <2>2. histories[i] \in History
    BY DEF IInv
  <2>3. histories[i].misses \in Nat
    BY <2>2, ULongAssumption DEF History
  <2>4. out[i].m1 \in Outcomes /\ out[i].m1 \in {0, 1} /\ out[i].mL \in {0, 1} /\ out[i].mL <= out[i].m1
    BY <1>1, Zenon DEF MissesOnce, Outcomes
  <2>5. histories[i].misses + out[i].m1 < ULongSize
    BY <2>1, <2>3, <2>4, WindowAssumption, ULongAssumption
  <2>6. hs[i].misses = IF Window = 1 THEN histories[i].misses ELSE histories[i].misses + out[i].m1
    BY <1>2, <2>2, <2>4, <2>5, StoreAddsMiss, Zenon
  <2>7. dl[i] = IF Window = 1 THEN misses_DL[i] ELSE misses_DL[i] + out[i].mL
    BY DEF DataMisses
  <2> HIDE DEF hs, dl
  <2> QED
    BY <2>1, <2>3, <2>4, <2>6, <2>7
<1>4. dl \in [Policy -> Nat]
  BY <1>3 DEF DataMisses
<1> QED
  BY <1>2, <1>3, <1>4

(* A reference that does not fill its window leaves its misses uncharged. *)
LEMMA FillKeepsCounts ==
  ASSUME IInv, CountInv, approach = "FIXED_WINDOW", approach' = approach,
         NEW ref \in Refs, NEW out \in DataOutcomes(ref),
         Sel!FillWindow(Missed(out)), misses_DL' = DataMisses(out),
         counts' = [counts EXCEPT !.Dr = @ + 1], UNCHANGED imisses
  PROVE  CountInv'
<1>1. histories' = Sel!Stored(Missed(out)) /\ blocks' = blocks + 1 /\ blocks + 1 < Window
  BY DEF Sel!FillWindow
<1>2. /\ IsCounters(counts') /\ counts'.Dr = counts.Dr + 1
      /\ counts'.D1m = counts.D1m /\ counts'.DLm = counts.DLm
  BY WindowCounts DEF IsCounters
<1>3. counts'.DLm <= counts'.D1m /\ counts'.D1m + blocks' <= counts'.Dr
  BY <1>1, <1>2, WindowCounts DEF IsCounters
<1>4. blocks' \in Nat /\ blocks' < Window
  BY <1>1, WindowCounts
<1>5. /\ misses_DL' \in [Policy -> Nat]
      /\ \A i \in Policy : histories'[i].misses <= blocks' /\ misses_DL'[i] <= histories'[i].misses
  BY <1>1, StoredCounts
<1>6. imisses' \in [Policy -> [I1 : Nat, IL : Nat]]
  BY Zenon DEF CountInv
<1> QED
  BY <1>2, <1>3, <1>4, <1>5, <1>6, Zenon DEF CountInv

(* The last one charges the misses of the best policy and starts over. *)
LEMMA CloseKeepsCounts ==
  ASSUME IInv, CountInv, approach = "FIXED_WINDOW", approach' = approach,
         NEW ref \in Refs, NEW out \in DataOutcomes(ref),
         Sel!CloseWindow(Missed(out)), ChargeBest(out)
  PROVE  CountInv'
<1> DEFINE hs == Sel!Stored(Missed(out))
           dl == DataMisses(out)
<1>1. blocks' = 0 /\ histories' = [i \in Policy |-> Sel!Restarted(hs[i])]
  BY DEF Sel!CloseWindow, Sel!Policy, Policy
<1>2. \A i \in Policy : histories'[i].misses = 0
  BY <1>1 DEF Sel!Restarted
<1>3. PICK best \in Policy :
        counts' = [counts EXCEPT !.Dr = @ + 1, !.D1m = @ + hs[best].misses, !.DLm = @ + dl[best],
                                 !.I1mr = @ + imisses[best].I1, !.ILmr = @ + imisses[best].IL]
  BY StoredCounts, BestIsPolicy, Zenon DEF ChargeBest
<1>4. imisses[best].I1 \in Nat /\ imisses[best].IL \in Nat
  BY DEF CountInv
<1>5. /\ hs[best].misses \in Nat /\ dl[best] \in Nat
      /\ hs[best].misses <= blocks + 1 /\ dl[best] <= hs[best].misses
  BY StoredCounts
<1> HIDE DEF hs, dl
<1>6. /\ IsCounters(counts') /\ counts'.Dr = counts.Dr + 1
      /\ counts'.D1m = counts.D1m + hs[best].misses /\ counts'.DLm = counts.DLm + dl[best]
  BY <1>3, <1>4, <1>5, WindowCounts DEF IsCounters
<1>7. counts'.DLm <= counts'.D1m /\ counts'.D1m + blocks' <= counts'.Dr
  BY <1>1, <1>5, <1>6, WindowCounts DEF IsCounters
<1>8. /\ misses_DL' = [i \in Policy |-> 0]
      /\ imisses' = [i \in Policy |-> [I1 |-> 0, IL |-> 0]]
  BY DEF ChargeBest
<1>9. /\ misses_DL' \in [Policy -> Nat] /\ imisses' \in [Policy -> [I1 : Nat, IL : Nat]]
      /\ \A i \in Policy : misses_DL'[i] = 0
  BY <1>8
<1>10. blocks' < Window /\ blocks' \in Nat
  BY <1>1, WindowAssumption
<1>11. \A i \in Policy : histories'[i].misses <= blocks' /\ misses_DL'[i] <= histories'[i].misses
  BY <1>1, <1>2, <1>9
<1> QED
  BY <1>6, <1>7, <1>9, <1>10, <1>11, Zenon DEF CountInv

(* So a data reference under FIXED_WINDOW keeps the account. *)
LEMMA FixedKeepsCounts ==
  ASSUME IInv, CountInv, NEW ref \in Refs, D1_doref_fixed(ref)
  PROVE  CountInv'
<1>1. PICK out \in DataOutcomes(ref) :
        \/ /\ Sel!FillWindow(Missed(out))
           /\ misses_DL' = DataMisses(out)
           /\ counts' = [counts EXCEPT !.Dr = @ + 1]
           /\ UNCHANGED imisses
        \/ Sel!CloseWindow(Missed(out)) /\ ChargeBest(out)
  BY DEF D1_doref_fixed
<1>2. approach = "FIXED_WINDOW" /\ approach' = approach
  BY DEF D1_doref_fixed, Sel!FillWindow, Sel!CloseWindow
<1> QED
  BY <1>1, <1>2, FillKeepsCounts, CloseKeepsCounts, Zenon

(* Every step keeps the misses accounted for. *)
LEMMA NextCountInv == IInv /\ CountInv /\ [Next]_vars => CountInv'
<1> SUFFICES ASSUME IInv, CountInv, [Next]_vars PROVE CountInv'
  OBVIOUS
<1>0. InstrRefs \subseteq Refs /\ DataRefs \subseteq Refs
  BY RefsAssumption, Zenon DEF Refs
<1>1. ASSUME NEW ref \in InstrRefs, NEW f \in PolicyNames, ShadowInstr(ref), ResultInstr(f, ref),
             UNCHANGED <<approach, histories, blocks, misses_DL>>
      PROVE  CountInv'
  <2>1. imisses' \in [Policy -> [I1 : Nat, IL : Nat]]
    BY <1>0, <1>1, ShadowCounts
  <2>2. PICK out : /\ MissesOnce(out)
                   /\ IsCounters(counts')
                   /\ counts'.Ir = counts.Ir + 1
                   /\ counts'.I1mr = counts.I1mr + out.m1
                   /\ counts'.ILmr = counts.ILmr + out.mL
                   /\ counts'.Dr = counts.Dr /\ counts'.D1m = counts.D1m
                   /\ counts'.DLm = counts.DLm
    BY <1>0, <1>1, ResultCounts, Zenon
  <2>3. OneMissPerInstrRef => OneMissPerInstrRef'
    BY <2>2 DEF OneMissPerInstrRef, MissesOnce, Outcomes, CountInv, IsCounters
  <2> QED
    BY <1>1, <2>1, <2>2, <2>3, Zenon DEF CountInv
<1>2. ASSUME NEW ref \in DataRefs, NEW f \in PolicyNames, ResultData(f, ref), approach' = approach,
             approach # "FIXED_WINDOW", blocks' = blocks, imisses' = imisses,
             misses_DL' \in [Policy -> Nat]
      PROVE  CountInv'
  <2>1. PICK out : /\ MissesOnce(out)
                   /\ IsCounters(counts')
                   /\ counts'.Ir = counts.Ir /\ counts'.I1mr = counts.I1mr
                   /\ counts'.ILmr = counts.ILmr
                   /\ counts'.Dr = counts.Dr + 1
                   /\ counts'.D1m = counts.D1m + out.m1
                   /\ counts'.DLm = counts.DLm + out.mL
    BY <1>0, <1>2, ResultCounts, Zenon
  <2>2. OneMissPerInstrRef'
    BY <1>2, <2>1, Zenon DEF OneMissPerInstrRef, CountInv
  <2>3. counts'.DLm <= counts'.D1m /\ counts'.D1m <= counts'.Dr
    BY <1>2, <2>1 DEF MissesOnce, Outcomes, CountInv, IsCounters
  <2> QED
    BY <1>2, <2>1, <2>2, <2>3, Zenon DEF CountInv
<1>3. ASSUME NEW ref \in DataRefs, D1_doref_fixed(ref)
      PROVE  CountInv'
  BY <1>0, <1>3, FixedKeepsCounts, Zenon
<1>4. ASSUME NEW ref \in DataRefs, D1_doref_switching(ref)
      PROVE  CountInv'
  <2>1. PICK out \in DataOutcomes(ref) : Sel!Reselect(Missed(out)) /\ misses_DL' = DataMisses(out)
    BY <1>4 DEF D1_doref_switching
  <2>2. \A i \in Policy : MissesOnce(out[i])
    BY <1>0, DataOutcomesGood, Zenon
  <2>3. misses_DL' \in [Policy -> Nat]
    BY <2>1, <2>2 DEF DataMisses, MissesOnce, Outcomes, CountInv
  <2>4. IInv'
    BY NextIInv
  <2>5. /\ func' \in PolicyNames /\ ResultData(func', ref) /\ imisses' = imisses
        /\ approach' = approach /\ approach # "FIXED_WINDOW" /\ blocks' = blocks
    BY <1>4, <2>1, <2>4, Zenon DEF D1_doref_switching, Sel!Reselect, IInv
  <2> QED
    BY <1>2, <2>3, <2>5, Zenon
<1>5. ASSUME NEW ref \in DataRefs, D1_doref_single(ref) \/ D1_doref_adaptative(ref)
      PROVE  CountInv'
  <2>1. IInv'
    BY NextIInv, Zenon
  <2>2. /\ ResultData(func', ref) /\ approach' = approach /\ approach # "FIXED_WINDOW"
        /\ blocks' = blocks /\ imisses' = imisses /\ misses_DL' = misses_DL
    BY <1>5, Zenon DEF D1_doref_single, D1_doref_adaptative, shadowVars, PolicyNames
  <2> QED
    BY <1>2, <2>1, <2>2, Zenon DEF IInv, CountInv
<1>6. ASSUME UNCHANGED <<approach, shadowVars, selectionVars, misses_DL, counts>>
      PROVE  CountInv'
  BY <1>6 DEF CountInv, shadowVars, selectionVars, OneMissPerInstrRef
<1>7. ASSUME NEW ref \in InstrRefs, I1_doref_NoX(ref) \/ I1_doref_Gen(ref)
      PROVE  CountInv'
  <2>1. IInv'
    BY NextIInv
  <2>2. /\ ShadowInstr(ref) /\ ResultInstr(func', ref)
        /\ UNCHANGED <<approach, histories, blocks, misses_DL>>
    BY <1>7, Zenon DEF I1_doref_NoX, I1_doref_Gen, selectionVars
  <2> QED
    BY <1>1, <2>1, <2>2, Zenon DEF IInv
<1> QED
  BY <1>3, <1>4, <1>5, <1>6, <1>7, Zenon DEF Next, vars, cg_set_cache_replacement_policy

(* The simulator starts with every miss accounted for. *)
LEMMA InitCountInv == Init => CountInv
<1> SUFFICES ASSUME Init PROVE CountInv
  OBVIOUS
<1>1. IsCounters(counts) /\ blocks = 0
  BY DEF Init, IsCounters
<1>2. Window \div 2 \in Nat
  BY WindowAssumption
<1>3. \A i \in Policy : histories[i].misses = 0
  BY DEF Init, NewHistory
<1>4. misses_DL \in [Policy -> Nat] /\ imisses \in [Policy -> [I1 : Nat, IL : Nat]]
  BY <1>2, Zenon DEF Init
<1>5. approach = "FIXED_WINDOW" => \A i \in Policy : misses_DL[i] = 0
  BY Zenon DEF Init
<1>6. /\ counts.DLm <= counts.D1m /\ counts.D1m + blocks <= counts.Dr /\ blocks < Window
      /\ OneMissPerInstrRef /\ blocks \in Nat
  BY WindowAssumption DEF Init, OneMissPerInstrRef
<1>7. approach = "FIXED_WINDOW" =>
        \A i \in Policy : histories[i].misses <= blocks /\ misses_DL[i] <= histories[i].misses
  BY <1>1, <1>3, <1>5
<1> QED
  BY <1>1, <1>4, <1>6, <1>7, Zenon DEF CountInv

(* A reference is counted as one miss at most at each level, under every    *)
(* approach and for every list of policies.                                 *)
THEOREM MissesAreCountedOnce == Spec => []MissesCountOnce
<1>1. CountInv => MissesCountOnce
  <2> SUFFICES ASSUME CountInv PROVE MissesCountOnce
    OBVIOUS
  <2>1. counts.D1m <= counts.Dr /\ counts.DLm <= counts.D1m
    BY DEF CountInv, IsCounters
  <2> QED
    BY <2>1 DEF CountInv, MissesCountOnce, OneMissPerDataRef
<1> QED
  BY <1>1, InitIInv, NextIInv, InitCountInv, NextCountInv, PTL DEF Spec

(* FIXED_WINDOW charges no more misses than the closed windows have data    *)
(* references, whatever policy won each of them.                            *)
THEOREM OnlyClosedWindowsAreCharged == Spec => []ClosedWindowsAreCharged
<1>1. CountInv => ClosedWindowsAreCharged
  BY DEF CountInv, ClosedWindowsAreCharged, IsCounters
<1> QED
  BY <1>1, InitIInv, NextIInv, InitCountInv, NextCountInv, PTL DEF Spec

(* The instruction side leaves the policies' data caches alone. *)
LEMMA InstrLeavesData ==
  ASSUME IInv, NEW ref, ShadowInstr(ref), NEW i \in Policy
  PROVE  shadow'[i].D1 = shadow[i].D1
<1>1. CASE approach \in Selecting
  <2>1. PICK out : shadow' = [j \in Policy |-> AfterInstr(shadow[j], out[j])]
    BY <1>1, Zenon DEF ShadowInstr
  <2> QED
    BY <2>1 DEF AfterInstr
<1>2. CASE approach \notin Selecting
  BY <1>2 DEF ShadowInstr
<1> QED
  BY <1>1, <1>2, Zenon

(* Every window of FIXED_WINDOW starts with the same data cache for all     *)
(* policies, so that the misses it compares have the same history.          *)
THEOREM WindowsStartEqual == Spec => []WindowStartsEqual
<1>1. Init => WindowStartsEqual
  BY DEF Init, WindowStartsEqual
<1>2. IInv /\ CountInv /\ WindowStartsEqual /\ [Next]_vars => WindowStartsEqual'
  <2> SUFFICES ASSUME IInv, CountInv, WindowStartsEqual, [Next]_vars PROVE WindowStartsEqual'
    OBVIOUS
  <2>1. ASSUME NEW ref \in InstrRefs, I1_doref_NoX(ref) \/ I1_doref_Gen(ref)
        PROVE  WindowStartsEqual'
    <3>1. ShadowInstr(ref) /\ approach' = approach /\ blocks' = blocks
      BY <2>1 DEF I1_doref_NoX, I1_doref_Gen, selectionVars
    <3>2. \A i \in Policy : shadow'[i].D1 = shadow[i].D1
      BY <3>1, InstrLeavesData
    <3> QED
      BY <3>1, <3>2, Zenon DEF WindowStartsEqual
  <2>2. ASSUME NEW ref \in DataRefs, D1_doref_fixed(ref)
        PROVE  WindowStartsEqual'
    <3>1. PICK out : \/ Sel!FillWindow(Missed(out))
                     \/ Sel!CloseWindow(Missed(out)) /\ ChargeBest(out)
      BY <2>2 DEF D1_doref_fixed
    <3>2. CASE Sel!FillWindow(Missed(out))
      <4>1. blocks' = blocks + 1 /\ blocks \in Nat
        BY <3>2 DEF Sel!FillWindow, CountInv
      <4>2. blocks' # 0
        BY <4>1
      <4> QED
        BY <4>2, Zenon DEF WindowStartsEqual
    <3>3. CASE ChargeBest(out)
      <4>1. \E best : shadow' = [i \in Policy |-> DataCaches(out)[best]]
        BY <3>3 DEF ChargeBest, copy_caches
      <4> QED
        BY <4>1 DEF WindowStartsEqual
    <3> QED
      BY <3>1, <3>2, <3>3, Zenon
  <2>3. ASSUME NEW ref \in DataRefs, D1_doref_switching(ref) \/ D1_doref_single(ref) \/ D1_doref_adaptative(ref)
        PROVE  WindowStartsEqual'
    <3>1. approach' # "FIXED_WINDOW"
      BY <2>3 DEF D1_doref_switching, D1_doref_single, D1_doref_adaptative, Sel!Reselect, PolicyNames
    <3> QED
      BY <3>1, Zenon DEF WindowStartsEqual
  <2>4. ASSUME UNCHANGED <<approach, shadowVars, selectionVars>>
        PROVE  WindowStartsEqual'
    BY <2>4 DEF WindowStartsEqual, shadowVars, selectionVars
  <2> QED
    BY <2>1, <2>2, <2>3, <2>4, Zenon DEF Next, vars, cg_set_cache_replacement_policy
<1> QED
  BY <1>1, <1>2, InitIInv, NextIInv, InitCountInv, NextCountInv, PTL DEF Spec

-----------------------------------------------------------------------------

(* Until another policy than the first is selected, the result follows the  *)
(* first one; a policy that was ever selected has uses to show for it,      *)
(* since the counters do not wrap within MaxRefs references.                *)
FirstInv ==
  /\ counts.Ir + counts.Dr <= MaxRefs
  /\ approach \in {"SLIDING_WINDOW", "ONLINE"} =>
       /\ uses \in [Policy -> Nat]
       /\ \A i \in Policy : uses[i] <= 2 * counts.Dr
       /\ selected # 0 => uses[selected] > 0
       /\ ResultIsFirstUntilSwitch

(* A use is counted, if the counter does not wrap. *)
LEMMA UsedCounts ==
  ASSUME NEW u \in [Policy -> Nat], NEW i \in Policy, NEW n \in Nat, n + 1 < ULongSize,
         \A j \in Policy : u[j] <= n
  PROVE  LET w == Sel!Used(u, i)
         IN  /\ w \in [Policy -> Nat]
             /\ w[i] > 0
             /\ \A j \in Policy : u[j] <= w[j] /\ w[j] <= n + 1
<1> DEFINE w == Sel!Used(u, i)
<1>1. u[i] \in Nat /\ u[i] + 1 \in 0 .. ULongSize - 1 /\ ULongSize \in Nat \ {0}
  BY ULongAssumption, WindowAssumption
<1>2. (ULongSize * 0 + (u[i] + 1)) % ULongSize = u[i] + 1
  BY <1>1, DivModUnique
<1>3. (u[i] + 1) % ULongSize = u[i] + 1
  BY <1>1, <1>2
<1>4. w = [u EXCEPT ![i] = u[i] + 1]
  BY <1>3, Zenon DEF Sel!Used
<1> HIDE DEF w
<1>5. w \in [Policy -> Nat] /\ \A j \in Policy : w[j] = IF j = i THEN u[i] + 1 ELSE u[j]
  BY <1>4
<1>6. \A j \in Policy : u[j] \in Nat /\ w[j] \in Nat /\ u[j] <= w[j] /\ w[j] <= n + 1
  <2> TAKE j \in Policy
  <2>1. u[j] \in Nat /\ u[j] <= n /\ u[i] \in Nat /\ u[i] <= n
    OBVIOUS
  <2> QED
    BY <1>5, <2>1
<1>7. w[i] > 0
  BY <1>1, <1>5
<1> QED
  BY <1>5, <1>6, <1>7, Zenon DEF w

(* So are the uses of a reference, one or two. *)
LEMMA UsesCount ==
  ASSUME NEW app, NEW u \in [Policy -> Nat], NEW i \in Policy, NEW k \in Policy, NEW n \in Nat,
         n + 2 < ULongSize, \A j \in Policy : u[j] <= n
  PROVE  LET w == Sel!UsesAfter(app, u, i, k)
         IN  /\ w \in [Policy -> Nat]
             /\ w[k] > 0
             /\ \A j \in Policy : u[j] <= w[j] /\ w[j] <= n + 2
<1> DEFINE v == Sel!Used(u, i)
           w == Sel!Used(v, k)
           x == Sel!Used(u, k)
<1>0. n + 1 \in Nat /\ n + 1 < ULongSize /\ (n + 1) + 1 < ULongSize
  BY ULongAssumption
<1>1. /\ v \in [Policy -> Nat]
      /\ \A j \in Policy : u[j] <= v[j] /\ v[j] <= n + 1
  BY <1>0, UsedCounts, Zenon
<1>2. /\ x \in [Policy -> Nat] /\ x[k] > 0
      /\ \A j \in Policy : u[j] <= x[j] /\ x[j] <= n + 1
  BY <1>0, UsedCounts
<1> HIDE DEF v
<1>3. /\ w \in [Policy -> Nat] /\ w[k] > 0
      /\ \A j \in Policy : v[j] <= w[j] /\ w[j] <= (n + 1) + 1
  BY <1>0, <1>1, UsedCounts, Zenon
<1> HIDE DEF w, x
<1>4. \A j \in Policy : u[j] <= w[j] /\ w[j] <= n + 2 /\ x[j] <= n + 2
  <2> TAKE j \in Policy
  <2>1. /\ u[j] \in Nat /\ v[j] \in Nat /\ w[j] \in Nat /\ x[j] \in Nat
        /\ u[j] <= v[j] /\ v[j] <= w[j] /\ w[j] <= (n + 1) + 1 /\ x[j] <= n + 1
    BY <1>1, <1>2, <1>3, Zenon
  <2> QED
    BY <2>1
<1>5. Sel!UsesAfter(app, u, i, k) = IF app = "SLIDING_WINDOW" THEN w ELSE x
  BY DEF Sel!UsesAfter, v, w, x
<1> QED
  BY <1>2, <1>3, <1>4, <1>5, Zenon

(* What the first policy, LRU, does with a data reference.                  *)
LEMMA FirstOutcome ==
  ASSUME miss_functions[1] = "LRU", NEW ref, NEW out \in DataOutcomes(ref)
  PROVE  0 \in Policy /\ out[0] \in LevelOutcomes("LRU", shadow[0].D1, shadow[0].LL, ref)
<1>1. 0 \in Policy /\ is_miss_func(0) = "LRU"
  BY PoliciesAreNamed DEF is_miss_func, Policy
<1> QED
  BY <1>1, Zenon DEF DataOutcomes, ShadowOutcomes

(* LRU does the same with the same first-level cache, whatever lies below.  *)
LEMMA LruDoesTheSame ==
  ASSUME NEW l1, NEW ll1, NEW ll2, NEW ref,
         NEW p \in LevelOutcomes("LRU", l1, ll1, ref), NEW q \in LevelOutcomes("LRU", l1, ll2, ref)
  PROVE  p.l1 = q.l1 /\ p.m1 = q.m1
<1>1. Deterministic("LRU")
  BY DEF Deterministic
<1> QED
  BY <1>1, OneOutcome

(* What is stored for the first policy counts its miss. *)
LEMMA FirstCounted ==
  ASSUME IInv, Window # 1, NEW missed \in [Policy -> Outcomes], 0 \in Policy,
         histories[0].misses \in Nat, histories[0].misses + 1 < ULongSize
  PROVE  Sel!Stored(missed)[0].misses = histories[0].misses + missed[0]
<1>1. Sel!Stored(missed)[0] = store_misses_history(histories[0], missed[0])
  BY SelStores
<1>2. histories[0] \in History /\ missed[0] \in Outcomes
  BY DEF IInv
<1>3. histories[0].misses + missed[0] < ULongSize
  BY <1>2, ULongAssumption DEF Outcomes
<1> QED
  BY <1>1, <1>2, <1>3, StoreAddsMiss, Zenon

(* So the first policy and the result do the same while both are LRU on the *)
(* same cache.                                                              *)
LEMMA FirstDoesTheSame ==
  ASSUME miss_functions[1] = "LRU", NEW ref, NEW out \in DataOutcomes(ref),
         NEW res \in LevelOutcomes("LRU", shadow[0].D1, result.LL, ref)
  PROVE  0 \in Policy /\ res.l1 = out[0].l1 /\ res.m1 = out[0].m1
<1>1. 0 \in Policy /\ out[0] \in LevelOutcomes("LRU", shadow[0].D1, shadow[0].LL, ref)
  BY FirstOutcome, Zenon
<1> QED
  BY <1>1, LruDoesTheSame

(* A data reference that LRU, the first policy, decides moves the result    *)
(* and that policy's caches alike, and counts alike.                        *)
LEMMA FirstFollowed ==
  ASSUME IInv, Window # 1, miss_functions[1] = "LRU", NEW ref \in Refs,
         result.D1 = shadow[0].D1, counts.D1m = histories[0].misses,
         counts.D1m \in Nat, counts.D1m + 1 < ULongSize,
         NEW out \in DataOutcomes(ref), shadow' = DataCaches(out),
         histories' = Sel!Stored(Missed(out)),
         NEW res \in LevelOutcomes("LRU", result.D1, result.LL, ref),
         result' = AfterData(result, res), counts'.D1m = counts.D1m + res.m1
  PROVE  result'.D1 = shadow'[0].D1 /\ counts'.D1m = histories'[0].misses
<1>1. res \in LevelOutcomes("LRU", shadow[0].D1, result.LL, ref)
  BY Zenon
<1>3. 0 \in Policy /\ res.l1 = out[0].l1 /\ res.m1 = out[0].m1
  BY <1>1, FirstDoesTheSame, Zenon
<1>4. result'.D1 = res.l1 /\ shadow'[0].D1 = out[0].l1
  BY <1>3, Zenon DEF AfterData, DataCaches
<1>5. Missed(out) \in [Policy -> Outcomes] /\ Missed(out)[0] = out[0].m1
  BY <1>3, DataOutcomesGood, Zenon DEF Missed
<1>6. histories'[0].misses = histories[0].misses + out[0].m1
  BY <1>3, <1>5, FirstCounted, Zenon
<1> QED
  BY <1>3, <1>4, <1>6, Zenon

(* No count of a run wraps when twice its references do not. *)
LEMMA RunIsShort ==
  ASSUME NEW d \in Nat, NEW i \in Nat, NEW r \in Nat, NEW max \in Nat,
         d <= r, i + r < max, 2 * max < ULongSize
  PROVE  d + 1 < ULongSize /\ 2 * r \in Nat /\ 2 * r + 2 < ULongSize
  BY ULongAssumption

(* A data reference before the first switch moves the result and the first  *)
(* policy alike.                                                            *)
LEMMA SwitchingKeepsFirst ==
  ASSUME MaxRefs \in Nat, 2 * MaxRefs < ULongSize, Window # 1, miss_functions[1] = "LRU",
         IInv, CountInv, FirstInv, NEW ref \in DataRefs, D1_doref_switching(ref)
  PROVE  FirstInv'
<1>0. ref \in Refs
  BY RefsAssumption, Zenon DEF Refs
<1>1. PICK out \in DataOutcomes(ref) :
        Sel!Reselect(Missed(out)) /\ shadow' = DataCaches(out)
  BY Zenon DEF D1_doref_switching
<1>2. /\ approach \in {"SLIDING_WINDOW", "ONLINE"} /\ approach' = approach
      /\ uses' = Sel!UsesAfter(approach, uses, selected, selected')
      /\ histories' = Sel!Stored(Missed(out))
      /\ func' = is_miss_func(selected')
  BY <1>1, Zenon DEF Sel!Reselect, D1_doref_switching, FunctionForResult
<1>3. selected \in Policy /\ selected' \in Policy /\ func' \in PolicyNames
  <2>1. IInv'
    BY NextIInv DEF Next
  <2> QED
    BY <2>1, Zenon DEF IInv
<1>4. PICK res \in LevelOutcomes(func', result.D1, result.LL, ref) :
        /\ result' = AfterData(result, res)
        /\ counts' = [counts EXCEPT !.Dr = @ + 1, !.D1m = @ + res.m1, !.DLm = @ + res.mL]
  BY Zenon DEF D1_doref_switching, ResultData
<1>6. /\ IsCounters(counts) /\ counts.Ir + counts.Dr < MaxRefs
      /\ counts'.Ir = counts.Ir /\ counts'.Dr = counts.Dr + 1 /\ counts'.D1m = counts.D1m + res.m1
      /\ counts.D1m \in Nat /\ counts.D1m + 1 < ULongSize
      /\ counts.Dr \in Nat /\ counts.Ir \in Nat /\ counts.D1m <= counts.Dr
  <2>1. IsCounters(counts) /\ counts.D1m <= counts.Dr
    BY DEF CountInv, IsCounters
  <2>2. counts.Ir + counts.Dr < MaxRefs
    BY DEF D1_doref_switching, DataMayCome, More
  <2>3. counts'.Ir = counts.Ir /\ counts'.Dr = counts.Dr + 1 /\ counts'.D1m = counts.D1m + res.m1
    BY <1>4, <2>1, Zenon DEF IsCounters
  <2>4. counts.D1m \in Nat /\ counts.Dr \in Nat /\ counts.Ir \in Nat
    BY <2>1 DEF IsCounters
  <2>5. counts.D1m + 1 < ULongSize
    BY <2>1, <2>2, <2>4, RunIsShort, Zenon
  <2> QED
    BY <2>1, <2>2, <2>3, <2>4, <2>5, Zenon
<1>7. /\ uses \in [Policy -> Nat] /\ \A i \in Policy : uses[i] <= 2 * counts.Dr
      /\ ResultIsFirstUntilSwitch
  BY <1>2, Zenon DEF FirstInv
<1>8. /\ uses' \in [Policy -> Nat]
      /\ uses'[selected'] > 0
      /\ \A i \in Policy : uses[i] <= uses'[i] /\ uses'[i] <= 2 * counts.Dr + 2
  <2>1. 2 * counts.Dr \in Nat /\ 2 * counts.Dr + 2 < ULongSize
    BY <1>6, RunIsShort, Zenon
  <2> QED
    BY <1>2, <1>3, <1>7, <2>1, UsesCount, Zenon
<1>9. \A i \in Policy : uses'[i] <= 2 * counts'.Dr
  <2> TAKE i \in Policy
  <2>1. uses'[i] \in Nat /\ uses'[i] <= 2 * counts.Dr + 2 /\ counts.Dr \in Nat
    BY <1>6, <1>8, Zenon DEF IsCounters
  <2> QED
    BY <1>6, <2>1
<1>10. counts'.Ir + counts'.Dr <= MaxRefs
  BY <1>6 DEF IsCounters
<1>11. ResultIsFirstUntilSwitch'
  <2> SUFFICES ASSUME \A i \in Policy \ {0} : uses'[i] = 0
               PROVE  result'.D1 = shadow'[0].D1 /\ counts'.D1m = histories'[0].misses
    BY Zenon DEF ResultIsFirstUntilSwitch
  <2>1. func' = "LRU"
    BY <1>2, <1>3, <1>8 DEF is_miss_func
  <2>2. \A i \in Policy \ {0} : uses[i] = 0
    <3> TAKE i \in Policy \ {0}
    <3>1. uses[i] \in Nat /\ uses[i] <= uses'[i] /\ uses'[i] = 0
      BY <1>7, <1>8, Zenon
    <3> QED
      BY <3>1
  <2>3. result.D1 = shadow[0].D1 /\ counts.D1m = histories[0].misses
    BY <1>2, <1>7, <2>2, ZenonT(40) DEF ResultIsFirstUntilSwitch
  <2> QED
    BY <1>0, <1>1, <1>2, <1>4, <1>6, <2>1, <2>3, FirstFollowed, Zenon
<1> QED
  BY <1>2, <1>8, <1>9, <1>10, <1>11, Zenon DEF FirstInv

(* An instruction reference moves neither data cache, and counts no data.   *)
LEMMA InstrKeepsFirst ==
  ASSUME MaxRefs \in Nat, IInv, CountInv, FirstInv, NEW ref \in InstrRefs,
         I1_doref_NoX(ref) \/ I1_doref_Gen(ref)
  PROVE  FirstInv'
<1>a. InstrRefs \subseteq Refs /\ DataRefs \subseteq Refs /\ 0 \in Policy
  BY RefsAssumption, PoliciesAreNamed DEF Refs, Policy
<1>1. IInv'
  <2>1. Next
    BY Zenon DEF Next
  <2> QED
    BY <2>1, NextIInv
<1>2. /\ ShadowInstr(ref) /\ ResultInstr(func', ref) /\ More
      /\ UNCHANGED <<approach, histories, uses, selected>>
  BY DEF I1_doref_NoX, I1_doref_Gen, selectionVars
<1>3. shadow'[0].D1 = shadow[0].D1
  BY <1>a, <1>2, InstrLeavesData, Zenon
<1>4. result'.D1 = result.D1
  BY <1>2 DEF ResultInstr, AfterInstr
<1>5. counts'.Ir = counts.Ir + 1 /\ counts'.Dr = counts.Dr /\ counts'.D1m = counts.D1m
  <2>1. func' \in PolicyNames /\ ref \in Refs
    BY <1>a, <1>1, Zenon DEF IInv
  <2> QED
    BY <1>2, <2>1, ResultCounts
<1>6. counts'.Ir + counts'.Dr <= MaxRefs
  <2>1. IsCounters(counts) /\ counts.Ir + counts.Dr < MaxRefs
    BY <1>2, Zenon DEF More, CountInv
  <2> QED
    BY <1>5, <2>1 DEF IsCounters
<1>7. ResultIsFirstUntilSwitch => ResultIsFirstUntilSwitch'
  BY <1>2, <1>3, <1>4, <1>5, ZenonT(40) DEF ResultIsFirstUntilSwitch
<1> QED
  BY <1>2, <1>5, <1>6, <1>7, Zenon DEF FirstInv

(* Under FIXED_WINDOW nothing is said of the first policy.                  *)
LEMMA FixedKeepsFirst ==
  ASSUME MaxRefs \in Nat, IInv, CountInv, FirstInv, NEW ref \in DataRefs,
         D1_doref_fixed(ref)
  PROVE  FirstInv'
<1>1. approach' = "FIXED_WINDOW" /\ More
  BY DEF D1_doref_fixed, Sel!FillWindow, Sel!CloseWindow, DataMayCome
<1>2. IsCounters(counts) /\ counts'.Ir = counts.Ir /\ counts'.Dr = counts.Dr + 1
  BY Zenon DEF D1_doref_fixed, ChargeBest, CountInv, IsCounters
<1>3. counts'.Ir + counts'.Dr <= MaxRefs
  BY <1>1, <1>2 DEF More, IsCounters
<1> QED
  BY <1>1, <1>3 DEF FirstInv

(* Nor under a single policy and the adaptative one.                        *)
LEMMA SingleKeepsFirst ==
  ASSUME MaxRefs \in Nat, IInv, CountInv, FirstInv, NEW ref \in DataRefs,
         D1_doref_single(ref) \/ D1_doref_adaptative(ref)
  PROVE  FirstInv'
<1>a. InstrRefs \subseteq Refs /\ DataRefs \subseteq Refs /\ 0 \in Policy
  BY RefsAssumption, PoliciesAreNamed DEF Refs, Policy
<1>1. IInv'
  <2>1. Next
    BY Zenon DEF Next
  <2> QED
    BY <2>1, NextIInv
<1>2. approach' \notin {"SLIDING_WINDOW", "ONLINE"} /\ More /\ ResultData(func', ref)
  BY DEF D1_doref_single, D1_doref_adaptative, PolicyNames, DataMayCome
<1>3. counts'.Ir = counts.Ir /\ counts'.Dr = counts.Dr + 1
  <2>1. func' \in PolicyNames /\ ref \in Refs
    BY <1>a, <1>1, Zenon DEF IInv
  <2> QED
    BY <1>2, <2>1, ResultCounts, Zenon
<1>4. counts'.Ir + counts'.Dr <= MaxRefs
  BY <1>2, <1>3 DEF More, CountInv, IsCounters
<1> QED
  BY <1>2, <1>4, Zenon DEF FirstInv

(* Until the first switch the result caches are those of LRU, the first     *)
(* policy, and so are the misses reported: for windows longer than one, and *)
(* as long as no counter of the run can wrap.  With a window of one         *)
(* store_misses_history counts nothing.                                     *)
THEOREM ResultFollowsFirst ==
  ASSUME MaxRefs \in Nat, 2 * MaxRefs < ULongSize, Window # 1, miss_functions[1] = "LRU"
  PROVE  Spec => []ResultIsFirstUntilSwitch
<1>1. Init => FirstInv
  <2> SUFFICES ASSUME Init PROVE FirstInv
    OBVIOUS
  <2>1. 0 \in Policy
    BY PoliciesAreNamed DEF Policy
  <2>2. counts.Ir = 0 /\ counts.Dr = 0 /\ counts.D1m = 0
    BY Zenon DEF Init
  <2>3. ResultIsFirstUntilSwitch
    BY <2>1, <2>2, Zenon DEF Init, ResultIsFirstUntilSwitch, NewHistory
  <2>4. selected = 0 /\ uses \in [Policy -> Nat] /\ \A i \in Policy : uses[i] = 0
    BY DEF Init
  <2> QED
    BY <2>2, <2>3, <2>4 DEF FirstInv
<1>2. IInv /\ CountInv /\ FirstInv /\ [Next]_vars => FirstInv'
  <2> SUFFICES ASSUME IInv, CountInv, FirstInv, [Next]_vars PROVE FirstInv'
    BY Zenon
  <2>1. ASSUME UNCHANGED <<approach, result, shadowVars, selectionVars, counts>>
        PROVE  FirstInv'
    BY <2>1, Zenon DEF FirstInv, ResultIsFirstUntilSwitch, shadowVars, selectionVars
  <2> QED
    BY <2>1, InstrKeepsFirst, FixedKeepsFirst, SingleKeepsFirst, SwitchingKeepsFirst, Zenon
    DEF Next, vars, cg_set_cache_replacement_policy
<1>3. FirstInv => ResultIsFirstUntilSwitch
  BY DEF FirstInv, ResultIsFirstUntilSwitch
<1> QED
  BY <1>1, <1>2, <1>3, InitIInv, NextIInv, InitCountInv, NextCountInv, PTL DEF Spec
=============================================================================
