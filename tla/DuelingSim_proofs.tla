------------------------- MODULE DuelingSim_proofs --------------------------
(***************************************************************************)
(* Proofs about the approaches that let monitors choose the policy of D1,  *)
(* for every geometry, every width of the selectors and every set of       *)
(* references.                                                             *)
(***************************************************************************)
EXTENDS DuelingSim, CacheSim_proofs

(* DIP, DIP3, DIP3_AGEING and CACHE_DUELING.  What one block of a data      *)
(* reference works on is a record with these fields.                        *)
IsState(st) == DOMAIN st = {"D1", "mon", "psel", "hs", "uses", "blocks", "applied", "miss"}

(* DIP3 runs two of its monitors alike, and the selector between them stays *)
(* where it starts.  A selector that counts to one starts at its limit.     *)
Twins(app, st) ==
  app = "DIP3" => /\ st.mon[1].D1 = st.mon[0].D1
                  /\ PselMax # 1 => st.psel[1] = Psel_msb

(* A monitor is D1 as long as no other policy than its own was applied.     *)
Predicts(app, st) ==
  app \in {"DIP", "DIP3_AGEING"} /\ Throttle \in {0, 100} =>
    \A i \in Monitors(app) : st.applied \subseteq {is_miss_func(i)} => st.D1 = st.mon[i].D1

StateInv(app, st) ==
  /\ IsState(st)
  /\ GoodCache(st.D1, SetsL1)
  /\ GoodShadow(st.mon)
  /\ st.hs \in [Policy -> History]
  /\ st.miss \in Outcomes
  /\ Twins(app, st)
  /\ Predicts(app, st)

(* The first three policies are LRU, FIFO and BIP. *)
LEMMA MonitorsAreNamed ==
  /\ 0 .. 2 \subseteq Policy
  /\ is_miss_func(0) = "LRU" /\ is_miss_func(1) = "FIFO" /\ is_miss_func(2) = "BIP"
  /\ \A app : Monitors(app) \subseteq 0 .. 2
<1> DEFINE three == SubSeq(miss_functions, 1, 3)
<1>1. /\ miss_functions \in Seq(PolicyNames) /\ Len(miss_functions) >= 3
      /\ Len(miss_functions) \in Nat /\ three = <<"LRU", "FIFO", "BIP">>
  BY MissFunctionsAssumption, MonitorsAssumption
<1>2. \A k \in 1 .. 3 : three[k] = miss_functions[k]
  BY <1>1 DEF three
<1> HIDE DEF three
<1>3. miss_functions[1] = "LRU" /\ miss_functions[2] = "FIFO" /\ miss_functions[3] = "BIP"
  BY <1>1, <1>2
<1>4. 0 .. 2 \subseteq Policy
  BY <1>1 DEF Policy, POLICIES
<1> QED
  BY <1>3, <1>4 DEF is_miss_func, Monitors

(* Whatever is applied is one of the policies. *)
LEMMA ChoiceIsNamed ==
  ASSUME NEW hs \in [Policy -> History]
  PROVE  /\ Fewest(hs) \in PolicyNames
         /\ \A app, p : Choice(app, p, hs) \in PolicyNames
<1> DEFINE sc == [i \in 0 .. 3 - 1 |-> hs[i].historic]
<1>1. sc \in [0 .. 3 - 1 -> Nat]
  BY MonitorsAreNamed DEF History
<1> HIDE DEF sc
<1>2. \E i \in 0 .. 3 - 1 : \A j \in 0 .. 3 - 1 : sc[i] <= sc[j] /\ (j < i => sc[i] < sc[j])
  BY <1>1, FirstLeast
<1>3. \E i \in 0 .. 2 : \A j \in 0 .. 2 : /\ hs[i].historic <= hs[j].historic
                                          /\ j < i => hs[i].historic < hs[j].historic
  BY <1>2 DEF sc
<1>4. \E i \in 0 .. 2 : Fewest(hs) = is_miss_func(i)
  BY <1>3 DEF Fewest
<1>5. Fewest(hs) \in PolicyNames
  BY <1>4, MonitorsAreNamed, PoliciesAreNamed, Zenon
<1> QED
  BY <1>5 DEF Choice, PolicyNames

(* A monitor is referenced with one of the policies. *)
LEMMA MonitorOutcomesGood ==
  ASSUME NEW app \in Dips, NEW mon, GoodShadow(mon), NEW block \in Nat \ {0},
         NEW out \in MonitorOutcomes(app, mon, block), NEW i \in Monitors(app)
  PROVE  /\ i \in Policy
         /\ MonitorFunc(app, i) \in PolicyNames
         /\ out[i] \in SetrefOutcomes(SetsL1, MonitorFunc(app, i), mon[i].D1, block)
         /\ GoodCache(out[i].cache, SetsL1) /\ out[i].miss \in Outcomes
<1>1. i \in Policy
  BY MonitorsAreNamed
<1>2. MonitorFunc(app, i) \in PolicyNames
  BY <1>1, PoliciesAreNamed DEF MonitorFunc, PolicyNames
<1>3. out[i] \in SetrefOutcomes(SetsL1, MonitorFunc(app, i), mon[i].D1, block)
  BY DEF MonitorOutcomes
<1>4. GoodCache(mon[i].D1, SetsL1)
  BY <1>1 DEF GoodShadow, GoodCaches
<1> QED
  BY <1>1, <1>2, <1>3, <1>4, FreeAssumption, SetsAssumption, SetrefOutcomesGood, Zenon

(* What a block does under the DIP family, field by field, when the         *)
(* monitors have the outcomes out and D1 the outcome r.                     *)
DipEffect(app, st, out, r, block, new) ==
  LET f == Choice(app, new.psel, new.hs)
  IN  /\ IsState(new)
      /\ new.psel = NewPsel(app, st.psel, out)
      /\ new.hs = NewHistories(app, st.hs, out)
      /\ r \in SetrefOutcomes(SetsL1, f, st.D1, block)
      /\ new.D1 = r.cache /\ new.miss = r.miss
      /\ new.applied = st.applied \cup {f}
      /\ new.mon = [i \in Policy |-> IF i \in Monitors(app)
                                     THEN [st.mon[i] EXCEPT !.D1 = out[i].cache] ELSE st.mon[i]]
      /\ new.uses = st.uses /\ new.blocks = st.blocks

(* setref_dip does that. *)
LEMMA DipBlock ==
  ASSUME NEW app, NEW st, IsState(st), NEW block, NEW new \in setref_dip(app, st, block)
  PROVE  \E out \in MonitorOutcomes(app, st.mon, block) : \E r : DipEffect(app, st, out, r, block, new)
<1>1. PICK out \in MonitorOutcomes(app, st.mon, block) :
        LET p  == NewPsel(app, st.psel, out)
            hs == NewHistories(app, st.hs, out)
            f  == Choice(app, p, hs)
        IN  \E r \in SetrefOutcomes(SetsL1, f, st.D1, block) :
              new = [st EXCEPT !.D1 = r.cache, !.psel = p, !.hs = hs, !.miss = r.miss,
                               !.mon = [i \in Policy |-> IF i \in Monitors(app)
                                                         THEN [@[i] EXCEPT !.D1 = out[i].cache] ELSE @[i]],
                               !.applied = @ \cup {f}]
  BY Zenon DEF setref_dip
<1> DEFINE p  == NewPsel(app, st.psel, out)
           hs == NewHistories(app, st.hs, out)
           f  == Choice(app, p, hs)
           m  == [i \in Policy |-> IF i \in Monitors(app)
                                   THEN [st.mon[i] EXCEPT !.D1 = out[i].cache] ELSE st.mon[i]]
<1>2. PICK r \in SetrefOutcomes(SetsL1, f, st.D1, block) :
        new = [st EXCEPT !.D1 = r.cache, !.psel = p, !.hs = hs, !.miss = r.miss,
                         !.mon = m, !.applied = st.applied \cup {f}]
  BY <1>1, Zenon
<1> HIDE DEF p, hs, f, m
<1>3. /\ IsState(new) /\ new.D1 = r.cache /\ new.psel = p /\ new.hs = hs /\ new.miss = r.miss
      /\ new.mon = m /\ new.applied = st.applied \cup {f}
      /\ new.uses = st.uses /\ new.blocks = st.blocks
  BY <1>2 DEF IsState
<1>4. f = Choice(app, new.psel, new.hs)
  BY <1>3 DEF f
<1>5. DipEffect(app, st, out, r, block, new)
  BY <1>2, <1>3, <1>4, Zenon DEF p, hs, m, DipEffect
<1> QED
  BY <1>5

(* The policy applied to a block under CACHE_DUELING. *)
DuelChoice(st, block) ==
  IF LeaderOf(block % SetsL1) = {} THEN Fewest(st.hs)
  ELSE is_miss_func(CHOOSE i \in LeaderOf(block % SetsL1) : TRUE)

(* What a block does under CACHE_DUELING, field by field, when D1 has the   *)
(* outcome r.                                                               *)
DuelEffect(st, r, block, new) ==
  LET lead == LeaderOf(block % SetsL1)
  IN  /\ IsState(new)
      /\ r \in SetrefOutcomes(SetsL1, DuelChoice(st, block), st.D1, block)
      /\ new.D1 = r.cache /\ new.miss = r.miss
      /\ new.mon = st.mon /\ new.psel = st.psel
      /\ new.hs = [i \in Policy |-> IF i \in lead THEN store_misses_history(st.hs[i], r.miss)
                                                  ELSE st.hs[i]]
      /\ new.uses = [i \in Policy |-> IF i \in lead THEN (st.uses[i] + 1) % ULongSize
                                                    ELSE st.uses[i]]
      /\ new.blocks = (st.blocks + Cardinality(lead)) % ULongSize

(* setref_dueling does that. *)
LEMMA DuelingBlock ==
  ASSUME NEW st, IsState(st), NEW block, NEW new \in setref_dueling(st, block)
  PROVE  \E r : DuelEffect(st, r, block, new)
<1> DEFINE lead == LeaderOf(block % SetsL1)
           f    == DuelChoice(st, block)
           hs(r) == [i \in Policy |-> IF i \in lead THEN store_misses_history(st.hs[i], r.miss)
                                                    ELSE st.hs[i]]
           u    == [i \in Policy |-> IF i \in lead THEN (st.uses[i] + 1) % ULongSize ELSE st.uses[i]]
           b    == (st.blocks + Cardinality(lead)) % ULongSize
<1>1. PICK r \in SetrefOutcomes(SetsL1, f, st.D1, block) :
        new = [st EXCEPT !.D1 = r.cache, !.miss = r.miss, !.applied = st.applied \cup {f},
                         !.hs = hs(r), !.uses = u, !.blocks = b]
  BY Zenon DEF setref_dueling, DuelChoice
<1> DEFINE h == hs(r)
<1> HIDE DEF lead, f, h, u, b
<1>2. /\ IsState(new) /\ new.D1 = r.cache /\ new.miss = r.miss /\ new.mon = st.mon
      /\ new.psel = st.psel /\ new.hs = h /\ new.uses = u /\ new.blocks = b
  BY <1>1, Zenon DEF IsState, h
<1> QED
  BY <1>1, <1>2, Zenon DEF lead, f, h, u, b, DuelEffect

(* The policy of a leader set, and of one that follows. *)
LEMMA LeaderIsNamed ==
  ASSUME NEW st, st.hs \in [Policy -> History], NEW block
  PROVE  DuelChoice(st, block) \in PolicyNames
<1>1. LeaderOf(block % SetsL1) \subseteq Policy
  BY MonitorsAreNamed DEF LeaderOf
<1> QED
  BY <1>1, ChoiceIsNamed, PoliciesAreNamed, Zenon DEF DuelChoice

(* A selector moved up and down by the same outcome is back where it was,   *)
(* unless it was at its limit.                                              *)
LEMMA MovedBoth ==
  ASSUME NEW p \in Nat, p < PselMax, NEW v
  PROVE  Moved(p, v, v) = p
  BY PselAssumption DEF Moved

(* What is known of the monitors when DIP, DIP3 or DIP3_AGEING does a block. *)
DipStep(app, st, out, r, block, new) ==
  /\ app \in Dips
  /\ StateInv(app, st)
  /\ DipEffect(app, st, out, r, block, new)
  /\ \A i \in Monitors(app) :
       /\ i \in Policy
       /\ MonitorFunc(app, i) \in PolicyNames
       /\ out[i] \in SetrefOutcomes(SetsL1, MonitorFunc(app, i), st.mon[i].D1, block)
       /\ GoodCache(out[i].cache, SetsL1) /\ out[i].miss \in Outcomes

(* The histories stay records. *)
LEMMA DipKeepsHistories ==
  ASSUME NEW app, NEW st, NEW out, NEW r, NEW block, NEW new, DipStep(app, st, out, r, block, new)
  PROVE  new.hs \in [Policy -> History]
<1>1. new.hs = NewHistories(app, st.hs, out) /\ st.hs \in [Policy -> History]
  BY DEF DipStep, DipEffect, StateInv
<1>2. \A i \in Policy : new.hs[i] = IF app = "DIP3_AGEING" /\ i \in Monitors(app)
                                    THEN store_misses_history(st.hs[i], out[i].miss) ELSE st.hs[i]
  BY <1>1 DEF NewHistories
<1>3. \A i \in Policy : new.hs[i] \in History
  BY <1>1, <1>2, StoreIsHistory, Zenon DEF DipStep
<1>4. new.hs = [i \in Policy |-> new.hs[i]]
  BY <1>1 DEF NewHistories
<1> QED
  BY <1>3, <1>4, Zenon

(* D1 stays good, under the policy chosen. *)
LEMMA DipKeepsD1 ==
  ASSUME NEW app, NEW st, NEW out, NEW r, NEW block \in Nat \ {0}, NEW new,
         DipStep(app, st, out, r, block, new)
  PROVE  GoodCache(new.D1, SetsL1) /\ new.miss \in Outcomes
<1> DEFINE f == Choice(app, new.psel, new.hs)
<1>1. f \in PolicyNames
  BY DipKeepsHistories, ChoiceIsNamed, Zenon
<1>2. r \in SetrefOutcomes(SetsL1, f, st.D1, block) /\ new.D1 = r.cache /\ new.miss = r.miss
  BY DEF DipStep, DipEffect
<1>3. GoodCache(st.D1, SetsL1)
  BY DEF DipStep, StateInv
<1> HIDE DEF f
<1> QED
  BY <1>1, <1>2, <1>3, FreeAssumption, SetsAssumption, SetrefOutcomesGood, Zenon

(* A monitor that is referenced has what its own outcome says, and all of   *)
(* them stay good.                                                          *)
LEMMA DipKeepsMonitors ==
  ASSUME NEW app, NEW st, NEW out, NEW r, NEW block, NEW new, DipStep(app, st, out, r, block, new)
  PROVE  /\ GoodShadow(new.mon)
         /\ \A i \in Monitors(app) : new.mon[i].D1 = out[i].cache
<1>1. /\ new.mon = [i \in Policy |-> IF i \in Monitors(app)
                                     THEN [st.mon[i] EXCEPT !.D1 = out[i].cache] ELSE st.mon[i]]
      /\ GoodShadow(st.mon)
  BY DEF DipStep, DipEffect, StateInv
<1>2. \A i \in Monitors(app) : i \in Policy /\ GoodCache(out[i].cache, SetsL1)
  BY DEF DipStep
<1>3. ASSUME NEW i \in Policy
      PROVE  /\ GoodCaches(new.mon[i])
             /\ i \in Monitors(app) => new.mon[i].D1 = out[i].cache
  <2>1. new.mon[i] = IF i \in Monitors(app) THEN [st.mon[i] EXCEPT !.D1 = out[i].cache] ELSE st.mon[i]
    BY <1>1
  <2>2. GoodCaches(st.mon[i])
    BY <1>1, Zenon DEF GoodShadow
  <2>3. CASE i \in Monitors(app)
    <3>1. /\ st.mon[i] \in Caches
          /\ GoodCache(st.mon[i].I1, SetsL1) /\ GoodCache(st.mon[i].LL, SetsLL)
      BY <2>2, Zenon DEF GoodCaches
    <3>2. new.mon[i] = [I1 |-> st.mon[i].I1, D1 |-> out[i].cache, LL |-> st.mon[i].LL]
      BY <2>1, <2>3, <3>1, Zenon DEF Caches
    <3> QED
      BY <1>2, <2>3, <3>1, <3>2, ThreeAreGood
  <2>4. CASE i \notin Monitors(app)
    BY <2>1, <2>2, <2>4, Zenon
  <2> QED
    BY <2>3, <2>4, Zenon
<1>4. new.mon = [i \in Policy |-> new.mon[i]]
  BY <1>1
<1> QED
  BY <1>2, <1>3, <1>4, Zenon DEF GoodShadow, GoodCaches

(* The two monitors that DIP3 runs with LRU stay alike. *)
LEMMA DipKeepsTwins ==
  ASSUME NEW app, NEW st, NEW out, NEW r, NEW block, NEW new, DipStep(app, st, out, r, block, new)
  PROVE  Twins(app, new)
<1> SUFFICES ASSUME app = "DIP3"
             PROVE  new.mon[1].D1 = new.mon[0].D1 /\ (PselMax # 1 => new.psel[1] = Psel_msb)
  BY DEF Twins
<1>1. 0 \in Monitors(app) /\ 1 \in Monitors(app)
  BY DEF Monitors
<1>2. MonitorFunc(app, 0) = "LRU" /\ MonitorFunc(app, 1) = "LRU" /\ Deterministic("LRU")
  BY MonitorsAreNamed, Zenon DEF MonitorFunc, Deterministic
<1>3. Twins(app, st)
  BY DEF DipStep, StateInv
<1>4. out[1] = out[0]
  <2>1. /\ out[0] \in SetrefOutcomes(SetsL1, "LRU", st.mon[0].D1, block)
        /\ out[1] \in SetrefOutcomes(SetsL1, "LRU", st.mon[1].D1, block)
    BY <1>1, <1>2, Zenon DEF DipStep
  <2>2. st.mon[1].D1 = st.mon[0].D1
    BY <1>3 DEF Twins
  <2> QED
    BY <1>2, <2>1, <2>2, OneOutcome, Zenon
<1>5. ASSUME PselMax # 1
      PROVE  new.psel[1] = Psel_msb
  <2>1. st.psel[1] = Psel_msb
    BY <1>3, <1>5, Zenon DEF Twins
  <2>2. new.psel = NewPsel(app, st.psel, out)
    BY DEF DipStep, DipEffect
  <2>3. new.psel[1] = Moved(st.psel[1], out[0].miss, out[1].miss)
    BY <2>2 DEF NewPsel
  <2>4. Psel_msb \in Nat /\ Psel_msb < PselMax
    BY <1>5, PselAssumption DEF Psel_msb
  <2> QED
    BY <1>4, <2>1, <2>3, <2>4, MovedBoth, Zenon
<1> QED
  BY <1>1, <1>4, <1>5, DipKeepsMonitors

(* As long as D1 is given to one policy, its monitor predicts D1. *)
LEMMA DipKeepsPredictions ==
  ASSUME NEW app, NEW st, NEW out, NEW r, NEW block, NEW new, DipStep(app, st, out, r, block, new)
  PROVE  Predicts(app, new)
<1> SUFFICES ASSUME app \in {"DIP", "DIP3_AGEING"}, Throttle \in {0, 100},
                    NEW i \in Monitors(app), new.applied \subseteq {is_miss_func(i)}
             PROVE  new.D1 = new.mon[i].D1
  BY DEF Predicts
<1> DEFINE f == Choice(app, new.psel, new.hs)
<1>1. /\ r \in SetrefOutcomes(SetsL1, f, st.D1, block)
      /\ new.D1 = r.cache /\ new.applied = st.applied \cup {f}
  BY DEF DipStep, DipEffect
<1> HIDE DEF f
<1>2. i \in 0 .. 2 /\ MonitorFunc(app, i) = is_miss_func(i)
  BY DEF MonitorFunc, Monitors
<1>3. f = is_miss_func(i) /\ st.applied \subseteq {is_miss_func(i)}
  BY <1>1
<1>4. st.D1 = st.mon[i].D1
  <2>1. Predicts(app, st)
    BY DEF DipStep, StateInv
  <2> QED
    BY <1>3, <2>1, Zenon DEF Predicts
<1>5. Deterministic(f)
  BY <1>2, <1>3, MonitorsAreNamed DEF Deterministic
<1>6. out[i] \in SetrefOutcomes(SetsL1, f, st.D1, block)
  BY <1>2, <1>3, <1>4, Zenon DEF DipStep
<1>7. r = out[i]
  BY <1>1, <1>5, <1>6, OneOutcome
<1> QED
  BY <1>1, <1>7, DipKeepsMonitors

(* CACHE_DUELING keeps D1 good and the histories records. *)
LEMMA DuelingKeeps ==
  ASSUME NEW st, StateInv("CACHE_DUELING", st), NEW block \in Nat \ {0},
         NEW new \in setref_dueling(st, block)
  PROVE  StateInv("CACHE_DUELING", new)
<1>0. GoodCache(st.D1, SetsL1) /\ GoodShadow(st.mon) /\ st.hs \in [Policy -> History] /\ IsState(st)
  BY DEF StateInv
<1> DEFINE lead == LeaderOf(block % SetsL1)
<1>1. PICK r : DuelEffect(st, r, block, new)
  BY <1>0, DuelingBlock
<1>2. /\ r \in SetrefOutcomes(SetsL1, DuelChoice(st, block), st.D1, block)
      /\ DuelChoice(st, block) \in PolicyNames
      /\ IsState(new)
      /\ new.D1 = r.cache /\ new.miss = r.miss /\ new.mon = st.mon
      /\ new.hs = [i \in Policy |-> IF i \in lead THEN store_misses_history(st.hs[i], r.miss)
                                                  ELSE st.hs[i]]
  BY <1>0, <1>1, LeaderIsNamed, Zenon DEF DuelEffect
<1> HIDE DEF lead
<1>3. GoodCache(new.D1, SetsL1) /\ new.miss \in Outcomes /\ r.miss \in Outcomes
  BY <1>0, <1>2, FreeAssumption, SetsAssumption, SetrefOutcomesGood
<1>4. \A i \in Policy : new.hs[i] \in History
  BY <1>0, <1>2, <1>3, StoreIsHistory
<1>5. new.hs \in [Policy -> History]
  BY <1>2, <1>4, Zenon
<1>6. Twins("CACHE_DUELING", new) /\ Predicts("CACHE_DUELING", new)
  BY DEF Twins, Predicts
<1> QED
  BY <1>0, <1>2, <1>3, <1>5, <1>6, Zenon DEF StateInv

(* A block leaves good caches, twins and exact predictions. *)
LEMMA BlockKeeps ==
  ASSUME NEW app \in Duels, NEW st, StateInv(app, st), NEW block \in Nat \ {0},
         NEW new \in DuelSetref(app, st, block)
  PROVE  StateInv(app, new)
<1>1. CASE app \in Dips
  <2>1. PICK out \in MonitorOutcomes(app, st.mon, block) :
          \E r : DipEffect(app, st, out, r, block, new)
    BY <1>1, DipBlock, Zenon DEF DuelSetref, StateInv
  <2>2. PICK r : DipEffect(app, st, out, r, block, new)
    BY <2>1, Zenon
  <2>3. DipStep(app, st, out, r, block, new)
    BY <1>1, <2>2, MonitorOutcomesGood, Zenon DEF DipStep, StateInv
  <2>4. IsState(new)
    BY <2>2 DEF DipEffect
  <2> QED
    BY <2>3, <2>4, DipKeepsHistories, DipKeepsD1, DipKeepsMonitors, DipKeepsTwins,
       DipKeepsPredictions, Zenon DEF StateInv
<1>2. CASE app = "CACHE_DUELING"
  BY <1>2, DuelingKeeps, Zenon DEF DuelSetref, Dips
<1> QED
  BY <1>1, <1>2, Zenon DEF Duels

(* So does a reference, which may straddle two lines. *)
LEMMA DuelRefKeeps ==
  ASSUME NEW app \in Duels, NEW st, StateInv(app, st), NEW ref \in Refs,
         NEW new \in DuelRef(app, st, ref)
  PROVE  StateInv(app, new)
<1>1. ref[1] \in Nat \ {0} /\ (Len(ref) # 1 => ref[2] \in Nat \ {0})
  BY DEF Refs
<1>2. CASE Len(ref) = 1
  BY <1>1, <1>2, BlockKeeps, ZenonT(40) DEF DuelRef
<1>3. CASE Len(ref) # 1
  <2>0. PICK p \in DuelSetref(app, st, ref[1]) : \E q \in DuelSetref(app, p, ref[2]) :
          new = [q EXCEPT !.miss = IF p.miss = 1 THEN 1 ELSE q.miss]
    BY <1>3 DEF DuelRef
  <2>1. PICK q \in DuelSetref(app, p, ref[2]) :
          new = [q EXCEPT !.miss = IF p.miss = 1 THEN 1 ELSE q.miss]
    BY <2>0, Zenon
  <2>2. StateInv(app, p)
    BY <1>1, BlockKeeps, Zenon
  <2>3. StateInv(app, q)
    BY <1>1, <1>3, <2>2, BlockKeeps, Zenon
  <2>4. /\ IsState(new) /\ new.D1 = q.D1 /\ new.mon = q.mon /\ new.psel = q.psel /\ new.hs = q.hs
        /\ new.applied = q.applied /\ new.miss \in Outcomes
    BY <2>1, <2>3, Zenon DEF StateInv, IsState, Outcomes
  <2> QED
    BY <2>3, <2>4, Zenon DEF StateInv, Twins, Predicts
<1> QED
  BY <1>2, <1>3, Zenon

(* The misses of LL that CACHE_DUELING stores are a number. *)
LEMMA StoredIsNat ==
  ASSUME NEW ll, GoodCache(ll, SetsLL), NEW ref \in Refs
  PROVE  StoredLL(ll, ref) \in Nat
<1> DEFINE one(c, b) == CHOOSE o \in SetrefOutcomes(SetsLL, "LRU", c, b) : TRUE
<1>1. ref[1] \in Nat \ {0} /\ (Len(ref) # 1 => ref[2] \in Nat \ {0})
  BY DEF Refs
<1>2. ASSUME NEW c, GoodCache(c, SetsLL), NEW b \in Nat \ {0}
      PROVE  GoodCache(one(c, b).cache, SetsLL) /\ one(c, b).miss \in Nat
  <2>1. \E o : o \in SetrefOutcomes(SetsLL, "LRU", c, b)
    BY Zenon DEF SetrefOutcomes, Setref
  <2>2. one(c, b) \in SetrefOutcomes(SetsLL, "LRU", c, b)
    BY <2>1
  <2> HIDE DEF one
  <2>3. "LRU" \in PolicyNames
    BY DEF PolicyNames
  <2> QED
    BY <1>2, <2>2, <2>3, FreeAssumption, SetsAssumption, SetrefOutcomesGood DEF Outcomes
<1>3. StoredLL(ll, ref) = IF Window = 1 THEN 0
                          ELSE one(ll, ref[1]).miss
                               + IF Len(ref) = 1 THEN 0 ELSE one(one(ll, ref[1]).cache, ref[2]).miss
  BY DEF StoredLL
<1> HIDE DEF one
<1>4. GoodCache(one(ll, ref[1]).cache, SetsLL) /\ one(ll, ref[1]).miss \in Nat
  BY <1>1, <1>2, Zenon
<1>5. Len(ref) # 1 => one(one(ll, ref[1]).cache, ref[2]).miss \in Nat
  BY <1>1, <1>2, <1>4, Zenon
<1> QED
  BY <1>3, <1>4, <1>5

(* The invariant of the simulator with these functions. *)
DuelInv == IInv /\ CountInv /\ (approach \in Duels => StateInv(approach, BeforeRef))

(* The simulator starts in the invariant. *)
LEMMA InitDuelInv == DuelInit => DuelInv
<1> SUFFICES ASSUME DuelInit, approach \in Duels PROVE StateInv(approach, BeforeRef)
  BY InitIInv, InitCountInv, Zenon DEF DuelInv, DuelInit
<1>1. IInv
  BY InitIInv, Zenon DEF DuelInit
<1>2. IsState(BeforeRef)
  BY DEF IsState, BeforeRef
<1>3. /\ BeforeRef.D1 = result.D1 /\ BeforeRef.mon = shadow /\ BeforeRef.hs = histories
      /\ BeforeRef.psel = psel /\ BeforeRef.applied = applied /\ BeforeRef.miss = 0
  BY DEF BeforeRef
<1>4. Twins(approach, BeforeRef) /\ Predicts(approach, BeforeRef)
  <2>1. shadow = [i \in Policy |-> EmptyCaches] /\ result = EmptyCaches
    BY DEF DuelInit, Init
  <2>2. psel[1] = Psel_msb
    BY DEF DuelInit
  <2>3. 0 \in Policy /\ 1 \in Policy /\ Monitors(approach) \subseteq Policy
    BY MonitorsAreNamed
  <2> QED
    BY <1>3, <2>1, <2>2, <2>3 DEF Twins, Predicts
<1> QED
  BY <1>1, <1>2, <1>3, <1>4, Zenon DEF StateInv, IInv, GoodShadow, GoodCaches, Outcomes

(* A step of the simulator that is not a data reference leaves D1, the      *)
(* monitors and the selection alone when one of these functions is used.    *)
LEMMA NextLeavesDuels ==
  ASSUME IInv, Next, UNCHANGED duelVars
  PROVE  approach' = approach /\ (approach \in Duels => BeforeRef' = BeforeRef)
<1>1. ASSUME NEW ref, I1_doref_NoX(ref) \/ I1_doref_Gen(ref)
      PROVE  approach' = approach /\ (approach \in Duels => BeforeRef' = BeforeRef)
  <2>1. approach' = approach /\ UNCHANGED selectionVars
    BY <1>1, Zenon DEF I1_doref_NoX, I1_doref_Gen
  <2>2. approach \in Duels => shadow' = shadow
    BY <1>1 DEF I1_doref_NoX, I1_doref_Gen, ShadowInstr, Selecting, Duels, Dips
  <2>3. result'.D1 = result.D1
    <3>1. PICK f : ResultInstr(f, ref)
      BY <1>1, Zenon DEF I1_doref_NoX, I1_doref_Gen
    <3> QED
      BY <3>1 DEF ResultInstr, AfterInstr
  <2> QED
    BY <2>1, <2>2, <2>3, Zenon DEF BeforeRef, selectionVars, duelVars
<1>2. ASSUME NEW ref, \/ D1_doref_fixed(ref) \/ D1_doref_switching(ref)
                      \/ D1_doref_single(ref) \/ D1_doref_adaptative(ref)
      PROVE  approach' = approach /\ approach \notin Duels
  BY <1>2, Zenon DEF D1_doref_fixed, D1_doref_switching, D1_doref_single, D1_doref_adaptative,
              Sel!FillWindow, Sel!CloseWindow, Sel!Reselect, Duels, Dips, PolicyNames
<1>3. ASSUME NEW p, cg_set_cache_replacement_policy(p)
      PROVE  approach' = approach /\ BeforeRef' = BeforeRef
  BY <1>3 DEF cg_set_cache_replacement_policy, BeforeRef, shadowVars, selectionVars, duelVars
<1> QED
  BY <1>1, <1>2, <1>3, Zenon DEF Next

(* What a reference stores for the last level is counted in a counter. *)
LEMMA MissesStayNat ==
  ASSUME IInv, CountInv, NEW ref \in Refs,
         \/ misses_DL' = misses_DL
         \/ misses_DL' = [misses_DL EXCEPT ![0] = @ + StoredLL(result.LL, ref)]
  PROVE  misses_DL' \in [Policy -> Nat]
<1>1. StoredLL(result.LL, ref) \in Nat
  BY StoredIsNat, Zenon DEF IInv, GoodCaches
<1>2. misses_DL \in [Policy -> Nat] /\ 0 \in Policy
  BY MonitorsAreNamed DEF CountInv
<1> QED
  BY <1>1, <1>2

(* An instruction reference keeps the invariant. *)
LEMMA InstrKeepsDuels ==
  ASSUME DuelInv, NEW ref \in InstrRefs, I1_doref_dueling(ref)
  PROVE  DuelInv'
<1>a. InstrRefs \subseteq Refs /\ DataRefs \subseteq Refs /\ "LRU" \in PolicyNames
  BY RefsAssumption DEF Refs, PolicyNames
<1>b. IInv /\ CountInv /\ (approach \in Duels => StateInv(approach, BeforeRef))
  BY DEF DuelInv
<1>1. ResultInstr(func, ref) /\ func \in PolicyNames
  BY <1>b, Zenon DEF I1_doref_dueling, IInv
<1>2. /\ approach' = approach /\ func' = func /\ shadow' = shadow /\ imisses' = imisses
      /\ UNCHANGED selectionVars /\ UNCHANGED duelVars
  BY Zenon DEF I1_doref_dueling, shadowVars
<1>3. IInv'
  BY <1>a, <1>b, <1>1, <1>2, ResultGood, Zenon DEF IInv, selectionVars
<1>4. PICK out : /\ MissesOnce(out)
                 /\ IsCounters(counts')
                 /\ counts'.Ir = counts.Ir + 1
                 /\ counts'.I1mr = counts.I1mr + out.m1
                 /\ counts'.ILmr = counts.ILmr + out.mL
                 /\ counts'.Dr = counts.Dr /\ counts'.D1m = counts.D1m
                 /\ counts'.DLm = counts.DLm
  BY <1>a, <1>b, <1>1, ResultCounts, Zenon
<1>5. OneMissPerInstrRef'
  BY <1>b, <1>4 DEF OneMissPerInstrRef, MissesOnce, Outcomes, CountInv, IsCounters,
                          I1_doref_dueling
<1>6. misses_DL' \in [Policy -> Nat]
  BY <1>a, <1>b, MissesStayNat, Zenon DEF I1_doref_dueling, CountLL
<1>7. CountInv'
  BY <1>b, <1>2, <1>4, <1>5, <1>6, Zenon DEF CountInv, selectionVars, I1_doref_dueling
<1>8. result'.D1 = result.D1
  BY <1>1 DEF ResultInstr, AfterInstr
<1>9. BeforeRef' = BeforeRef
  BY <1>2, <1>8, Zenon DEF BeforeRef, selectionVars, duelVars
<1>10. (approach \in Duels => StateInv(approach, BeforeRef))'
  BY <1>b, <1>2, <1>9, Zenon
<1> QED
  BY <1>3, <1>7, <1>10, Zenon DEF DuelInv

(* A data reference keeps it. *)
LEMMA DataKeepsDuels ==
  ASSUME DuelInv, NEW ref \in DataRefs, D1_doref_dueling(ref)
  PROVE  DuelInv'
<1>a. InstrRefs \subseteq Refs /\ DataRefs \subseteq Refs /\ "LRU" \in PolicyNames
  BY RefsAssumption DEF Refs, PolicyNames
<1>b. IInv /\ CountInv /\ (approach \in Duels => StateInv(approach, BeforeRef))
  BY DEF DuelInv
<1>1. approach \in Duels /\ approach # "FIXED_WINDOW" /\ approach' = approach
  BY DEF D1_doref_dueling, Duels, Dips
<1>2. PICK st \in DuelRef(approach, BeforeRef, ref) :
        /\ \E l \in IF st.miss = 1 THEN RefOutcomes(SetsLL, "LRU", result.LL, ref)
                                  ELSE {[cache |-> result.LL, miss |-> 0]} :
             /\ result' = [I1 |-> result.I1, D1 |-> st.D1, LL |-> l.cache]
             /\ counts' = [counts EXCEPT !.Dr = @ + 1, !.D1m = @ + st.miss, !.DLm = @ + l.miss]
        /\ CountLL(st.miss = 1, ref)
        /\ shadow' = st.mon
        /\ psel' = st.psel
        /\ histories' = st.hs
        /\ applied' = st.applied
  BY Zenon DEF D1_doref_dueling
<1>3. PICK l \in IF st.miss = 1 THEN RefOutcomes(SetsLL, "LRU", result.LL, ref)
                                ELSE {[cache |-> result.LL, miss |-> 0]} :
             /\ result' = [I1 |-> result.I1, D1 |-> st.D1, LL |-> l.cache]
             /\ counts' = [counts EXCEPT !.Dr = @ + 1, !.D1m = @ + st.miss, !.DLm = @ + l.miss]
  BY <1>2, Zenon
<1>4. StateInv(approach, st)
  BY <1>a, <1>b, <1>1, DuelRefKeeps, Zenon
<1>5. GoodCache(result.I1, SetsL1) /\ GoodCache(result.LL, SetsLL)
  BY <1>b DEF IInv, GoodCaches
<1>6. GoodCache(l.cache, SetsLL) /\ l.miss \in Outcomes /\ (st.miss # 1 => l.miss = 0)
  BY <1>a, <1>3, <1>5, FreeAssumption, SetsAssumption, RefOutcomesGood DEF Outcomes
<1>7. GoodCaches(result')
  BY <1>3, <1>4, <1>5, <1>6, ThreeAreGood, Zenon DEF StateInv
<1>8. func' = func /\ selected' = selected /\ blocks' = blocks /\ imisses' = imisses
  BY Zenon DEF D1_doref_dueling
<1>9. IInv'
  BY <1>b, <1>1, <1>2, <1>4, <1>7, <1>8, Zenon DEF IInv, StateInv, GoodShadow
<1>10. IsCounters(counts) /\ st.miss \in {0, 1} /\ l.miss \in {0, 1} /\ l.miss <= st.miss
  <2>1. IsCounters(counts) /\ st.miss \in Outcomes /\ l.miss \in Outcomes
    BY <1>b, <1>4, <1>6, Zenon DEF CountInv, StateInv
  <2> QED
    BY <1>6, <2>1 DEF Outcomes
<1>11. /\ IsCounters(counts')
       /\ counts'.Ir = counts.Ir /\ counts'.I1mr = counts.I1mr /\ counts'.ILmr = counts.ILmr
       /\ counts'.Dr = counts.Dr + 1 /\ counts'.D1m = counts.D1m + st.miss
       /\ counts'.DLm = counts.DLm + l.miss
  BY <1>3, <1>10 DEF IsCounters
<1>12. misses_DL' \in [Policy -> Nat]
  BY <1>a, <1>b, <1>2, MissesStayNat, Zenon DEF CountLL
<1>13. counts'.DLm <= counts'.D1m /\ counts'.D1m <= counts'.Dr /\ OneMissPerInstrRef'
  BY <1>b, <1>1, <1>10, <1>11 DEF CountInv, IsCounters, OneMissPerInstrRef
<1>14. CountInv'
  BY <1>b, <1>1, <1>8, <1>11, <1>12, <1>13, Zenon DEF CountInv
<1>15. IsState(BeforeRef')
  BY Zenon DEF IsState, BeforeRef
<1>16. /\ BeforeRef'.D1 = st.D1 /\ BeforeRef'.mon = st.mon /\ BeforeRef'.hs = st.hs
       /\ BeforeRef'.psel = st.psel /\ BeforeRef'.applied = st.applied /\ BeforeRef'.miss = 0
  BY <1>2, <1>3, Zenon DEF BeforeRef
<1>17. StateInv(approach', BeforeRef')
  BY <1>1, <1>4, <1>15, <1>16, ZenonT(40) DEF StateInv, Twins, Predicts, Outcomes
<1> QED
  BY <1>9, <1>14, <1>17, Zenon DEF DuelInv

(* Every step keeps the invariant. *)
LEMMA NextDuelInv == DuelInv /\ [DuelNext]_<<vars, duelVars>> => DuelInv'
<1> SUFFICES ASSUME DuelInv, [DuelNext]_<<vars, duelVars>> PROVE DuelInv'
  OBVIOUS
<1>1. IInv /\ CountInv /\ (approach \in Duels => StateInv(approach, BeforeRef))
  BY DEF DuelInv
<1>2. CASE Next /\ UNCHANGED duelVars
  <2>1. IInv' /\ CountInv'
    BY <1>1, <1>2, NextIInv, NextCountInv, Zenon
  <2>2. approach' = approach /\ (approach \in Duels => BeforeRef' = BeforeRef)
    BY <1>1, <1>2, NextLeavesDuels, Zenon
  <2>3. approach' \in Duels => StateInv(approach', BeforeRef')
    BY <1>1, <2>2, Zenon
  <2>4. (approach \in Duels => StateInv(approach, BeforeRef))'
    BY <2>3, Zenon DEF StateInv, IsState, Twins, Predicts
  <2> QED
    BY <2>1, <2>4, Zenon DEF DuelInv
<1>3. CASE UNCHANGED <<vars, duelVars>>
  <2>1. IInv' /\ CountInv'
    BY <1>1, <1>3, NextIInv, NextCountInv, Zenon
  <2>2. approach' = approach /\ BeforeRef' = BeforeRef
    BY <1>3, Zenon DEF BeforeRef, vars, duelVars, shadowVars, selectionVars
  <2>3. (approach \in Duels => StateInv(approach, BeforeRef))'
    BY <1>1, <2>2, Zenon
  <2> QED
    BY <2>1, <2>3 DEF DuelInv
<1> QED
  BY <1>2, <1>3, InstrKeepsDuels, DataKeepsDuels, Zenon DEF DuelNext

(* The functions that keep state of their own keep the caches sane too:     *)
(* whichever of DIP, DIP3, DIP3_AGEING and CACHE_DUELING is in force, no    *)
(* cache and no monitor holds a block twice or in a set where               *)
(* cachesim_ref_is_miss would not look for it.                              *)
THEOREM DuelsStaySane == DuelSpec => []CachesSane
  BY InitDuelInv, NextDuelInv, SaneWhenGood, PTL DEF DuelSpec, DuelInv

(* And each reference is counted as one miss at most at each level.         *)
THEOREM DuelsCountOnce == DuelSpec => []MissesCountOnce
<1>1. DuelInv => MissesCountOnce
  BY DEF DuelInv, CountInv, MissesCountOnce, OneMissPerDataRef, IsCounters
<1> QED
  BY <1>1, InitDuelInv, NextDuelInv, PTL DEF DuelSpec

(* DIP3 references the monitor of FIFO with LRU.  So the two monitors are   *)
(* the same for ever, the selector psel_1 between them never moves, and     *)
(* DIP3 cannot tell FIFO from LRU.  A selector whose limit is one is the    *)
(* exception: it starts at its limit, and goes down at the first miss.      *)
THEOREM Dip3CannotTell ==
  ASSUME PselMax # 1
  PROVE  DuelSpec => []FifoMonitorTwinsLru
<1>1. DuelInv => FifoMonitorTwinsLru
  <2> SUFFICES ASSUME DuelInv, approach = "DIP3"
               PROVE  shadow[1].D1 = shadow[0].D1 /\ psel[1] = Psel_msb
    BY DEF FifoMonitorTwinsLru
  <2>1. Twins("DIP3", BeforeRef)
    BY DEF DuelInv, Duels, Dips, StateInv
  <2>2. BeforeRef.mon = shadow /\ BeforeRef.psel = psel
    BY DEF BeforeRef
  <2> QED
    BY <2>1, <2>2, Zenon DEF Twins
<1> QED
  BY <1>1, InitDuelInv, NextDuelInv, PTL DEF DuelSpec

(* Under DIP and DIP3_AGEING, as long as only one policy has been applied   *)
(* to D1 its monitor holds exactly what D1 does, block for block, when BIP  *)
(* throws no dice.                                                          *)
THEOREM MonitorsPredict == DuelSpec => []MonitorPredictsResult
<1>1. DuelInv => MonitorPredictsResult
  <2> SUFFICES ASSUME DuelInv, approach \in {"DIP", "DIP3_AGEING"}, Throttle \in {0, 100},
                      NEW i \in Monitors(approach), applied = {is_miss_func(i)}
               PROVE  result.D1 = shadow[i].D1
    BY Zenon DEF MonitorPredictsResult
  <2>1. Predicts(approach, BeforeRef)
    BY Zenon DEF DuelInv, Duels, Dips, StateInv
  <2>2. BeforeRef.mon = shadow /\ BeforeRef.D1 = result.D1 /\ BeforeRef.applied = applied
    BY DEF BeforeRef
  <2> QED
    BY <2>1, <2>2, Zenon DEF Predicts
<1> QED
  BY <1>1, InitDuelInv, NextDuelInv, PTL DEF DuelSpec

-----------------------------------------------------------------------------

(* The uses of the leaders, with the blocks that went to one. *)
Shares(u, b, n, m) ==
  /\ u \in [Policy -> Nat]
  /\ \A i \in Policy : u[i] <= n
  /\ SumFunction(u) \in Int
  /\ b \in Nat /\ b <= m

(* Under CACHE_DUELING a data reference counts at most two uses, and three  *)
(* blocks at most.                                                          *)
LeadInv ==
  approach = "CACHE_DUELING" =>
    /\ counts.Ir + counts.Dr <= MaxRefs
    /\ Shares(uses, data_blocks, 2 * counts.Dr, 3 * counts.Dr)
    /\ SumFunction(uses) + counts.Dr = data_blocks

(* A counter below the limit of its type is not reduced. *)
LEMMA NoWrap ==
  ASSUME NEW n \in Nat, n < ULongSize
  PROVE  n % ULongSize = n
<1>1. ULongSize \in Nat \ {0} /\ n \in 0 .. ULongSize - 1
  BY ULongAssumption, WindowAssumption
<1>2. (ULongSize * 0 + n) % ULongSize = n
  BY <1>1, DivModUnique
<1> QED
  BY <1>1, <1>2

(* A set is a leader of one policy at most. *)
LEMMA OneLeader ==
  ASSUME NEW s
  PROVE  LeaderOf(s) = {} \/ \E i \in Policy : LeaderOf(s) = {i}
<1>1. \A i, j \in LeaderOf(s) : i = j
  <2> SUFFICES ASSUME NEW i \in LeaderOf(s), NEW j \in LeaderOf(s), i < j PROVE FALSE
    BY DEF LeaderOf
  <2>1. i \in 0 .. j - 1 /\ s \in Leaders(i)
    BY DEF LeaderOf
  <2>2. \A k \in 0 .. j - 1 : s \notin Leaders(k)
    BY DEF LeaderOf
  <2> QED
    BY <2>1, <2>2, Zenon
<1>2. LeaderOf(s) \subseteq Policy
  BY MonitorsAreNamed, Zenon DEF LeaderOf
<1> QED
  BY <1>1, <1>2, Zenon

(* A block in a leader set is one more use and one more block. *)
LEMMA BlockShares ==
  ASSUME NEW st, NEW r, NEW block, NEW new, DuelEffect(st, r, block, new), NEW n \in Nat, NEW m \in Nat,
         Shares(st.uses, st.blocks, n, m), n + 1 < ULongSize, m + 1 < ULongSize
  PROVE  /\ Shares(new.uses, new.blocks, n + 1, m + 1)
         /\ SumFunction(new.uses) - new.blocks = SumFunction(st.uses) - st.blocks
<1> DEFINE lead == LeaderOf(block % SetsL1)
           u == st.uses
           w == new.uses
<1>0. /\ u \in [Policy -> Nat] /\ SumFunction(u) \in Int /\ \A i \in Policy : u[i] <= n
      /\ st.blocks \in Nat /\ st.blocks <= m
  BY Zenon DEF Shares
<1>1. /\ w = [i \in Policy |-> IF i \in lead THEN (u[i] + 1) % ULongSize ELSE u[i]]
      /\ new.blocks = (st.blocks + Cardinality(lead)) % ULongSize
  BY DEF DuelEffect
<1>2. lead = {} \/ \E i \in Policy : lead = {i}
  BY OneLeader, ZenonT(40)
<1> HIDE DEF lead, u, w
<1>3. CASE lead = {}
  <2>1. Cardinality(lead) = 0
    BY <1>3, FS_EmptySet, Zenon
  <2>2. new.blocks = st.blocks
    <3>1. new.blocks = st.blocks % ULongSize
      BY <1>0, <1>1, <2>1
    <3>2. st.blocks < ULongSize
      BY <1>0, ULongAssumption
    <3> QED
      BY <1>0, <3>1, <3>2, NoWrap, Zenon
  <2>3. w = u
    BY <1>0, <1>1, <1>3, Zenon
  <2>4. Shares(w, new.blocks, n + 1, m + 1)
    <3>1. (\A i \in Policy : u[i] <= n + 1) /\ st.blocks <= m + 1
      BY <1>0
    <3> QED
      BY <1>0, <2>2, <2>3, <3>1, Zenon DEF Shares
  <2> QED
    BY <1>0, <2>2, <2>3, <2>4, Zenon DEF u, w
<1>4. ASSUME NEW i \in Policy, lead = {i}
      PROVE  /\ Shares(w, new.blocks, n + 1, m + 1)
             /\ SumFunction(w) - new.blocks = SumFunction(u) - st.blocks
  <2>1. Cardinality(lead) = 1
    BY <1>4, FS_Singleton, Zenon
  <2>2. new.blocks = st.blocks + 1
    <3>1. new.blocks = (st.blocks + 1) % ULongSize
      BY <1>1, <2>1, Zenon
    <3>2. st.blocks + 1 \in Nat /\ st.blocks + 1 < ULongSize
      BY <1>0, ULongAssumption
    <3> QED
      BY <3>1, <3>2, NoWrap, Zenon
  <2>3. (u[i] + 1) % ULongSize = u[i] + 1
    <3>1. u[i] + 1 \in Nat /\ u[i] + 1 < ULongSize
      BY <1>0, ULongAssumption
    <3> QED
      BY <3>1, NoWrap, Zenon
  <2>4. w[i] = u[i] + 1 /\ \A j \in Policy \ {i} : u[j] = w[j]
    BY <1>1, <1>4, <2>3, Zenon
  <2>5. w \in [Policy -> Nat]
    <3>1. \A j \in Policy : w[j] \in Nat
      BY <1>0, <2>4
    <3> QED
      BY <1>1, <3>1, Zenon
  <2>6. SumFunction(w) = SumFunction(u) + (w[i] - u[i])
    <3>1. IsFiniteSet(Policy)
      BY PoliciesAreNamed, FS_Interval DEF Policy
    <3>2. u \in [Policy -> Int] /\ w \in [Policy -> Int]
      BY <1>0, <2>5
    <3> QED
      BY <2>4, <3>1, <3>2, SumChange, Zenon
  <2>7. SumFunction(w) = SumFunction(u) + 1
    BY <1>0, <2>4, <2>6
  <2>8. \A j \in Policy : w[j] <= n + 1
    BY <1>0, <2>4
  <2> QED
    BY <1>0, <2>2, <2>5, <2>7, <2>8 DEF Shares
<1> QED
  BY <1>2, <1>3, <1>4, Zenon DEF u, w

(* What CACHE_DUELING does with a block. *)
LEMMA DuelSetrefShares ==
  ASSUME NEW st, IsState(st), NEW block, NEW new \in DuelSetref("CACHE_DUELING", st, block),
         NEW n \in Nat, NEW m \in Nat,
         Shares(st.uses, st.blocks, n, m), n + 1 < ULongSize, m + 1 < ULongSize
  PROVE  /\ IsState(new)
         /\ Shares(new.uses, new.blocks, n + 1, m + 1)
         /\ SumFunction(new.uses) - new.blocks = SumFunction(st.uses) - st.blocks
<1>1. PICK r : DuelEffect(st, r, block, new)
  BY DuelingBlock, Zenon DEF DuelSetref, Dips
<1>2. IsState(new)
  BY <1>1, Zenon DEF DuelEffect
<1> QED
  BY <1>1, <1>2, BlockShares, Zenon

(* A reference is two uses and two blocks at most, as many of one as of the *)
(* other.                                                                   *)
LEMMA RefShares ==
  ASSUME NEW st, IsState(st), NEW ref, NEW new \in DuelRef("CACHE_DUELING", st, ref), NEW n \in Nat, NEW m \in Nat,
         Shares(st.uses, st.blocks, n, m), n + 2 < ULongSize, m + 2 < ULongSize
  PROVE  /\ Shares(new.uses, new.blocks, n + 2, m + 2)
         /\ SumFunction(new.uses) - new.blocks = SumFunction(st.uses) - st.blocks
<1> DEFINE n1 == n + 1
           m1 == m + 1
<1>0. /\ n1 \in Nat /\ m1 \in Nat /\ n + 1 < ULongSize /\ m + 1 < ULongSize
      /\ n1 + 1 < ULongSize /\ m1 + 1 < ULongSize /\ n1 + 1 = n + 2 /\ m1 + 1 = m + 2
  BY ULongAssumption
<1>2. CASE Len(ref) = 1
  <2>1. new \in DuelSetref("CACHE_DUELING", st, ref[1])
    BY <1>2, Zenon DEF DuelRef
  <2>2. /\ Shares(new.uses, new.blocks, n + 1, m + 1)
        /\ SumFunction(new.uses) - new.blocks = SumFunction(st.uses) - st.blocks
    BY <1>0, <2>1, DuelSetrefShares, Zenon
  <2> QED
    BY <2>2 DEF Shares
<1>3. CASE Len(ref) # 1
  <2>1. PICK p \in DuelSetref("CACHE_DUELING", st, ref[1]) :
          \E q \in DuelSetref("CACHE_DUELING", p, ref[2]) :
            new = [q EXCEPT !.miss = IF p.miss = 1 THEN 1 ELSE q.miss]
    BY <1>3, Zenon DEF DuelRef
  <2>2. PICK q \in DuelSetref("CACHE_DUELING", p, ref[2]) :
          new = [q EXCEPT !.miss = IF p.miss = 1 THEN 1 ELSE q.miss]
    BY <2>1, Zenon
  <2>3. /\ IsState(p) /\ Shares(p.uses, p.blocks, n1, m1)
        /\ SumFunction(p.uses) - p.blocks = SumFunction(st.uses) - st.blocks
    BY <1>0, DuelSetrefShares, Zenon
  <2> HIDE DEF n1, m1
  <2>a. /\ n1 \in Nat /\ m1 \in Nat /\ n1 + 1 < ULongSize /\ m1 + 1 < ULongSize
        /\ IsState(p) /\ Shares(p.uses, p.blocks, n1, m1)
    BY <1>0, <2>3, Zenon
  <2>4. /\ IsState(q) /\ Shares(q.uses, q.blocks, n1 + 1, m1 + 1)
        /\ SumFunction(q.uses) - q.blocks = SumFunction(p.uses) - p.blocks
    BY <2>a, DuelSetrefShares
  <2>5. new.uses = q.uses /\ new.blocks = q.blocks
    BY <2>2, <2>4, Zenon DEF IsState
  <2> QED
    BY <1>0, <2>3, <2>4, <2>5, Zenon
<1> QED
  BY <1>2, <1>3, Zenon

(* An instruction reference leaves the uses alone. *)
LEMMA InstrKeepsLead ==
  ASSUME MaxRefs \in Nat, DuelInv, LeadInv, NEW ref \in InstrRefs, I1_doref_dueling(ref)
  PROVE  LeadInv'
<1>a. IInv /\ IsCounters(counts) /\ InstrRefs \subseteq Refs
  BY RefsAssumption, Zenon DEF DuelInv, CountInv, Refs
<1>1. counts'.Ir = counts.Ir + 1 /\ counts'.Dr = counts.Dr
  BY <1>a, ResultCounts, Zenon DEF I1_doref_dueling, IInv, DuelInv
<1>2. counts.Ir + counts.Dr < MaxRefs /\ UNCHANGED <<approach, uses, data_blocks>>
  BY DEF I1_doref_dueling, More, selectionVars
<1>3. counts'.Ir + counts'.Dr <= MaxRefs
  BY <1>a, <1>1, <1>2 DEF IsCounters
<1> QED
  BY <1>1, <1>2, <1>3, Zenon DEF LeadInv

(* No count of a run wraps when three times its references do not. *)
LEMMA DuelIsShort ==
  ASSUME NEW r \in Nat, NEW max \in Nat, r + 1 <= max, 3 * max < ULongSize
  PROVE  /\ 2 * r \in Nat /\ 3 * r \in Nat
         /\ 2 * r + 2 < ULongSize /\ 3 * r + 2 < ULongSize /\ (3 * r + 2) + 1 < ULongSize
  BY ULongAssumption

(* A data reference under CACHE_DUELING counts itself, and a use with every *)
(* block it counts.                                                         *)
LEMMA DataKeepsLead ==
  ASSUME MaxRefs \in Nat, 3 * MaxRefs < ULongSize, DuelInv, LeadInv,
         NEW ref \in DataRefs, D1_doref_dueling(ref), approach = "CACHE_DUELING"
  PROVE  LeadInv'
<1>a. IInv /\ IsCounters(counts) /\ InstrRefs \subseteq Refs
  BY RefsAssumption, Zenon DEF DuelInv, CountInv, Refs
<1> DEFINE n == 2 * counts.Dr
           m == 3 * counts.Dr
<1>1. PICK st \in DuelRef("CACHE_DUELING", BeforeRef, ref) :
        /\ \E l : counts' = [counts EXCEPT !.Dr = @ + 1, !.D1m = @ + st.miss, !.DLm = @ + l.miss]
        /\ uses' = st.uses /\ data_blocks' = (st.blocks + 1) % ULongSize
  BY ZenonT(40) DEF D1_doref_dueling
<1>2. counts'.Dr = counts.Dr + 1 /\ counts'.Ir = counts.Ir
  BY <1>a, <1>1 DEF IsCounters
<1>3. counts.Ir + counts.Dr < MaxRefs /\ counts.Ir \in Nat /\ counts.Dr \in Nat
  BY <1>a, Zenon DEF D1_doref_dueling, DataMayCome, More, IsCounters
<1>4. counts.Dr + 1 <= MaxRefs /\ counts'.Ir + counts'.Dr <= MaxRefs
  BY <1>2, <1>3
<1>5. n \in Nat /\ m \in Nat /\ n + 2 < ULongSize /\ m + 2 < ULongSize /\ (m + 2) + 1 < ULongSize
  BY <1>3, <1>4, DuelIsShort, Zenon
<1>6. IsState(BeforeRef) /\ BeforeRef.uses = uses /\ BeforeRef.blocks = data_blocks
  BY Zenon DEF IsState, BeforeRef
<1>7. Shares(uses, data_blocks, n, m) /\ SumFunction(uses) + counts.Dr = data_blocks
  BY DEF LeadInv
<1>8. n + 2 = 2 * counts'.Dr /\ (m + 2) + 1 = 3 * counts'.Dr
  BY <1>2, <1>3
<1> HIDE DEF n, m
<1>9. /\ Shares(st.uses, st.blocks, n + 2, m + 2)
      /\ SumFunction(st.uses) - st.blocks = SumFunction(uses) - data_blocks
  BY <1>5, <1>6, <1>7, RefShares
<1>10. /\ st.blocks \in Nat /\ st.blocks <= m + 2 /\ SumFunction(st.uses) \in Int
       /\ data_blocks \in Nat /\ SumFunction(uses) \in Int
  BY <1>7, <1>9, Zenon DEF Shares
<1>11. data_blocks' = st.blocks + 1
  <2>1. st.blocks + 1 \in Nat /\ st.blocks + 1 < ULongSize
    BY <1>5, <1>10, ULongAssumption
  <2> QED
    BY <1>1, <2>1, NoWrap, Zenon
<1>12. SumFunction(uses') + counts'.Dr = data_blocks'
  <2>1. SumFunction(uses') = SumFunction(st.uses)
    BY <1>1, Zenon
  <2> QED
    BY <1>2, <1>3, <1>7, <1>9, <1>10, <1>11, <2>1
<1>13. Shares(uses', data_blocks', n + 2, (m + 2) + 1)
  BY <1>1, <1>5, <1>9, <1>10, <1>11 DEF Shares
<1>14. Shares(uses, data_blocks, 2 * counts.Dr, 3 * counts.Dr)'
  BY <1>8, <1>13, Zenon
<1> QED
  BY <1>4, <1>12, <1>14, Zenon DEF LeadInv

(* CACHE_DUELING counts, in the total of which print_stats prints shares,   *)
(* every data reference and once more every block in a leader set.          *)
THEOREM LeadersShare ==
  ASSUME MaxRefs \in Nat, 3 * MaxRefs < ULongSize
  PROVE  DuelSpec => []LeaderUsesAreShares
<1>1. DuelInit => LeadInv
  <2> SUFFICES ASSUME DuelInit PROVE LeadInv
    BY Zenon
  <2>1. uses = [i \in Policy |-> 0] /\ data_blocks = 0 /\ counts.Ir = 0 /\ counts.Dr = 0
    BY DEF DuelInit, Init
  <2>2. SumFunction(uses) = 0
    <3>1. IsFiniteSet(Policy)
      BY PoliciesAreNamed, FS_Interval DEF Policy
    <3> QED
      BY <2>1, <3>1, SumOfZeros, Zenon
  <2> QED
    BY <2>1, <2>2 DEF LeadInv, Shares
<1>2. DuelInv /\ LeadInv /\ [DuelNext]_<<vars, duelVars>> => LeadInv'
  <2> SUFFICES ASSUME DuelInv, LeadInv, [DuelNext]_<<vars, duelVars>> PROVE LeadInv'
    BY Zenon
  <2>0. IInv /\ IsCounters(counts) /\ InstrRefs \subseteq Refs
    BY RefsAssumption, Zenon DEF DuelInv, CountInv, Refs
  <2>1. CASE Next /\ approach # "CACHE_DUELING" /\ UNCHANGED duelVars
    <3>1. approach' = approach
      BY <2>0, <2>1, NextLeavesDuels, Zenon
    <3> QED
      BY <2>1, <3>1, Zenon DEF LeadInv
  <2>2. CASE UNCHANGED <<vars, duelVars>>
    BY <2>2, Zenon DEF vars, selectionVars, LeadInv
  <2>3. ASSUME NEW ref \in DataRefs, D1_doref_dueling(ref), approach # "CACHE_DUELING"
        PROVE  LeadInv'
    BY <2>3, Zenon DEF D1_doref_dueling, LeadInv
  <2> QED
    BY <2>1, <2>2, <2>3, InstrKeepsLead, DataKeepsLead, Zenon DEF DuelNext
<1>3. LeadInv => LeaderUsesAreShares
  BY DEF LeadInv, LeaderUsesAreShares
<1> QED
  BY <1>1, <1>2, <1>3, InitDuelInv, NextDuelInv, PTL DEF DuelSpec
=============================================================================
