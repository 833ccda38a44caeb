----------------------------- MODULE DuelingSim -----------------------------
(***************************************************************************)
(* The cache simulator under the replacement functions that keep state of  *)
(* their own: DIP, DIP3 and DIP3_AGEING, which watch monitor caches, and   *)
(* CACHE_DUELING, which watches the leader sets of D1 itself.              *)
(*                                                                         *)
(* They choose a policy for each block that a data reference touches in    *)
(* D1.  In I1 and LL they all do what LRU does, as func = "LRU" says, and  *)
(* reference the monitors of I1 and LL, which nothing ever reads: these    *)
(* are left out.  The monitors of D1 are the D1 of the first three         *)
(* policies; they have SetsL1 sets here.                                   *)
(***************************************************************************)
EXTENDS CacheSim, Functions

CONSTANT PselMax  \* psel_max

ASSUME PselAssumption == PselMax \in Nat /\ PselMax % 2 = 1

ASSUME MonitorsAssumption ==
  Len(miss_functions) >= 3 /\ SubSeq(miss_functions, 1, 3) = <<"LRU", "FIFO", "BIP">>

VARIABLES
  psel,    \* psel_1, psel_2 and psel_3; the psel of DIP is used as psel_2 is
  applied  \* history: the policies applied to D1 so far

duelVars == <<psel, applied>>

Dips == {"DIP", "DIP3", "DIP3_AGEING"}

Duels == Dips \cup {"CACHE_DUELING"}

Psel_msb == (PselMax + 1) \div 2

DuelInit ==
  /\ Init
  /\ psel = [n \in 1 .. 3 |-> Psel_msb]
  /\ applied = {}

Monitors(app) == IF app = "DIP" THEN {0, 2} ELSE {0, 1, 2}

(* Mutant: every monitor is run with LRU. *)
MonitorFunc_lru(app, i) == "LRU"

(* Mutant: the monitor of FIFO is run with FIFO. *)
MonitorFunc_fifo(app, i) == is_miss_func(i)

(* DIP3 references the monitor of FIFO with LRU. *)
MonitorFunc(app, i) == IF app = "DIP3" /\ i = 1 THEN "LRU" ELSE is_miss_func(i)

(* The outcomes of a reference to block in each of the monitors. *)
MonitorOutcomes(app, mon, block) ==
  LET may == [i \in Monitors(app) |-> SetrefOutcomes(SetsL1, MonitorFunc(app, i), mon[i].D1, block)]
  IN  {out \in [Monitors(app) -> UNION {may[i] : i \in Monitors(app)}] :
         \A i \in Monitors(app) : out[i] \in may[i]}

(* A selector that goes up on a miss of one monitor, then down on a miss of *)
(* the other, between 0 and PselMax.                                        *)
Moved(p, up, down) ==
  LET q == IF up = 1 /\ p < PselMax THEN p + 1 ELSE p
  IN  IF down = 1 /\ q > 0 THEN q - 1 ELSE q

NewPsel(app, p, out) ==
  CASE app = "DIP"  -> [p EXCEPT ![2] = Moved(p[2], out[0].miss, out[2].miss)]
    [] app = "DIP3" -> <<Moved(p[1], out[0].miss, out[1].miss),
                         Moved(p[2], out[0].miss, out[2].miss),
                         Moved(p[3], out[2].miss, out[1].miss)>>
    [] OTHER        -> p

NewHistories(app, hs, out) ==
  [i \in Policy |-> IF app = "DIP3_AGEING" /\ i \in Monitors(app)
                    THEN store_misses_history(hs[i], out[i].miss) ELSE hs[i]]

(* The first of LRU, FIFO and BIP with the fewest misses of the window. *)
Fewest(hs) ==
  is_miss_func(CHOOSE i \in 0 .. 2 : \A j \in 0 .. 2 :
                 /\ hs[i].historic <= hs[j].historic
                 /\ j < i => hs[i].historic < hs[j].historic)

(* The policy applied to D1. *)
Choice(app, p, hs) ==
  CASE app = "DIP"  -> IF p[2] >= Psel_msb THEN "BIP" ELSE "LRU"
    [] app = "DIP3" -> IF p[1] >= Psel_msb /\ p[3] >= Psel_msb THEN "FIFO"
                       ELSE IF p[1] < Psel_msb /\ p[2] < Psel_msb THEN "LRU"
                       ELSE IF p[2] >= Psel_msb /\ p[3] < Psel_msb THEN "BIP"
                       ELSE "LRU"
    [] OTHER        -> Fewest(hs)

(* What one block of a data reference works on: D1, the monitors, the       *)
(* selectors and the counters of the policies.                              *)
BeforeRef == [D1 |-> result.D1, mon |-> shadow, psel |-> psel, hs |-> histories, uses |-> uses,
              blocks |-> data_blocks, applied |-> applied, miss |-> 0]

setref_dip(app, st, block) ==
  UNION {LET p  == NewPsel(app, st.psel, out)
             hs == NewHistories(app, st.hs, out)
             f  == Choice(app, p, hs)
         IN  {[st EXCEPT !.D1 = r.cache, !.psel = p, !.hs = hs, !.miss = r.miss,
                         !.mon = [i \in Policy |-> IF i \in Monitors(app)
                                                   THEN [@[i] EXCEPT !.D1 = out[i].cache] ELSE @[i]],
                         !.applied = @ \cup {f}] : r \in SetrefOutcomes(SetsL1, f, st.D1, block)} :
           out \in MonitorOutcomes(app, st.mon, block)}

(* The leader sets of policy i: every fifth set, and for k = 9, 19 and 29   *)
(* the same set in each of the three lists.                                 *)
Leaders(i) == {IF k % 10 = 9 THEN 2 + 5 * k ELSE 1 + i + 5 * k : k \in 0 .. 31}

(* The lists are tried in order. *)
LeaderOf(s) == {i \in 0 .. 2 : s \in Leaders(i) /\ \A j \in 0 .. i - 1 : s \notin Leaders(j)}

(* Mutant: the use of a leader is not counted in the total. *)
setref_dueling_uncounted(st, block) ==
  LET lead == LeaderOf(block % SetsL1)
      f    == IF lead = {} THEN Fewest(st.hs) ELSE is_miss_func(CHOOSE i \in lead : TRUE)
  IN  {[st EXCEPT !.D1 = r.cache, !.miss = r.miss, !.applied = @ \cup {f},
                  !.hs = [i \in Policy |-> IF i \in lead THEN store_misses_history(@[i], r.miss)
                                                         ELSE @[i]],
                  !.uses = [i \in Policy |-> IF i \in lead THEN (@[i] + 1) % ULongSize ELSE @[i]]] :
         r \in SetrefOutcomes(SetsL1, f, st.D1, block)}

(* A leader set keeps its policy, is counted as a use of it and stores the  *)
(* outcome in its history; the others follow.                               *)
setref_dueling(st, block) ==
  LET lead == LeaderOf(block % SetsL1)
      f    == IF lead = {} THEN Fewest(st.hs) ELSE is_miss_func(CHOOSE i \in lead : TRUE)
  IN  {[st EXCEPT !.D1 = r.cache, !.miss = r.miss, !.applied = @ \cup {f},
                  !.hs = [i \in Policy |-> IF i \in lead THEN store_misses_history(@[i], r.miss)
                                                         ELSE @[i]],
                  !.uses = [i \in Policy |-> IF i \in lead THEN (@[i] + 1) % ULongSize ELSE @[i]],
                  !.blocks = (@ + Cardinality(lead)) % ULongSize] :
         r \in SetrefOutcomes(SetsL1, f, st.D1, block)}

DuelSetref(app, st, block) ==
  IF app \in Dips THEN setref_dip(app, st, block) ELSE setref_dueling(st, block)

(* A reference that straddles two lines does both. *)
DuelRef(app, st, ref) ==
  IF Len(ref) = 1 THEN DuelSetref(app, st, ref[1])
  ELSE UNION {{[q EXCEPT !.miss = IF p.miss = 1 THEN 1 ELSE @] : q \in DuelSetref(app, p, ref[2])} :
                p \in DuelSetref(app, st, ref[1])}

(* The misses of LL that CACHE_DUELING stores with the first policy, one    *)
(* per block, for instructions and data alike.                              *)
StoredLL(ll, ref) ==
  LET one(c, b) == CHOOSE o \in SetrefOutcomes(SetsLL, "LRU", c, b) : TRUE
      first     == one(ll, ref[1])
  IN  IF Window = 1 THEN 0
      ELSE first.miss + IF Len(ref) = 1 THEN 0 ELSE one(first.cache, ref[2]).miss

CountLL(missed, ref) ==
  misses_DL' = IF approach = "CACHE_DUELING" /\ missed
               THEN [misses_DL EXCEPT ![0] = @ + StoredLL(result.LL, ref)] ELSE misses_DL

(* cachesim_D1_doref with one of these functions as the policy. *)
D1_doref_dueling(ref) ==
  /\ DataMayCome
  /\ approach \in Duels
  /\ \E st \in DuelRef(approach, BeforeRef, ref) :
       /\ \E l \in IF st.miss = 1 THEN RefOutcomes(SetsLL, "LRU", result.LL, ref)
                                 ELSE {[cache |-> result.LL, miss |-> 0]} :
            /\ result' = [I1 |-> result.I1, D1 |-> st.D1, LL |-> l.cache]
            /\ counts' = [counts EXCEPT !.Dr = @ + 1, !.D1m = @ + st.miss, !.DLm = @ + l.miss]
       /\ CountLL(st.miss = 1, ref)
       /\ shadow' = st.mon
       /\ psel' = st.psel
       /\ histories' = st.hs
       /\ uses' = st.uses
       /\ data_blocks' = (st.blocks + 1) % ULongSize
       /\ applied' = st.applied
  /\ UNCHANGED <<approach, requested, asked, func, selected, blocks, since, imisses>>

(* cachesim_I1_doref_Gen and cachesim_I1_doref_NoX under CACHE_DUELING. *)
I1_doref_dueling(ref) ==
  /\ More
  /\ approach = "CACHE_DUELING"
  /\ ResultInstr(func, ref)
  /\ CountLL(counts'.I1mr # counts.I1mr, ref)
  /\ UNCHANGED <<approach, requested, asked, func, shadowVars, selectionVars, duelVars>>

DuelNext ==
  \/ Next /\ approach # "CACHE_DUELING" /\ UNCHANGED duelVars
  \/ \E ref \in InstrRefs : I1_doref_dueling(ref)
  \/ \E ref \in DataRefs : D1_doref_dueling(ref)

DuelSpec == DuelInit /\ [][DuelNext]_<<vars, duelVars>>

-----------------------------------------------------------------------------

(* While only one policy has been applied to D1, its monitor is an exact    *)
(* prediction of D1.  DIP starts with BIP, DIP3_AGEING with LRU.            *)
MonitorPredictsResult ==
  approach \in {"DIP", "DIP3_AGEING"} /\ Throttle \in {0, 100} =>
    \A i \in Monitors(approach) : applied = {is_miss_func(i)} => result.D1 = shadow[i].D1

(* DIP3 cannot tell FIFO from LRU: their monitors always hold the same      *)
(* blocks, so the selector between the two never moves, and LRU is applied  *)
(* only when it is not clear which one is better.                           *)
FifoMonitorTwinsLru ==
  approach = "DIP3" => shadow[1].D1 = shadow[0].D1 /\ psel[1] = Psel_msb

(* The total that print_stats takes the shares of counts, for CACHE_DUELING, *)
(* every data reference and once more every block in a leader set: the uses *)
(* of the policies are at most half of it, when no reference straddles two  *)
(* leader sets.                                                             *)
LeaderUsesAreShares ==
  approach = "CACHE_DUELING" => SumFunction(uses) + counts.Dr = data_blocks
=============================================================================
