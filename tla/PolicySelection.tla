--------------------------- MODULE PolicySelection --------------------------
(***************************************************************************)
(* How cachesim_D1_doref chooses among the policies it simulates side by   *)
(* side under the FIXED_WINDOW, SLIDING_WINDOW and ONLINE approaches.      *)
(*                                                                         *)
(* A data reference is seen here only through missed: for each policy,     *)
(* whether its own D1 missed.  CacheSim supplies the caches behind it.     *)
(***************************************************************************)
EXTENDS MissHistory, Functions

CONSTANTS
  POLICIES,   \* the number of policies run side by side
  Threshold,  \* switching_threshold_parameter, the option --change-threshold
  Approaches  \* the values of current_cache_replacement_policy under study

ASSUME PoliciesAssumption == POLICIES \in Nat \ {0}

ASSUME ThresholdAssumption == Threshold \in Nat \ {0}

ASSUME ApproachesAssumption == Approaches \subseteq {"FIXED_WINDOW", "SLIDING_WINDOW", "ONLINE"}

VARIABLES
  approach,     \* current_cache_replacement_policy, fixed at start-up
  histories,    \* per policy, its miss history at D1
  selected,     \* index_selected_policy
  blocks,       \* references in the current window, read by FIXED_WINDOW only
  uses,         \* per policy, the field uses
  data_blocks,  \* data_blocks, what print_stats calls the total of the uses
  since         \* history: references since the last switch, up to Threshold

selectionVars == <<approach, histories, selected, blocks, uses, data_blocks, since>>

Policy == 0 .. POLICIES - 1

Counter == 0 .. ULongSize - 1

(* The counters of the policies stay in their ULongs, and the histories     *)
(* within their windows.                                                    *)
TypeOK ==
  /\ approach \in Approaches
  /\ histories \in [Policy -> History]
  /\ selected \in Policy
  /\ blocks \in Slots
  /\ uses \in [Policy -> Counter]
  /\ data_blocks \in Counter
  /\ since \in 0 .. Threshold

Init ==
  /\ approach \in Approaches
  /\ histories = [i \in Policy |-> NewHistory]
  /\ selected = 0
  /\ blocks = 0
  /\ uses = [i \in Policy |-> 0]
  /\ data_blocks = 0
  /\ since = 0

(* What a policy is judged by: ONLINE uses just a counter of misses, the    *)
(* others the misses of the window.                                         *)
Score(app, h) == IF app = "ONLINE" THEN h.online ELSE h.historic

(* Mutant: the highest count is kept. *)
MinMissesPolicy_max(app, hs) ==
  CHOOSE i \in Policy : \A j \in Policy : Score(app, hs[j]) <= Score(app, hs[i])

(* index_min_misses_policy after the loop over the policies: the first one  *)
(* with the fewest misses, since only a lower count replaces the minimum.   *)
MinMissesPolicy(app, hs) ==
  CHOOSE i \in Policy : \A j \in Policy : /\ Score(app, hs[i]) <= Score(app, hs[j])
                                          /\ j < i => Score(app, hs[i]) < Score(app, hs[j])

(* The histories once every policy has stored its outcome. *)
Stored(missed) == [i \in Policy |-> store_misses_history(histories[i], missed[i])]

(* Mutant: the counts of the last window are carried over. *)
Restarted_keepsMisses(h) == [h EXCEPT !.array = [k \in Slots |-> 0], !.historic = 0]

(* The fields cleaned to start a new window: counter and online are not.    *)
Restarted(h) == [array    |-> [k \in Slots |-> 0],
                 counter  |-> h.counter,
                 historic |-> 0,
                 online   |-> h.online,
                 misses   |-> 0]

Used(u, i) == [u EXCEPT ![i] = (@ + 1) % ULongSize]

(* FIXED_WINDOW within a window: the policies run, nothing is selected.     *)
FillWindow(missed) ==
  /\ approach = "FIXED_WINDOW"
  /\ blocks + 1 < Window
  /\ histories' = Stored(missed)
  /\ blocks' = blocks + 1
  /\ UNCHANGED <<approach, selected, uses, data_blocks, since>>

(* FIXED_WINDOW at the end of a window: the policy with the fewest misses   *)
(* is the one used, and every history is restarted.                         *)
CloseWindow(missed) ==
  /\ approach = "FIXED_WINDOW"
  /\ blocks + 1 >= Window
  /\ uses' = Used(uses, MinMissesPolicy(approach, Stored(missed)))
  /\ histories' = [i \in Policy |-> Restarted(Stored(missed)[i])]
  /\ blocks' = 0
  /\ data_blocks' = (data_blocks + 1) % ULongSize
  /\ UNCHANGED <<approach, selected, since>>

(* Mutant: the threshold is reached rather than exceeded. *)
Selection_atThreshold(app, hs, sel) ==
  LET best == MinMissesPolicy(app, hs)
  IN  IF Score(app, hs[best]) <= Score(app, hs[sel]) - Threshold THEN best ELSE sel

(* Mutant: the threshold is applied on the wrong side. *)
Selection_early(app, hs, sel) ==
  LET best == MinMissesPolicy(app, hs)
  IN  IF Score(app, hs[best]) < Score(app, hs[sel]) THEN best ELSE sel

(* Mutant: the threshold is counted twice. *)
Selection_late(app, hs, sel) ==
  LET best == MinMissesPolicy(app, hs)
  IN  IF Score(app, hs[best]) < Score(app, hs[sel]) - 2 * Threshold THEN best ELSE sel

(* SLIDING_WINDOW and ONLINE apply the threshold before switching. *)
Selection(app, hs, sel) ==
  LET best == MinMissesPolicy(app, hs)
  IN  IF Score(app, hs[best]) < Score(app, hs[sel]) - Threshold THEN best ELSE sel

(* Mutant: ONLINE counts the use before it switches as well. *)
UsesAfter_twice(app, u, sel, newSel) == Used(Used(u, sel), newSel)

(* ONLINE counts a use of the policy it settles on, SLIDING_WINDOW also one *)
(* of the policy it had selected before.                                    *)
UsesAfter(app, u, sel, newSel) ==
  IF app = "SLIDING_WINDOW" THEN Used(Used(u, sel), newSel) ELSE Used(u, newSel)

Reselect(missed) ==
  /\ approach \in {"SLIDING_WINDOW", "ONLINE"}
  /\ histories' = Stored(missed)
  /\ selected' = Selection(approach, Stored(missed), selected)
  /\ uses' = UsesAfter(approach, uses, selected, selected')
  /\ data_blocks' = (data_blocks + 1) % ULongSize
  /\ since' = IF selected' # selected THEN 0
              ELSE IF since < Threshold THEN since + 1 ELSE since
  /\ UNCHANGED <<approach, blocks>>

Reference(missed) == FillWindow(missed) \/ CloseWindow(missed) \/ Reselect(missed)

Next == \E missed \in [Policy -> Outcomes] : Reference(missed)

Spec == Init /\ [][Next]_selectionVars

(* The client program goes on making data references. *)
FairSpec == Spec /\ WF_selectionVars(Next)

-----------------------------------------------------------------------------

Switching == approach \in {"SLIDING_WINDOW", "ONLINE"}

(* Hysteresis: whatever the outcomes, the policy in use is never worse than *)
(* any other by more than the threshold.                                    *)
NeverMuchWorse ==
  Switching => \A i \in Policy :
    Score(approach, histories[selected]) <= Score(approach, histories[i]) + Threshold

(* The approaches do not thrash: a count moves by at most one a reference,  *)
(* so between two switches there are more than Threshold / 2 references.    *)
SwitchesAreSpaced ==
  [][selected' # selected => 2 * (since + 1) > Threshold]_selectionVars

(* A threshold of at least the window pins the first policy, LRU.           *)
HighThresholdPins == Threshold >= Window => selected = 0

(* FIXED_WINDOW judges every policy by exactly the outcomes of its window:  *)
(* the result slot follows the window although bit_result_counter is never  *)
(* reset, and the count that decides (historic) is the one that is charged  *)
(* to the client (misses).                                                  *)
FixedCountsWindow ==
  approach = "FIXED_WINDOW" =>
    \A i \in Policy : LET h == histories[i]
                      IN  /\ Window # 1 => h.counter = blocks
                          /\ h.historic = MissesIn(h.array)
                          /\ h.misses = h.historic

(* At the end of a window the policy used, whose misses are charged to the  *)
(* client, is one with the fewest misses of the window.                     *)
UsesTheBest ==
  [][\A missed \in [Policy -> Outcomes], i \in Policy :
       CloseWindow(missed) /\ uses'[i] # uses[i] =>
         \A j \in Policy : MissesIn(Stored(missed)[i].array) <= MissesIn(Stored(missed)[j].array)
    ]_selectionVars

(* Every reference is counted: the uses add up to data_blocks, of which     *)
(* print_stats reports them as shares, and under SLIDING_WINDOW, which      *)
(* counts one use before it chooses and one after, to twice as much.        *)
UsesPerBlock ==
  SumFunction(uses) % ULongSize =
    (IF approach = "SLIDING_WINDOW" THEN 2 * data_blocks ELSE data_blocks) % ULongSize

(* The outcome a policy stored last. *)
LastOutcome(h) == h.array[IF h.counter = 0 THEN Window - 1 ELSE h.counter - 1]

(* The policy in use does not keep missing while another keeps hitting.     *)
LeavesLosingPolicy ==
  \A j \in Policy : []<>~(/\ LastOutcome(histories[selected]) = 1
                         /\ LastOutcome(histories[j]) = 0)
=============================================================================
