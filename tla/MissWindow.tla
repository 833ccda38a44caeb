----------------------------- MODULE MissWindow -----------------------------
(***************************************************************************)
(* One miss history fed with an arbitrary stream of outcomes, beside a     *)
(* history variable that remembers the last Window outcomes themselves.    *)
(***************************************************************************)
EXTENDS MissHistory

VARIABLES
  history,  \* the record of one policy at one level
  result,   \* what store_misses_history returned last
  recent    \* history: recent[a] is the outcome a references ago

windowVars == <<history, result, recent>>

(* The fields of a policy's record that store_misses_history maintains stay *)
(* within the window.                                                       *)
WindowTypeOK ==
  /\ history \in History
  /\ result \in 0 .. Window
  /\ recent \in [Slots -> Outcomes]

WindowInit ==
  /\ history = NewHistory
  /\ result = 0
  /\ recent = [a \in Slots |-> 0]

Store(last_value) ==
  /\ history' = store_misses_history(history, last_value)
  /\ result' = store_misses_history_result(history, last_value)
  /\ recent' = [a \in Slots |-> IF a = 0 THEN last_value ELSE recent[a - 1]]

WindowNext == \E last_value \in Outcomes : Store(last_value)

WindowSpec == WindowInit /\ [][WindowNext]_windowVars

-----------------------------------------------------------------------------

(* The slot of the outcome a references ago. *)
SlotOf(a) == IF a < history.counter THEN history.counter - 1 - a
                                    ELSE Window + history.counter - 1 - a

(* The circular array holds exactly the last Window outcomes, in order.     *)
ArrayIsRecent == \A a \in Slots : history.array[SlotOf(a)] = recent[a]

(* store_misses_history returns the "number of misses in the array": the    *)
(* incrementally kept count never drifts from the array, so its clamps      *)
(* never hide a lost or a doubled update.                                   *)
ReturnsMissesInArray == result = MissesIn(history.array)

(* The saturating counter of the ONLINE approach and the window of the      *)
(* SLIDING one cannot disagree by more than what the hits, or the misses,   *)
(* of the window allow.                                                     *)
OnlineTracksWindow ==
  /\ history.online <= 2 * MissesIn(recent)
  /\ history.online >= 2 * MissesIn(recent) - Window
=============================================================================
