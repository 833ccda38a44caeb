---------------------------- MODULE MissHistory -----------------------------
(***************************************************************************)
(* The record of hits and misses that the adaptive approaches keep for     *)
(* each policy at one cache level: the fields array_misses, historic_misses,*)
(* online_misses, bit_result_counter and misses of struct policy, and      *)
(* store_misses_history, which has the same code for D1 and for LL.        *)
(***************************************************************************)
EXTENDS Integers, FiniteSets

CONSTANTS
  Window,    \* window_counter, the option --window
  ULongSize  \* 2^64: the ULong counters count modulo this

ASSUME WindowAssumption == Window \in Nat \ {0}

ASSUME ULongAssumption == ULongSize \in Nat /\ ULongSize > Window

Slots == 0 .. Window - 1

Outcomes == {0, 1}  \* last_value: 1 = Miss, 0 = Hit

History == [array    : [Slots -> Outcomes],
            counter  : Slots,
            historic : 0 .. Window,
            online   : 0 .. Window,
            misses   : 0 .. ULongSize - 1]

(* The number of misses among the outcomes f. *)
MissesIn(f) == Cardinality({k \in Slots : f[k] = 1})

NewHistory == [array    |-> [k \in Slots |-> 0],
               counter  |-> 0,
               historic |-> 0,
               online   |-> 0,
               misses   |-> 0]

Clamp(n) == IF n > Window THEN Window ELSE IF n < 0 THEN 0 ELSE n

(* Mutant: the counter wraps one slot too early. *)
NextSlot_early(k) == IF k + 1 >= Window - 1 THEN 0 ELSE k + 1

NextSlot(k) == IF k + 1 >= Window THEN 0 ELSE k + 1

(* Mutant: the count goes up on every miss, also when a miss is overwritten. *)
NewHistoric_always(h, last_value) ==
  Clamp(h.historic + (IF last_value = 1 THEN 1 ELSE -1))

(* historic_misses changes only when the overwritten outcome was different. *)
NewHistoric(h, last_value) ==
  IF last_value # h.array[h.counter]
  THEN Clamp(h.historic + (IF last_value = 1 THEN 1 ELSE -1))
  ELSE Clamp(h.historic)

(* Mutant: a hit does not count against the misses. *)
NewOnline_rises(h, last_value) == Clamp(h.online + last_value)

NewOnline(h, last_value) == Clamp(h.online + (IF last_value = 1 THEN 1 ELSE -1))

(* The policy's record on return.  A window of one is left alone.           *)
store_misses_history(h, last_value) ==
  IF Window = 1 THEN h
  ELSE [array    |-> [h.array EXCEPT ![h.counter] = last_value],
        counter  |-> NextSlot(h.counter),
        historic |-> NewHistoric(h, last_value),
        online   |-> NewOnline(h, last_value),
        misses   |-> (h.misses + last_value) % ULongSize]

(* The value returned. *)
store_misses_history_result(h, last_value) ==
  IF Window = 1 THEN last_value ELSE NewHistoric(h, last_value)
=============================================================================
