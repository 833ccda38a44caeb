----------------------------- MODULE SchedLock ------------------------------
(***************************************************************************)
(* What priv_sched-lock.h asks of a fair scheduler lock: threads get it    *)
(* one at a time in the order in which they asked for it.                  *)
(***************************************************************************)
EXTENDS Integers, Sequences

CONSTANT Thread

VARIABLES
  queue,   \* the threads that asked, in order
  holder   \* the thread that has the lock, or 0

Members(q) == {q[i] : i \in 1 .. Len(q)}

Init == queue = << >> /\ holder = 0

Ask(t) ==
  /\ t # holder /\ t \notin Members(queue)
  /\ queue' = Append(queue, t)
  /\ UNCHANGED holder

Grant ==
  /\ holder = 0 /\ queue # << >>
  /\ holder' = Head(queue)
  /\ queue' = Tail(queue)

Release ==
  /\ holder # 0
  /\ holder' = 0
  /\ UNCHANGED queue

(* The child of a fork keeps the lock; nobody else is left to ask. *)
Fork ==
  /\ holder # 0
  /\ queue' = << >>
  /\ UNCHANGED holder

Next == (\E t \in Thread : Ask(t)) \/ Grant \/ Release \/ Fork

Spec == Init /\ [][Next]_<<queue, holder>>
=============================================================================
