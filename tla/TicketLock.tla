----------------------------- MODULE TicketLock -----------------------------
(***************************************************************************)
(* The ticket lock of ticket-lock-linux.c, one action per access to shared *)
(* memory or futex call.  head and tail are unsigned: they wrap to 0 at    *)
(* TicketMod, 2^32 in the code.  A thread keeps its ticket while it waits  *)
(* for the lock and holds it, and the wakeup ticket while it releases it.  *)
(*                                                                         *)
(* A futex word is only ever incremented, and compared with the value a    *)
(* thread read from it: it stands here as the set of the threads whose     *)
(* value is no longer that of their word.  That is exact as long as no     *)
(* thread is passed by 2^32 increments of a word between its read and its  *)
(* wait; the tickets allow fewer than there are threads.                   *)
(***************************************************************************)
EXTENDS Integers, FiniteSets

CONSTANTS
  Thread,      \* the threads that use the lock
  TicketMod,   \* 2^32
  FutexCount   \* TL_FUTEX_COUNT

ASSUME ThreadAssumption == IsFiniteSet(Thread) /\ 0 \notin Thread

(* There are fewer threads than tickets (VG_N_THREADS against 2^32).       *)
ASSUME TicketAssumption ==
  /\ TicketMod \in Nat /\ TicketMod > Cardinality(Thread)
  /\ FutexCount \in Nat \ {0}

VARIABLES
  head, tail, owner,  \* struct sched_lock
  changed,            \* the threads whose futex_value is not their futex's
  pc,                 \* where each thread is in the code
  ticket              \* its ticket, or wakeup_ticket

lockVars == <<head, tail, owner, changed, pc, ticket>>

Inc(x, mod) == IF x + 1 = mod THEN 0 ELSE x + 1

(* ticket & TL_FUTEX_MASK *)
FutexOf(n) == n % FutexCount

(* acquire_sched_lock: the threads that wait, up to the one about to own.  *)
Waiting == {"load", "check", "wait", "blocked"}

(* release_sched_lock after the ticket that comes next is let in.          *)
Waking == {"tail", "bump", "wake"}

create_sched_lock ==
  /\ head = 0
  /\ tail = 0
  /\ changed = {}
  /\ owner = 0
  /\ pc = [t \in Thread |-> "out"]
  /\ ticket = [t \in Thread |-> 0]

Goto(t, l) == pc' = [pc EXCEPT ![t] = l]

TakeTicket(t) ==
  /\ pc[t] = "out"
  /\ ticket' = [ticket EXCEPT ![t] = tail]
  /\ tail' = Inc(tail, TicketMod)
  /\ Goto(t, "load")
  /\ UNCHANGED <<head, owner, changed>>

LoadFutex(t) ==
  /\ pc[t] = "load"
  /\ changed' = changed \ {t}
  /\ Goto(t, "check")
  /\ UNCHANGED <<head, tail, owner, ticket>>

(* The ticket is not up yet. *)
CheckHead(t) ==
  /\ pc[t] = "check" /\ ticket[t] # head
  /\ Goto(t, "wait")
  /\ UNCHANGED <<head, tail, owner, changed, ticket>>

(* Mutant: whoever is woken goes in. *)
Own_unchecked(t) ==
  /\ pc[t] = "check"
  /\ owner' = t
  /\ Goto(t, "in")
  /\ changed' = changed \ {t}
  /\ UNCHANGED <<head, tail, ticket>>

(* The ticket is up: the thread leaves the loop and becomes the owner.      *)
Own(t) ==
  /\ pc[t] = "check" /\ ticket[t] = head
  /\ owner' = t
  /\ Goto(t, "in")
  /\ changed' = changed \ {t}
  /\ UNCHANGED <<head, tail, ticket>>

(* Mutant: futex_value is read after the check of head, not before it. *)
FutexWait_readLate(t) ==
  /\ pc[t] = "wait"
  /\ Goto(t, "blocked")
  /\ changed' = changed \ {t}
  /\ UNCHANGED <<head, tail, owner, ticket>>

(* FUTEX_WAIT sleeps only if the word still has the value read.            *)
FutexWait(t) ==
  /\ pc[t] = "wait"
  /\ Goto(t, IF t \in changed THEN "load" ELSE "blocked")
  /\ changed' = changed \ {t}
  /\ UNCHANGED <<head, tail, owner, ticket>>

(* FUTEX_WAIT may return for no reason. *)
SpuriousWakeup(t) ==
  /\ pc[t] = "blocked"
  /\ Goto(t, "load")
  /\ UNCHANGED <<head, tail, owner, changed, ticket>>

(* release_sched_lock *)
Disown(t) ==
  /\ pc[t] = "in"
  /\ owner' = 0
  /\ Goto(t, "head")
  /\ UNCHANGED <<head, tail, changed, ticket>>

BumpHead(t) ==
  /\ pc[t] = "head"
  /\ head' = Inc(head, TicketMod)
  /\ ticket' = [ticket EXCEPT ![t] = Inc(head, TicketMod)]
  /\ Goto(t, "tail")
  /\ UNCHANGED <<tail, owner, changed>>

CheckTail(t) ==
  /\ pc[t] = "tail"
  /\ IF tail # ticket[t]
     THEN Goto(t, "bump") /\ UNCHANGED ticket
     ELSE Goto(t, "out") /\ ticket' = [ticket EXCEPT ![t] = 0]
  /\ UNCHANGED <<head, tail, owner, changed>>

BumpFutex(t) ==
  /\ pc[t] = "bump"
  /\ changed' = changed \cup {u \in Thread : /\ pc[u] \in {"check", "wait"}
                                             /\ FutexOf(ticket[u]) = FutexOf(ticket[t])}
  /\ Goto(t, "wake")
  /\ UNCHANGED <<head, tail, owner, ticket>>

(* Mutant: nobody is woken. *)
FutexWake_none(t) ==
  /\ pc[t] = "wake"
  /\ Goto(t, "out")
  /\ ticket' = [ticket EXCEPT ![t] = 0]
  /\ UNCHANGED <<head, tail, owner, changed>>

(* FUTEX_WAKE wakes every thread that sleeps on the word. *)
FutexWake(t) ==
  /\ pc[t] = "wake"
  /\ pc' = [u \in Thread |->
             IF u = t THEN "out"
             ELSE IF pc[u] = "blocked" /\ FutexOf(ticket[u]) = FutexOf(ticket[t])
             THEN "load" ELSE pc[u]]
  /\ ticket' = [ticket EXCEPT ![t] = 0]
  /\ UNCHANGED <<head, tail, owner, changed>>

(* The child of a fork has a lock of its own, which its only thread takes. *)
Recreate(t) ==
  /\ pc[t] = "in"
  /\ head' = 0
  /\ tail' = Inc(0, TicketMod)
  /\ changed' = {}
  /\ owner' = t
  /\ pc' = [u \in Thread |-> IF u = t THEN "in" ELSE "out"]
  /\ ticket' = [u \in Thread |-> 0]

(* The steps between the start of a call and its end. *)
InnerStep(t) ==
  \/ LoadFutex(t) \/ CheckHead(t) \/ FutexWait(t)
  \/ BumpHead(t) \/ CheckTail(t) \/ BumpFutex(t) \/ FutexWake(t)

LockNext ==
  \E t \in Thread : \/ TakeTicket(t) \/ InnerStep(t) \/ SpuriousWakeup(t)
                    \/ Own(t) \/ Disown(t) \/ Recreate(t)

LockSpec == create_sched_lock /\ [][LockNext]_lockVars

-----------------------------------------------------------------------------

(* The words of struct sched_lock, and where each thread is in its calls. *)
LockTypeOK ==
  /\ head \in 0 .. TicketMod - 1
  /\ tail \in 0 .. TicketMod - 1
  /\ changed \subseteq Thread
  /\ owner \in Thread \cup {0}
  /\ pc \in [Thread -> Waiting \cup Waking \cup {"out", "in", "head"}]
  /\ ticket \in [Thread -> 0 .. TicketMod - 1]

(* From leaving the wait loop of acquire_sched_lock to letting the next     *)
(* ticket in there is one thread at most, and the owner is the thread that  *)
(* is inside: nobody becomes it before the last one has given up.           *)
MutualExclusion ==
  /\ \A t, u \in Thread :
       pc[t] \in {"in", "head"} /\ pc[u] \in {"in", "head"} => t = u
  /\ \A t \in Thread : pc[t] = "in" <=> owner = t

(* No wakeup is lost: when a thread sleeps and its ticket has come up, the  *)
(* releasing thread that let the ticket in has yet to wake it.              *)
NoLostWakeup ==
  \A t \in Thread :
    pc[t] = "blocked" /\ ticket[t] = head =>
      \E u \in Thread : pc[u] \in Waking /\ FutexOf(ticket[u]) = FutexOf(head)
=============================================================================
