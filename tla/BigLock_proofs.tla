--------------------------- MODULE BigLock_proofs ---------------------------
(***************************************************************************)
(* The ticket lock and the big lock on top of it, for every number of      *)
(* threads, tickets and futexes.                                           *)
(***************************************************************************)
EXTENDS BigLock, FiniteSetTheorems, SequenceTheorems, TLAPS

(* The threads whose ticket has not been let go of. *)
Outstanding == Waiters \cup Inside

(* The outstanding tickets are the ones from head up to tail, each held by  *)
(* one thread.                                                              *)
CountInv ==
  /\ Ahead(head, tail) = Cardinality(Outstanding)
  /\ \A t \in Outstanding : Ahead(head, ticket[t]) < Ahead(head, tail)
  /\ \A t, u \in Outstanding : ticket[t] = ticket[u] => t = u
  /\ \A i \in 0 .. Ahead(head, tail) - 1 :
       \E t \in Outstanding : Ahead(head, ticket[t]) = i

(* The thread inside has the ticket that is up, and is the owner until it   *)
(* begins to let the next one in.                                           *)
OwnInv ==
  /\ \A t \in Inside : ticket[t] = head
  /\ \A t \in Thread : pc[t] = "in" <=> owner = t

(* A thread whose ticket has come up while it was on its way to sleep, or   *)
(* asleep, has a releasing thread on its way to wake it.                    *)
WakeInv ==
  /\ \A t \in Thread :
       pc[t] = "wait" /\ ticket[t] = head /\ t \notin changed =>
         \E u \in Thread : pc[u] \in {"tail", "bump"} /\ ticket[u] = head
  /\ \A t \in Thread :
       pc[t] = "blocked" /\ ticket[t] = head =>
         \E u \in Thread : pc[u] \in Waking /\ ticket[u] = head

LockInv == LockTypeOK /\ CountInv /\ OwnInv /\ WakeInv

-----------------------------------------------------------------------------

(* The distance between tickets is a number below TicketMod that tells them *)
(* apart; it shrinks when head moves and grows when tail does.              *)
LEMMA AheadType ==
  ASSUME NEW h \in 0 .. TicketMod - 1, NEW n \in 0 .. TicketMod - 1
  PROVE  /\ Ahead(h, n) \in Nat
         /\ Ahead(h, n) = 0 <=> n = h
  BY TicketAssumption DEF Ahead

(* Two tickets at the same distance are one. *)
LEMMA AheadInjective ==
  ASSUME NEW h \in 0 .. TicketMod - 1, NEW n \in 0 .. TicketMod - 1,
         NEW m \in 0 .. TicketMod - 1, Ahead(h, n) = Ahead(h, m)
  PROVE  n = m
  BY TicketAssumption DEF Ahead

(* The counters stay below TicketMod. *)
LEMMA IncType ==
  ASSUME NEW n \in 0 .. TicketMod - 1
  PROVE  Inc(n, TicketMod) \in 0 .. TicketMod - 1
  BY TicketAssumption DEF Inc

(* One ticket fewer is ahead once head has moved. *)
LEMMA AheadOfNext ==
  ASSUME NEW h \in 0 .. TicketMod - 1, NEW n \in 0 .. TicketMod - 1, n # h
  PROVE  Ahead(Inc(h, TicketMod), n) = Ahead(h, n) - 1
  BY TicketAssumption DEF Ahead, Inc

(* One ticket more is ahead of the next one. *)
LEMMA AheadInc ==
  ASSUME NEW h \in 0 .. TicketMod - 1, NEW n \in 0 .. TicketMod - 1,
         Ahead(h, n) + 1 < TicketMod
  PROVE  Ahead(h, Inc(n, TicketMod)) = Ahead(h, n) + 1
  BY TicketAssumption DEF Ahead, Inc

(* There are as many outstanding tickets as threads at most. *)
LEMMA ThreadSets ==
  ASSUME NEW S \in SUBSET Thread
  PROVE  /\ IsFiniteSet(S)
         /\ Cardinality(S) \in Nat
         /\ Cardinality(S) <= Cardinality(Thread)
         /\ Cardinality(Thread) \in Nat
         /\ Cardinality(Thread) < TicketMod
<1>1. IsFiniteSet(Thread)
  BY ThreadAssumption
<1>2. IsFiniteSet(S) /\ Cardinality(S) <= Cardinality(Thread)
  BY <1>1, FS_Subset
<1>3. Cardinality(S) \in Nat /\ Cardinality(Thread) \in Nat
  BY <1>1, <1>2, FS_CardinalityType
<1>. QED
  BY <1>2, <1>3, TicketAssumption

-----------------------------------------------------------------------------

(* Steps that leave the counters and the outstanding tickets alone. *)
LEMMA CountFrame ==
  ASSUME CountInv, head' = head, tail' = tail, Outstanding' = Outstanding,
         \A t \in Outstanding : ticket'[t] = ticket[t]
  PROVE  CountInv'
  BY DEF CountInv, Ahead

(* A new ticket is the last one. *)
LEMMA CountTake ==
  ASSUME LockTypeOK, CountInv, NEW t \in Thread, TakeTicket(t)
  PROVE  CountInv'
<1>. DEFINE A(n) == Ahead(head, n)
<1>1. /\ t \notin Outstanding
      /\ Outstanding' = Outstanding \cup {t}
      /\ head' = head
      /\ tail' = Inc(tail, TicketMod)
      /\ ticket' = [ticket EXCEPT ![t] = tail]
  BY DEF TakeTicket, Goto, LockTypeOK, Outstanding, Waiters, Inside, Waiting
<1>2. /\ IsFiniteSet(Outstanding)
      /\ Cardinality(Outstanding) \in Nat
      /\ Cardinality(Outstanding') < TicketMod
      /\ Cardinality(Outstanding') \in Nat
  <2>1. Outstanding \in SUBSET Thread /\ Outstanding \cup {t} \in SUBSET Thread
    BY DEF Outstanding, Waiters, Inside
  <2>2. IsFiniteSet(Outstanding) /\ Cardinality(Outstanding) \in Nat
    BY <2>1, ThreadSets
  <2>3. LET n == Cardinality(Outstanding \cup {t})
        IN  n \in Nat /\ n <= Cardinality(Thread) /\ Cardinality(Thread) < TicketMod
              /\ Cardinality(Thread) \in Nat
    BY <2>1, ThreadSets
  <2>. QED
    BY <1>1, <2>2, <2>3, TicketAssumption
<1>3. Cardinality(Outstanding') = Cardinality(Outstanding) + 1
  BY <1>1, <1>2, FS_AddElement
<1>4. /\ head \in 0 .. TicketMod - 1
      /\ tail \in 0 .. TicketMod - 1
      /\ \A u \in Thread : ticket[u] \in 0 .. TicketMod - 1
      /\ \A u \in Thread : ticket'[u] = IF u = t THEN tail ELSE ticket[u]
  BY <1>1 DEF LockTypeOK
<1>5. A(tail) = Cardinality(Outstanding)
  BY DEF CountInv
<1>6. Ahead(head, tail') = A(tail) + 1
  BY <1>1, <1>2, <1>3, <1>4, <1>5, AheadInc
<1>7. \A u \in Outstanding : u \in Thread /\ u # t /\ ticket'[u] = ticket[u]
  BY <1>1, <1>4 DEF Outstanding, Waiters, Inside
<1>8. \A u \in Outstanding : A(ticket[u]) \in Nat /\ A(ticket[u]) < A(tail)
  <2>. SUFFICES ASSUME NEW u \in Outstanding PROVE A(ticket[u]) \in Nat /\ A(ticket[u]) < A(tail)
    OBVIOUS
  <2>1. A(ticket[u]) \in Nat
    BY <1>4, <1>7, AheadType
  <2>. QED
    BY <2>1 DEF CountInv
<1>9. \A u \in Outstanding : ticket[u] # tail
  BY <1>8, <1>2, <1>5
<1>10. ticket'[t] = tail
  BY <1>4
<1>11. \A u \in Outstanding' : Ahead(head, ticket'[u]) < Ahead(head, tail')
  BY <1>1, <1>2, <1>5, <1>6, <1>7, <1>8, <1>10
<1>12. \A u, v \in Outstanding' : ticket'[u] = ticket'[v] => u = v
  BY <1>1, <1>7, <1>9, <1>10 DEF CountInv
<1>13. \A i \in 0 .. Ahead(head, tail') - 1 : \E u \in Outstanding' : Ahead(head, ticket'[u]) = i
  <2>. SUFFICES ASSUME NEW i \in 0 .. A(tail)
                PROVE  \E u \in Outstanding' : A(ticket'[u]) = i
    BY <1>2, <1>5, <1>6
  <2>1. CASE i = A(tail)
    BY <2>1, <1>1, <1>10
  <2>2. CASE i # A(tail)
    <3>1. i \in 0 .. A(tail) - 1
      BY <2>2, <1>2, <1>5
    <3>2. PICK u \in Outstanding : A(ticket[u]) = i
      BY <3>1 DEF CountInv
    <3>. QED
      BY <3>2, <1>1, <1>7
  <2>. QED
    BY <2>1, <2>2
<1>. QED
  BY <1>1, <1>3, <1>5, <1>6, <1>11, <1>12, <1>13 DEF CountInv

(* The ticket that is let go of is the first one. *)
LEMMA CountBump ==
  ASSUME LockTypeOK, CountInv, OwnInv, NEW t \in Thread, BumpHead(t)
  PROVE  CountInv'
<1>. DEFINE A(n) == Ahead(head, n)
            B(n) == Ahead(Inc(head, TicketMod), n)
<1>1. /\ t \in Outstanding /\ ticket[t] = head
      /\ Outstanding' = Outstanding \ {t}
      /\ head' = Inc(head, TicketMod)
      /\ tail' = tail
      /\ \A u \in Outstanding \ {t} : ticket'[u] = ticket[u]
  BY DEF BumpHead, Goto, LockTypeOK, OwnInv, Outstanding, Waiters, Inside, Waiting
<1>2. IsFiniteSet(Outstanding) /\ Cardinality(Outstanding) \in Nat
  <2>1. Outstanding \in SUBSET Thread
    BY DEF Outstanding, Waiters, Inside
  <2>. QED
    BY <2>1, ThreadSets
<1>3. Cardinality(Outstanding') = Cardinality(Outstanding) - 1
  BY <1>1, <1>2, FS_RemoveElement, Zenon
<1>4. /\ head \in 0 .. TicketMod - 1
      /\ tail \in 0 .. TicketMod - 1
      /\ \A u \in Outstanding : ticket[u] \in 0 .. TicketMod - 1
  BY DEF LockTypeOK, Outstanding, Waiters, Inside
<1>5. /\ A(tail) = Cardinality(Outstanding)
      /\ A(head) = 0
      /\ \A u \in Outstanding : A(ticket[u]) \in Nat /\ A(ticket[u]) < A(tail)
  <2>1. A(head) = 0
    BY <1>4, AheadType
  <2>2. \A u \in Outstanding : A(ticket[u]) \in Nat
    BY <1>4, AheadType
  <2>. QED
    BY <2>1, <2>2 DEF CountInv
<1>6. tail # head
  BY <1>1, <1>2, <1>5
<1>7. B(tail) = A(tail) - 1
  BY <1>4, <1>6, AheadOfNext
<1>8. \A u \in Outstanding \ {t} : ticket[u] # head
  BY <1>1 DEF CountInv
<1>9. \A u \in Outstanding \ {t} : B(ticket[u]) = A(ticket[u]) - 1
  BY <1>4, <1>8, AheadOfNext
<1>10. \A u \in Outstanding' : Ahead(head', ticket'[u]) < Ahead(head', tail')
  BY <1>1, <1>2, <1>5, <1>7, <1>9
<1>11. \A u, v \in Outstanding' : ticket'[u] = ticket'[v] => u = v
  BY <1>1 DEF CountInv
<1>12. \A i \in 0 .. Ahead(head', tail') - 1 : \E u \in Outstanding' : Ahead(head', ticket'[u]) = i
  <2>. SUFFICES ASSUME NEW i \in 0 .. B(tail) - 1
                PROVE  \E u \in Outstanding \ {t} : B(ticket[u]) = i
    BY <1>1
  <2>1. i + 1 \in 0 .. A(tail) - 1 /\ i + 1 # 0 /\ (i + 1) - 1 = i
    BY <1>2, <1>5, <1>7
  <2>2. PICK u \in Outstanding : A(ticket[u]) = i + 1
    BY <2>1 DEF CountInv
  <2>3. u # t
    BY <2>1, <2>2, <1>1, <1>5
  <2>. QED
    BY <2>1, <2>2, <2>3, <1>9
<1>. QED
  BY <1>1, <1>2, <1>3, <1>5, <1>7, <1>10, <1>11, <1>12, Zenon DEF CountInv

(* The lock of the child of a fork has one outstanding ticket. *)
LEMMA CountRecreate ==
  ASSUME LockTypeOK, NEW t \in Thread, Recreate(t)
  PROVE  CountInv'
<1>1. /\ Outstanding' = {t} /\ head' = 0 /\ tail' = Inc(0, TicketMod)
      /\ ticket'[t] = 0
  BY DEF Recreate, LockTypeOK, Outstanding, Waiters, Inside, Waiting
<1>2. TicketMod \in Nat /\ TicketMod > 1
  <2>1. {t} \in SUBSET Thread
    OBVIOUS
  <2>2. /\ Cardinality({t}) <= Cardinality(Thread) /\ Cardinality(Thread) < TicketMod
        /\ Cardinality(Thread) \in Nat
    BY <2>1, ThreadSets
  <2>. QED
    BY <2>2, FS_Singleton, TicketAssumption
<1>3. Ahead(head', tail') = 1 /\ Ahead(head', ticket'[t]) = 0
  BY <1>1, <1>2 DEF Ahead, Inc
<1>4. Cardinality({t}) = 1
  BY FS_Singleton
<1>. QED
  BY <1>1, <1>3, <1>4 DEF CountInv

-----------------------------------------------------------------------------

(* One step of the lock keeps its types. *)
LEMMA LockTypeStep ==
  ASSUME LockTypeOK, NEW t \in Thread,
         TakeTicket(t) \/ InnerStep(t) \/ SpuriousWakeup(t) \/ Own(t) \/ Disown(t) \/ Recreate(t)
  PROVE  LockTypeOK'
<1>. USE DEF LockTypeOK, Goto, Waiting, Waking
<1>0. 0 \in 0 .. TicketMod - 1
  BY ThreadSets, TicketAssumption
<1>1. CASE TakeTicket(t)
  BY <1>1, IncType DEF TakeTicket
<1>2. CASE LoadFutex(t) \/ CheckHead(t) \/ FutexWait(t) \/ SpuriousWakeup(t)
  BY <1>2 DEF LoadFutex, CheckHead, FutexWait, SpuriousWakeup
<1>3. CASE Own(t) \/ Disown(t)
  BY <1>3 DEF Own, Disown
<1>4. CASE BumpHead(t)
  BY <1>4, IncType DEF BumpHead
<1>5. CASE CheckTail(t) \/ BumpFutex(t)
  BY <1>5, <1>0 DEF CheckTail, BumpFutex
<1>6. CASE FutexWake(t)
  BY <1>6, <1>0 DEF FutexWake
<1>7. CASE Recreate(t)
  BY <1>7, <1>0, IncType DEF Recreate
<1>. QED
  BY <1>1, <1>2, <1>3, <1>4, <1>5, <1>6, <1>7, Zenon DEF InnerStep

(* One step of the lock keeps the count of the tickets. *)
LEMMA CountStep ==
  ASSUME LockInv, NEW t \in Thread,
         TakeTicket(t) \/ InnerStep(t) \/ SpuriousWakeup(t) \/ Own(t) \/ Disown(t) \/ Recreate(t)
  PROVE  CountInv'
<1>. USE DEF LockInv
<1>1. CASE TakeTicket(t)
  BY <1>1, CountTake
<1>2. CASE BumpHead(t)
  BY <1>2, CountBump
<1>3. CASE Recreate(t)
  BY <1>3, CountRecreate
<1>4. CASE \/ LoadFutex(t) \/ CheckHead(t) \/ FutexWait(t) \/ SpuriousWakeup(t)
           \/ Own(t) \/ Disown(t) \/ CheckTail(t) \/ BumpFutex(t) \/ FutexWake(t)
  <2>1. head' = head /\ tail' = tail
    BY <1>4 DEF LoadFutex, CheckHead, FutexWait, SpuriousWakeup, Own, Disown, CheckTail,
                BumpFutex, FutexWake
  <2>2. Outstanding' = Outstanding
    <3>1. CASE \/ LoadFutex(t) \/ CheckHead(t) \/ FutexWait(t) \/ SpuriousWakeup(t)
               \/ Own(t) \/ Disown(t)
      BY <3>1 DEF LoadFutex, CheckHead, FutexWait, SpuriousWakeup, Own, Disown, Goto,
                  LockTypeOK, Outstanding, Waiters, Inside, Waiting
    <3>2. CASE CheckTail(t) \/ BumpFutex(t)
      BY <3>2 DEF CheckTail, BumpFutex, Goto, LockTypeOK, Outstanding, Waiters, Inside, Waiting
    <3>3. CASE FutexWake(t)
      BY <3>3, Zenon DEF FutexWake, LockTypeOK, Outstanding, Waiters, Inside, Waiting
    <3>. QED
      BY <1>4, <3>1, <3>2, <3>3, Zenon
  <2>3. \A u \in Outstanding : ticket'[u] = ticket[u]
    BY <1>4 DEF LoadFutex, CheckHead, FutexWait, SpuriousWakeup, Own, Disown, CheckTail,
                BumpFutex, FutexWake, LockTypeOK, Outstanding, Waiters, Inside, Waiting
  <2>. QED
    BY <2>1, <2>2, <2>3, CountFrame, Zenon
<1>. QED
  BY <1>1, <1>2, <1>3, <1>4 DEF InnerStep

(* No ticket but one is up, so nobody else is inside with its holder. *)
LEMMA InsideAlone ==
  ASSUME CountInv, OwnInv, NEW t \in Outstanding, ticket[t] = head, NEW u \in Inside
  PROVE  u = t
  BY DEF CountInv, OwnInv, Outstanding

(* One step of the lock keeps the thread inside alone. *)
LEMMA OwnStep ==
  ASSUME LockInv, NEW t \in Thread,
         TakeTicket(t) \/ InnerStep(t) \/ SpuriousWakeup(t) \/ Own(t) \/ Disown(t) \/ Recreate(t)
  PROVE  OwnInv'
<1>. USE ThreadAssumption DEF LockInv, LockTypeOK, OwnInv, Inside, Goto
<1>1. CASE TakeTicket(t)
  BY <1>1 DEF TakeTicket
<1>2. CASE LoadFutex(t) \/ CheckHead(t) \/ FutexWait(t) \/ SpuriousWakeup(t)
  BY <1>2 DEF LoadFutex, CheckHead, FutexWait, SpuriousWakeup
<1>3. CASE Own(t)
  <2>1. \A u \in Inside : u = t
    BY <1>3, InsideAlone DEF Own, Outstanding, Waiters, Waiting
  <2>. QED
    BY <1>3, <2>1 DEF Own
<1>4. CASE Disown(t)
  BY <1>4 DEF Disown
<1>5. CASE BumpHead(t)
  <2>1. \A u \in Inside : u = t
    BY <1>5, InsideAlone DEF BumpHead, Outstanding
  <2>. QED
    BY <1>5, <2>1 DEF BumpHead
<1>6. CASE CheckTail(t) \/ BumpFutex(t)
  BY <1>6 DEF CheckTail, BumpFutex
<1>7. CASE FutexWake(t)
  BY <1>7 DEF FutexWake
<1>8. CASE Recreate(t)
  BY <1>8 DEF Recreate
<1>. QED
  BY <1>1, <1>2, <1>3, <1>4, <1>5, <1>6, <1>7, <1>8, Zenon DEF InnerStep

(* While a thread waits with the ticket that is up there are tickets left:  *)
(* a releasing thread that looks for one does not go home.                  *)
LEMMA TailIsFurther ==
  ASSUME LockInv, NEW t \in Waiters, ticket[t] = head
  PROVE  tail # head
<1>1. head \in 0 .. TicketMod - 1 /\ tail \in 0 .. TicketMod - 1
  BY DEF LockInv, LockTypeOK
<1>2. Ahead(head, head) < Ahead(head, tail)
  BY DEF LockInv, CountInv, Outstanding
<1>3. Ahead(head, tail) \in Nat
  BY <1>1, AheadType, Zenon
<1>. QED
  BY <1>2, <1>3

(* One step of the lock loses no wakeup. *)
LEMMA WakeStep ==
  ASSUME LockInv, NEW t \in Thread,
         TakeTicket(t) \/ InnerStep(t) \/ SpuriousWakeup(t) \/ Own(t) \/ Disown(t) \/ Recreate(t)
  PROVE  WakeInv'
<1>. USE DEF LockInv, LockTypeOK, WakeInv, Goto, Waking
<1>1. CASE TakeTicket(t)
  BY <1>1 DEF TakeTicket
<1>2. CASE LoadFutex(t) \/ CheckHead(t)
  BY <1>2 DEF LoadFutex, CheckHead
<1>3. CASE FutexWait(t)
  BY <1>3 DEF FutexWait
<1>4. CASE SpuriousWakeup(t)
  BY <1>4 DEF SpuriousWakeup
<1>5. CASE Own(t) \/ Disown(t)
  BY <1>5 DEF Own, Disown
<1>6. CASE BumpHead(t)
  BY <1>6 DEF BumpHead
<1>7. CASE CheckTail(t)
  <2>1. /\ head' = head /\ changed' = changed
        /\ \A u \in Thread : u # t => pc'[u] = pc[u] /\ ticket'[u] = ticket[u]
        /\ pc[t] = "tail"
        /\ tail # ticket[t] => pc'[t] = "bump" /\ ticket'[t] = ticket[t]
        /\ tail = ticket[t] => pc'[t] = "out"
    BY <1>7 DEF CheckTail
  <2>2. \A u \in Thread : pc[u] \in {"wait", "blocked"} /\ ticket[u] = head => tail # head
    BY TailIsFurther DEF Waiters, Waiting
  <2>. QED
    BY <2>1, <2>2
<1>8. CASE BumpFutex(t)
  <2>1. /\ head' = head /\ ticket' = ticket
        /\ changed' = changed \cup {u \in Thread : /\ pc[u] \in {"check", "wait"}
                                                   /\ FutexOf(ticket[u]) = FutexOf(ticket[t])}
        /\ \A u \in Thread : u # t => pc'[u] = pc[u]
        /\ pc[t] = "bump" /\ pc'[t] = "wake"
    BY <1>8 DEF BumpFutex
  <2>. QED
    BY <2>1
<1>9. CASE FutexWake(t)
  <2>1. /\ head' = head /\ changed' = changed
        /\ \A u \in Thread : u # t => ticket'[u] = ticket[u]
        /\ pc[t] = "wake" /\ pc'[t] = "out"
    BY <1>9 DEF FutexWake
  <2>2. ASSUME NEW u \in Thread, u # t
        PROVE  pc'[u] = IF pc[u] = "blocked" /\ FutexOf(ticket[u]) = FutexOf(ticket[t])
                        THEN "load" ELSE pc[u]
    BY <1>9, <2>2, Zenon DEF FutexWake
  <2>3. ASSUME NEW v \in Thread, pc'[v] = "wait", ticket'[v] = head, v \notin changed
        PROVE  \E u \in Thread : pc'[u] \in {"tail", "bump"} /\ ticket'[u] = head
    <3>1. v # t
      BY <2>1, <2>3
    <3>2. pc[v] = "wait" /\ ticket[v] = head
      BY <2>1, <2>2, <2>3, <3>1
    <3>3. PICK u \in Thread : pc[u] \in {"tail", "bump"} /\ ticket[u] = head
      BY <3>2, <2>3
    <3>4. u # t
      BY <3>3, <2>1
    <3>. QED
      BY <3>3, <3>4, <2>1, <2>2
  <2>4. ASSUME NEW v \in Thread, pc'[v] = "blocked", ticket'[v] = head
        PROVE  \E u \in Thread : pc'[u] \in Waking /\ ticket'[u] = head
    <3>1. v # t /\ ticket[v] = head
      BY <2>1, <2>4
    <3>2. pc[v] = "blocked" /\ FutexOf(ticket[v]) # FutexOf(ticket[t])
      BY <2>2, <2>4, <3>1
    <3>3. PICK u \in Thread : pc[u] \in Waking /\ ticket[u] = head
      BY <3>1, <3>2
    <3>4. u # t
      BY <3>1, <3>2, <3>3, Zenon
    <3>. QED
      BY <3>3, <3>4, <2>1, <2>2
  <2>. QED
    BY <2>1, <2>3, <2>4
<1>10. CASE Recreate(t)
  BY <1>10 DEF Recreate
<1>. QED
  BY <1>1, <1>2, <1>3, <1>4, <1>5, <1>6, <1>7, <1>8, <1>9, <1>10, Zenon DEF InnerStep

(* The lock starts, and goes on, in states of LockInv. *)
LEMMA LockInvInit == create_sched_lock => LockInv
<1>. SUFFICES ASSUME create_sched_lock PROVE LockInv
  OBVIOUS
<1>1. 0 \in 0 .. TicketMod - 1
  BY ThreadSets, TicketAssumption
<1>2. Waiters = {} /\ Inside = {} /\ Outstanding = {}
  BY DEF create_sched_lock, Waiters, Inside, Outstanding, Waiting
<1>3. LockTypeOK
  BY <1>1 DEF create_sched_lock, LockTypeOK
<1>4. Ahead(head, tail) = 0
  BY <1>1, AheadType DEF create_sched_lock
<1>5. CountInv
  BY <1>2, <1>4, FS_EmptySet DEF CountInv
<1>6. OwnInv /\ WakeInv
  BY <1>2, ThreadAssumption DEF OwnInv, WakeInv, create_sched_lock
<1>. QED
  BY <1>3, <1>5, <1>6 DEF LockInv

(* See LockInvInit. *)
LEMMA LockInvStep == LockInv /\ [LockNext]_lockVars => LockInv'
<1>. SUFFICES ASSUME LockInv, [LockNext]_lockVars PROVE LockInv'
  OBVIOUS
<1>1. CASE LockNext
  <2>1. PICK t \in Thread :
          TakeTicket(t) \/ InnerStep(t) \/ SpuriousWakeup(t) \/ Own(t) \/ Disown(t) \/ Recreate(t)
    BY <1>1 DEF LockNext
  <2>2. LockTypeOK'
    BY <2>1, LockTypeStep DEF LockInv
  <2>3. CountInv'
    BY <2>1, CountStep
  <2>4. OwnInv'
    BY <2>1, OwnStep
  <2>5. WakeInv'
    BY <2>1, WakeStep
  <2>. QED
    BY <2>2, <2>3, <2>4, <2>5 DEF LockInv
<1>2. CASE UNCHANGED lockVars
  <2>1. LockTypeOK' /\ OwnInv' /\ WakeInv'
    BY <1>2 DEF LockInv, lockVars, LockTypeOK, OwnInv, WakeInv, Inside
  <2>2. CountInv'
    BY <1>2, CountFrame DEF LockInv, lockVars, Outstanding, Waiters, Inside
  <2>. QED
    BY <2>1, <2>2 DEF LockInv
<1>. QED
  BY <1>1, <1>2

(* What the scheduler does to the lock are operations of the lock. *)
LEMMA LockSteps == [Next]_vars => [LockNext]_lockVars
<1>. SUFFICES ASSUME Next, ~ UNCHANGED lockVars PROVE LockNext
  BY DEF vars
<1>1. PICK t \in Thread :
        \/ AcquireAgain(t) \/ SyscallReturns(t) \/ sigvgkill_handler(t)
        \/ LockStep(t) \/ Spurious(t) \/ Acquired(t)
        \/ EndSlice(t) \/ client_syscall(t) \/ (\E c \in Thread : do_clone(t, c))
        \/ sys_exit(t) \/ sys_exit_group(t) \/ reap_threads(t)
        \/ LeaveScheduler(t) \/ ExitThread(t) \/ sched_fork_cleanup(t)
  BY Zenon DEF Next
<1>2. TakeTicket(t) \/ InnerStep(t) \/ SpuriousWakeup(t) \/ Own(t) \/ Disown(t) \/ Recreate(t)
        \/ UNCHANGED lockVars
  BY <1>1 DEF AcquireAgain, SyscallReturns, sigvgkill_handler, LockStep, Spurious, Acquired,
              EndSlice, client_syscall, do_clone, sys_exit, sys_exit_group, reap_threads,
              LeaveScheduler, ExitThread, sched_fork_cleanup, release_BigLock
<1>. QED
  BY <1>2 DEF LockNext

(* The inductive invariant of the lock holds under the scheduler. *)
LEMMA LockInvariant == Spec => []LockInv
<1>1. Init => LockInv
  BY LockInvInit DEF Init
<1>2. LockInv /\ [Next]_vars => LockInv'
  BY LockInvStep, LockSteps
<1>. QED
  BY <1>1, <1>2, PTL DEF Spec

(* The scheduler uses the lock by its operations alone: what holds of the   *)
(* lock for every user of it holds under the scheduler.                     *)
THEOREM SchedulerUsesLock == Spec => LockSpec
<1>1. Init => create_sched_lock
  BY DEF Init
<1>. QED
  BY <1>1, LockSteps, PTL DEF Spec, LockSpec

(* For any number of threads there is one inside at most, and it is the     *)
(* owner (acquire_sched_lock and release_sched_lock).                       *)
THEOREM LockExcludes == Spec => []MutualExclusion
<1>1. LockInv => MutualExclusion
  BY InsideAlone DEF LockInv, OwnInv, MutualExclusion, Inside, Outstanding
<1>. QED
  BY <1>1, LockInvariant, PTL

(* For any number of threads and futexes no wakeup is lost.                 *)
THEOREM LockWakes == Spec => []NoLostWakeup
<1>1. LockInv => NoLostWakeup
  BY DEF LockInv, WakeInv, NoLostWakeup
<1>. QED
  BY <1>1, LockInvariant, PTL

-----------------------------------------------------------------------------

(* A thread inside is counted once. *)
LEMMA InsideCount ==
  ASSUME LockInv
  PROVE  \/ Inside = {} /\ Cardinality(Inside) = 0
         \/ Cardinality(Inside) = 1 /\ \E u \in Inside : Inside = {u}
<1>1. CASE Inside = {}
  BY <1>1, FS_EmptySet
<1>2. CASE Inside # {}
  <2>1. PICK u \in Inside : TRUE
    BY <1>2
  <2>2. Inside = {u}
    BY <2>1, InsideAlone DEF LockInv, OwnInv, Outstanding
  <2>. QED
    BY <2>2, FS_Singleton
<1>. QED
  BY <1>1, <1>2

(* The threads that wait have the positions from 0 on, one each.            *)
LEMMA Positions ==
  ASSUME LockInv
  PROVE  /\ Cardinality(Waiters) \in Nat
         /\ Ahead(head, tail) = Cardinality(Waiters) + Cardinality(Inside)
         /\ Cardinality(Inside) \in Nat
         /\ \A t \in Waiters : Position[t] \in 0 .. Cardinality(Waiters) - 1
         /\ \A t, u \in Waiters : Position[t] = Position[u] => t = u
         /\ \A i \in 0 .. Cardinality(Waiters) - 1 : \E t \in Waiters : Position[t] = i
<1>. DEFINE A(t) == Ahead(head, ticket[t])
            W == Cardinality(Waiters)
            I == Cardinality(Inside)
<1>1. /\ Waiters \in SUBSET Thread /\ Inside \in SUBSET Thread
      /\ Waiters \cap Inside = {}
  BY DEF Waiters, Inside, Waiting
<1>2. W \in Nat /\ I \in Nat /\ IsFiniteSet(Waiters) /\ IsFiniteSet(Inside)
  BY <1>1, ThreadSets
<1>3. Cardinality(Outstanding) = W + I
  <2>1. Cardinality(Outstanding) = W + I - Cardinality(Waiters \cap Inside)
    BY <1>2, FS_Union DEF Outstanding
  <2>. QED
    BY <2>1, <1>1, <1>2, FS_EmptySet
<1>4. Ahead(head, tail) = W + I
  BY <1>3 DEF LockInv, CountInv
<1>5. /\ head \in 0 .. TicketMod - 1
      /\ \A t \in Outstanding : ticket[t] \in 0 .. TicketMod - 1
  BY <1>1 DEF LockInv, LockTypeOK, Outstanding
<1>6. \A t \in Outstanding : A(t) \in Nat /\ (A(t) = 0 <=> ticket[t] = head)
  BY <1>5, AheadType
<1>7. \A t \in Waiters : Position[t] = A(t) - I
  BY DEF Position
<1>8. \A t \in Waiters : A(t) < W + I
  BY <1>4 DEF LockInv, CountInv, Outstanding
<1>9. \A t \in Waiters : A(t) >= I
  <2>. SUFFICES ASSUME NEW t \in Waiters, Inside # {} PROVE A(t) # 0
    BY InsideCount, <1>6 DEF Outstanding
  <2>1. PICK u \in Inside : TRUE
    OBVIOUS
  <2>2. ticket[u] = head
    BY <2>1 DEF LockInv, OwnInv
  <2>3. ticket[t] # head
    BY <2>1, <2>2, <1>1 DEF LockInv, CountInv, Outstanding
  <2>. QED
    BY <2>3, <1>6 DEF Outstanding
<1>10. \A t \in Waiters : Position[t] \in 0 .. W - 1
  BY <1>2, <1>6, <1>7, <1>8, <1>9 DEF Outstanding
<1>11. \A t, u \in Waiters : Position[t] = Position[u] => t = u
  <2>. SUFFICES ASSUME NEW t \in Waiters, NEW u \in Waiters, Position[t] = Position[u]
                PROVE  t = u
    OBVIOUS
  <2>1. A(t) = A(u)
    BY <1>2, <1>6, <1>7 DEF Outstanding
  <2>2. ticket[t] = ticket[u]
    BY <2>1, <1>5, AheadInjective DEF Outstanding
  <2>. QED
    BY <2>2 DEF LockInv, CountInv, Outstanding
<1>12. \A i \in 0 .. W - 1 : \E t \in Waiters : Position[t] = i
  <2>. SUFFICES ASSUME NEW i \in 0 .. W - 1 PROVE \E t \in Waiters : Position[t] = i
    OBVIOUS
  <2>1. i + I \in 0 .. Ahead(head, tail) - 1
    BY <1>2, <1>4
  <2>2. PICK t \in Outstanding : A(t) = i + I
    BY <2>1 DEF LockInv, CountInv
  <2>3. t \notin Inside
    <3>. SUFFICES ASSUME t \in Inside PROVE FALSE
      OBVIOUS
    <3>1. A(t) = 0
      BY <1>6 DEF LockInv, OwnInv, Outstanding
    <3>2. I = 1
      BY InsideCount
    <3>. QED
      BY <3>1, <3>2, <2>2
  <2>4. t \in Waiters /\ Position[t] = (i + I) - I
    BY <2>2, <2>3, <1>7 DEF Outstanding
  <2>. QED
    BY <2>4, <1>2
<1>. QED
  BY <1>2, <1>4, <1>10, <1>11, <1>12

(* q lists the elements of W in the order of their positions. *)
InOrder(W, pos, n, q) ==
  /\ q \in [1 .. n -> W]
  /\ \A t, u \in W : pos[t] = pos[u] => t = u
  /\ \A i \in 1 .. n : pos[q[i]] = i - 1

(* A sequence of the threads that wait in the order of their positions is   *)
(* the queue.                                                               *)
LEMMA QueueIs ==
  ASSUME NEW W, NEW pos, NEW n, NEW q, InOrder(W, pos, n, q)
  PROVE  Ordered(W, pos, n) = q
<1>. USE DEF InOrder
<1>1. ASSUME NEW i \in 1 .. n
      PROVE  (CHOOSE t \in W : pos[t] = i - 1) = q[i]
  <2>1. q[i] \in W /\ pos[q[i]] = i - 1
    OBVIOUS
  <2>2. \E t \in W : pos[t] = i - 1
    BY <2>1
  <2>3. LET c == CHOOSE t \in W : pos[t] = i - 1 IN c \in W /\ pos[c] = i - 1
    BY <2>2
  <2>. QED
    BY <2>1, <2>3
<1>. QED
  BY <1>1 DEF Ordered

(* The queue is a sequence of threads that wait. *)
LEMMA QueueType ==
  ASSUME LockInv
  PROVE  /\ Queue \in [1 .. Cardinality(Waiters) -> Waiters]
         /\ Queue \in Seq(Thread)
         /\ Len(Queue) = Cardinality(Waiters)
         /\ \A i \in 1 .. Cardinality(Waiters) : Position[Queue[i]] = i - 1
<1>. DEFINE n == Cardinality(Waiters)
<1>1. n \in Nat /\ Waiters \in SUBSET Thread
  BY Positions DEF Waiters
<1>2. ASSUME NEW i \in 1 .. n
      PROVE  Queue[i] \in Waiters /\ Position[Queue[i]] = i - 1
  <2>1. i - 1 \in 0 .. n - 1
    BY <1>1
  <2>2. \E t \in Waiters : Position[t] = i - 1
    BY <2>1, Positions
  <2>3. Queue[i] = CHOOSE t \in Waiters : Position[t] = i - 1
    BY DEF Queue, Ordered
  <2>. QED
    BY <2>2, <2>3
<1>3. Queue = [i \in 1 .. n |-> Queue[i]]
  BY DEF Queue, Ordered
<1>4. Queue \in [1 .. n -> Waiters]
  BY <1>2, <1>3
<1>5. Queue \in [1 .. n -> Thread]
  BY <1>1, <1>4
<1>6. Queue \in Seq(Thread) /\ Len(Queue) = n
  BY <1>1, <1>5
<1>. QED
  BY <1>2, <1>4, <1>6

(* A thread that takes a ticket asks for the abstract lock.                 *)
LEMMA TakeAsks ==
  ASSUME LockInv, LockInv', NEW t \in Thread, TakeTicket(t)
  PROVE  Fair!Ask(t)
<1>. DEFINE n == Cardinality(Waiters)
            q == Append(Queue, t)
<1>1. /\ t \notin Waiters /\ t \notin Inside /\ pc[t] # "in"
      /\ Waiters' = Waiters \cup {t}
      /\ Inside' = Inside
      /\ head' = head /\ owner' = owner
      /\ ticket'[t] = tail
      /\ \A u \in Waiters : ticket'[u] = ticket[u]
  BY DEF TakeTicket, Goto, LockInv, LockTypeOK, Waiters, Inside, Waiting
<1>2. n \in Nat /\ IsFiniteSet(Waiters) /\ Cardinality(Inside) \in Nat
  BY ThreadSets DEF Waiters, Inside
<1>3. Cardinality(Waiters') = n + 1
  BY <1>1, <1>2, FS_AddElement, Zenon
<1>4. /\ Queue \in Seq(Thread) /\ Len(Queue) = n
      /\ Queue \in [1 .. n -> Waiters]
      /\ \A i \in 1 .. n : Position[Queue[i]] = i - 1
  BY QueueType
<1>5. /\ q \in Seq(Thread) /\ Len(q) = n + 1
      /\ \A i \in 1 .. n : q[i] = Queue[i]
      /\ q[n + 1] = t
  BY <1>4, AppendProperties
<1>6. q \in [1 .. n + 1 -> Waiters']
  <2>1. \A i \in 1 .. n + 1 : q[i] \in Waiters'
    BY <1>1, <1>2, <1>4, <1>5
  <2>2. q \in [1 .. n + 1 -> Thread]
    BY <1>5, LenProperties, Zenon
  <2>. QED
    BY <2>1, <2>2, Zenon
<1>7. /\ \A u \in Waiters : Position'[u] = Position[u]
      /\ Position'[t] = Ahead(head, tail) - Cardinality(Inside)
  BY <1>1 DEF Position
<1>8. Position'[t] = n
  BY <1>2, <1>7, Positions
<1>9. \A i \in 1 .. n + 1 : Position'[q[i]] = i - 1
  BY <1>2, <1>4, <1>5, <1>7, <1>8
<1>10. \A u, v \in Waiters' : Position'[u] = Position'[v] => u = v
  BY <1>1, <1>2, <1>7, <1>8, Positions
<1>11. Ordered(Waiters', Position', n + 1) = q
  <2>1. InOrder(Waiters', Position', n + 1, q)
    BY <1>6, <1>9, <1>10, Zenon DEF InOrder
  <2>. QED
    BY <2>1, QueueIs, Zenon
<1>12. Queue' = q
  BY <1>3, <1>11, Zenon DEF Queue
<1>13. t # owner
  BY <1>1 DEF LockInv, OwnInv
<1>14. t \notin Fair!Members(Queue)
  BY <1>1, <1>4 DEF Fair!Members
<1>. QED
  BY <1>1, <1>12, <1>13, <1>14, Zenon DEF Fair!Ask

(* The thread that becomes the owner is the first of the queue.             *)
LEMMA OwnGrants ==
  ASSUME LockInv, LockInv', NEW t \in Thread, Own(t)
  PROVE  Fair!Grant
<1>. DEFINE n == Cardinality(Waiters)
            q == Tail(Queue)
<1>1. /\ t \in Waiters /\ ticket[t] = head
      /\ Waiters' = Waiters \ {t}
      /\ Inside' = Inside \cup {t}
      /\ head' = head /\ ticket' = ticket /\ owner' = t
  BY DEF Own, Goto, LockInv, LockTypeOK, Waiters, Inside, Waiting
<1>2. Inside = {}
  <2>1. \A u \in Inside : u = t
    BY <1>1, InsideAlone DEF LockInv, Outstanding
  <2>. QED
    BY <2>1, <1>1 DEF Waiters, Inside, Waiting
<1>3. owner = 0
  BY <1>2 DEF LockInv, LockTypeOK, OwnInv, Inside
<1>4. n \in Nat /\ IsFiniteSet(Waiters) /\ n # 0
  BY <1>1, ThreadSets, FS_EmptySet DEF Waiters
<1>5. Cardinality(Waiters') = n - 1
  BY <1>1, <1>4, FS_RemoveElement, Zenon
<1>6. /\ Queue \in Seq(Thread) /\ Len(Queue) = n
      /\ Queue \in [1 .. n -> Waiters]
      /\ \A i \in 1 .. n : Position[Queue[i]] = i - 1
  BY QueueType
<1>7. Queue # << >>
  BY <1>4, <1>6
<1>8. /\ \A u \in Waiters : Position[u] = Ahead(head, ticket[u]) - Cardinality(Inside)
      /\ \A u \in Waiters' : Position'[u] = Ahead(head, ticket[u]) - Cardinality(Inside')
  BY <1>1 DEF Position
<1>9. Cardinality(Inside) = 0 /\ Cardinality(Inside') = 1
  <2>1. Inside' = {t}
    BY <1>1, <1>2, Zenon
  <2>. QED
    BY <1>2, <2>1, FS_EmptySet, FS_Singleton
<1>10. \A u \in Waiters : Ahead(head, ticket[u]) \in Nat
  BY AheadType, Zenon DEF LockInv, LockTypeOK, Waiters
<1>11. \A u \in Waiters' : u \in Waiters /\ Position'[u] = Position[u] - 1 /\ Position[u] \in Nat
  BY <1>1, <1>8, <1>9, <1>10
<1>12. Position[t] = 0
  <2>1. head \in 0 .. TicketMod - 1
    BY DEF LockInv, LockTypeOK
  <2>2. Ahead(head, head) = 0
    BY <2>1, AheadType
  <2>. QED
    BY <1>1, <1>8, <1>9, <2>2
<1>13. \A i \in 1 .. n : Queue[i] = t <=> i = 1
  <2>1. Queue[1] \in Waiters /\ Position[Queue[1]] = 0
    BY <1>4, <1>6
  <2>2. Queue[1] = t
    BY <2>1, <1>1, <1>12, Positions
  <2>. QED
    BY <2>2, <1>4, <1>6, <1>12
<1>14. Head(Queue) = t
  BY <1>4, <1>6, <1>7, <1>13
<1>15. /\ q \in Seq(Thread) /\ Len(q) = n - 1
       /\ \A i \in 1 .. n - 1 : q[i] = Queue[i + 1]
  BY <1>6, <1>7, HeadTailProperties
<1>16. \A i \in 1 .. n - 1 : i + 1 \in 1 .. n /\ i + 1 # 1 /\ (i + 1) - 1 = i
  BY <1>4
<1>17. \A i \in 1 .. n - 1 : q[i] \in Waiters' /\ Position[q[i]] = i
  BY <1>1, <1>6, <1>13, <1>15, <1>16
<1>18. q \in [1 .. n - 1 -> Waiters']
  <2>1. q \in [1 .. n - 1 -> Thread]
    BY <1>15, LenProperties, Zenon
  <2>. QED
    BY <2>1, <1>17, Zenon
<1>19. \A i \in 1 .. n - 1 : Position'[q[i]] = i - 1
  BY <1>11, <1>17, Zenon
<1>20. \A u, v \in Waiters' : Position'[u] = Position'[v] => u = v
  <2>. SUFFICES ASSUME NEW u \in Waiters', NEW v \in Waiters', Position'[u] = Position'[v]
                PROVE  u = v
    OBVIOUS
  <2>1. Position[u] = Position[v] /\ u \in Waiters /\ v \in Waiters
    BY <1>11
  <2>. QED
    BY <2>1, Positions
<1>21. Ordered(Waiters', Position', n - 1) = q
  <2>1. InOrder(Waiters', Position', n - 1, q)
    BY <1>18, <1>19, <1>20, Zenon DEF InOrder
  <2>. QED
    BY <2>1, QueueIs, Zenon
<1>22. Queue' = q
  BY <1>5, <1>21 DEF Queue
<1>. QED
  BY <1>1, <1>3, <1>7, <1>14, <1>22, Zenon DEF Fair!Grant

(* Steps that leave the queue alone. *)
LEMMA QueueStays ==
  ASSUME LockInv, NEW t \in Thread, InnerStep(t) \/ SpuriousWakeup(t) \/ Disown(t)
  PROVE  Queue' = Queue
<1>1. Waiters' = Waiters
  <2>1. CASE \/ LoadFutex(t) \/ CheckHead(t) \/ FutexWait(t) \/ SpuriousWakeup(t)
             \/ Disown(t) \/ BumpHead(t) \/ CheckTail(t) \/ BumpFutex(t)
    BY <2>1 DEF LoadFutex, CheckHead, FutexWait, SpuriousWakeup, Disown, BumpHead, CheckTail,
                BumpFutex, Goto, LockInv, LockTypeOK, Waiters, Waiting
  <2>2. CASE FutexWake(t)
    BY <2>2 DEF FutexWake, LockInv, LockTypeOK, Waiters, Waiting
  <2>. QED
    BY <2>1, <2>2, Zenon DEF InnerStep
<1>2. CASE BumpHead(t)
  <2>1. /\ t \in Inside /\ Inside' = Inside \ {t}
        /\ head' = Inc(head, TicketMod)
        /\ \A u \in Waiters : ticket'[u] = ticket[u]
    BY <1>2 DEF BumpHead, Goto, LockInv, LockTypeOK, Inside, Waiters, Waiting
  <2>2. Cardinality(Inside) = 1 /\ Inside' = {}
    BY <2>1, InsideCount
  <2>3. Cardinality(Inside') = 0
    BY <2>2, FS_EmptySet
  <2>4. /\ head \in 0 .. TicketMod - 1
        /\ \A u \in Waiters : ticket[u] \in 0 .. TicketMod - 1
    BY Zenon DEF LockInv, LockTypeOK, Waiters
  <2>5. \A u \in Waiters : ticket[u] # head
    <3>1. ticket[t] = head
      BY <2>1 DEF LockInv, OwnInv
    <3>2. \A u \in Waiters : u # t
      BY <2>1 DEF Waiters, Inside, Waiting
    <3>. QED
      BY <2>1, <3>1, <3>2, Zenon DEF LockInv, CountInv, Outstanding
  <2>6. \A u \in Waiters : Ahead(head', ticket[u]) - 0 = Ahead(head, ticket[u]) - 1
    <3>. SUFFICES ASSUME NEW u \in Waiters
                  PROVE  Ahead(head', ticket[u]) - 0 = Ahead(head, ticket[u]) - 1
      OBVIOUS
    <3>1. Ahead(head', ticket[u]) = Ahead(head, ticket[u]) - 1
      BY <2>1, <2>4, <2>5, AheadOfNext
    <3>2. Ahead(head, ticket[u]) \in Nat
      BY <2>4, AheadType
    <3>. QED
      BY <3>1, <3>2
  <2>7. Position' = Position
    BY <1>1, <2>1, <2>2, <2>3, <2>6, Zenon DEF Position
  <2>. QED
    BY <1>1, <2>7 DEF Queue
<1>3. CASE \/ LoadFutex(t) \/ CheckHead(t) \/ FutexWait(t) \/ SpuriousWakeup(t)
           \/ Disown(t) \/ CheckTail(t) \/ BumpFutex(t) \/ FutexWake(t)
  <2>1. head' = head /\ \A u \in Waiters : ticket'[u] = ticket[u]
    BY <1>3 DEF LoadFutex, CheckHead, FutexWait, SpuriousWakeup, Disown, CheckTail, BumpFutex,
                FutexWake, LockInv, LockTypeOK, Waiters, Waiting
  <2>2. Inside' = Inside
    <3>1. CASE ~ FutexWake(t)
      BY <1>3, <3>1, Zenon DEF LoadFutex, CheckHead, FutexWait, SpuriousWakeup, Disown, CheckTail,
                  BumpFutex, Goto, LockInv, LockTypeOK, Inside
    <3>2. CASE FutexWake(t)
      BY <3>2, Zenon DEF FutexWake, LockInv, LockTypeOK, Inside
    <3>. QED
      BY <3>1, <3>2, Zenon
  <2>3. Position' = Position
    BY <1>1, <2>1, <2>2 DEF Position
  <2>. QED
    BY <1>1, <2>3 DEF Queue
<1>. QED
  BY <1>2, <1>3 DEF InnerStep

(* A queue of no threads. *)
LEMMA EmptyQueue ==
  ASSUME NEW pos
  PROVE  Ordered({}, pos, Cardinality({})) = << >>
  BY FS_EmptySet DEF Ordered

(* Every step of the lock is one of the abstract lock, or none.             *)
LEMMA LockRefinesStep ==
  ASSUME LockInv, LockInv', [LockNext]_lockVars
  PROVE  [Fair!Next]_<<Queue, owner>>
<1>1. CASE UNCHANGED lockVars
  <2>1. Waiters' = Waiters /\ Position' = Position /\ owner' = owner
    BY <1>1 DEF lockVars, Waiters, Position, Inside
  <2>. QED
    BY <2>1 DEF Queue
<1>2. CASE LockNext
  <2>1. PICK t \in Thread :
          TakeTicket(t) \/ InnerStep(t) \/ SpuriousWakeup(t) \/ Own(t) \/ Disown(t) \/ Recreate(t)
    BY <1>2 DEF LockNext
  <2>2. CASE TakeTicket(t)
    BY <2>2, TakeAsks DEF Fair!Next
  <2>3. CASE InnerStep(t) \/ SpuriousWakeup(t)
    <3>1. owner' = owner
      BY <2>3 DEF InnerStep, LoadFutex, CheckHead, FutexWait, BumpHead, CheckTail, BumpFutex,
                  FutexWake, SpuriousWakeup
    <3>. QED
      BY <2>3, <3>1, QueueStays, Zenon
  <2>4. CASE Own(t)
    BY <2>4, OwnGrants DEF Fair!Next
  <2>5. CASE Disown(t)
    <3>1. owner # 0 /\ owner' = 0
      BY <2>5, ThreadAssumption DEF Disown, LockInv, OwnInv
    <3>2. Queue' = Queue
      BY <2>5, QueueStays
    <3>. QED
      BY <3>1, <3>2 DEF Fair!Next, Fair!Release
  <2>6. CASE Recreate(t)
    <3>1. owner # 0 /\ owner' = owner
      BY <2>6, ThreadAssumption DEF Recreate, LockInv, OwnInv
    <3>2. Waiters' = {}
      BY <2>6 DEF Recreate, Waiters, Waiting
    <3>3. Queue' = << >>
      BY <3>2, EmptyQueue DEF Queue
    <3>. QED
      BY <3>1, <3>3 DEF Fair!Next, Fair!Fork
  <2>. QED
    BY <2>1, <2>2, <2>3, <2>4, <2>5, <2>6, Zenon
<1>. QED
  BY <1>1, <1>2

(* For any number of threads the lock is granted in the order of the calls  *)
(* to acquire_sched_lock: the ticket lock, with its futexes and counters    *)
(* that wrap, implements the first-come-first-served lock.                  *)
THEOREM LockIsFair == Spec => FirstComeFirstServed
<1>1. Init => Fair!Init
  <2>1. Init => Waiters = {} /\ owner = 0
    BY DEF Init, create_sched_lock, Waiters, Waiting
  <2>. QED
    BY <2>1, EmptyQueue, Zenon DEF Queue, Fair!Init
<1>2. LockInv /\ LockInv' /\ [Next]_vars => [Fair!Next]_<<Queue, owner>>
  BY LockRefinesStep, LockSteps, Zenon
<1>. QED
  BY <1>1, <1>2, LockInvariant, PTL DEF Spec, FirstComeFirstServed, Fair!Spec

-----------------------------------------------------------------------------

(* A thread runs, waits for the lock, or is at rest, as its status says.    *)
StatusInv ==
  /\ \A t \in Thread : status[t] = "Runnable" <=> pc[t] = "in"
  /\ \A t \in Thread : status[t] = "Runnable" <=> running_tid = t
  /\ \A t \in Thread : pc[t] \in Waiting => status[t] \in {"Init", "Yielding", "WaitSys"}

SchedInv == TypeOK /\ StatusInv /\ ShutdownAlone

(* Every step of the scheduler keeps the types. *)
LEMMA TypeStep ==
  ASSUME TypeOK, LockInv', Next
  PROVE  TypeOK'
<1>. USE ThreadAssumption DEF TypeOK
<1>1. LockTypeOK'
  BY DEF LockInv
<1>2. PICK t \in Thread :
        \/ AcquireAgain(t) \/ SyscallReturns(t) \/ sigvgkill_handler(t)
        \/ LockStep(t) \/ Spurious(t) \/ Acquired(t)
        \/ EndSlice(t) \/ client_syscall(t) \/ (\E c \in Thread : do_clone(t, c))
        \/ sys_exit(t) \/ sys_exit_group(t) \/ reap_threads(t)
        \/ LeaveScheduler(t) \/ ExitThread(t) \/ sched_fork_cleanup(t)
  BY DEF Next
<1>3. CASE \/ AcquireAgain(t) \/ SyscallReturns(t) \/ sigvgkill_handler(t)
           \/ LockStep(t) \/ Spurious(t)
  BY <1>1, <1>3, Zenon DEF AcquireAgain, SyscallReturns, sigvgkill_handler, LockStep, Spurious, threadVars
<1>4. CASE Acquired(t) \/ EndSlice(t) \/ client_syscall(t) \/ (\E c \in Thread : do_clone(t, c))
  BY <1>1, <1>4 DEF Acquired, EndSlice, client_syscall, release_BigLock, do_clone
<1>5. CASE sys_exit(t) \/ sys_exit_group(t)
  BY <1>1, <1>5, Zenon DEF sys_exit, sys_exit_group
<1>6. CASE reap_threads(t)
  BY <1>1, <1>6, Zenon DEF reap_threads, release_BigLock
<1>7. CASE LeaveScheduler(t) \/ ExitThread(t)
  BY <1>1, <1>7, Zenon DEF LeaveScheduler, ExitThread
<1>8. CASE sched_fork_cleanup(t)
  BY <1>1, <1>8, Zenon DEF sched_fork_cleanup
<1>. QED
  BY <1>2, <1>3, <1>4, <1>5, <1>6, <1>7, <1>8, Zenon

(* The steps within a call of the lock move a thread neither in nor to the  *)
(* threads that wait.                                                       *)
LEMMA InnerMoves ==
  ASSUME LockInv, NEW t \in Thread, InnerStep(t) \/ SpuriousWakeup(t), NEW u \in Thread
  PROVE  /\ pc'[u] = "in" <=> pc[u] = "in"
         /\ pc'[u] \in Waiting => pc[u] \in Waiting
<1>1. CASE FutexWake(t)
  BY <1>1, Zenon DEF FutexWake, LockInv, LockTypeOK, Waiting
<1>2. CASE ~ FutexWake(t)
  BY <1>2, Zenon DEF InnerStep, LoadFutex, CheckHead, FutexWait, SpuriousWakeup, BumpHead, CheckTail,
              BumpFutex, Goto, LockInv, LockTypeOK, Waiting
<1>. QED
  BY <1>1, <1>2

(* Every step of the scheduler keeps status and lock in agreement.          *)
LEMMA StatusStep ==
  ASSUME TypeOK, LockInv, LockInv', StatusInv, Next
  PROVE  StatusInv'
<1>. USE ThreadAssumption DEF TypeOK, LockTypeOK, StatusInv
<1>2. PICK t \in Thread :
        \/ AcquireAgain(t) \/ SyscallReturns(t) \/ sigvgkill_handler(t)
        \/ LockStep(t) \/ Spurious(t) \/ Acquired(t)
        \/ EndSlice(t) \/ client_syscall(t) \/ (\E c \in Thread : do_clone(t, c))
        \/ sys_exit(t) \/ sys_exit_group(t) \/ reap_threads(t)
        \/ LeaveScheduler(t) \/ ExitThread(t) \/ sched_fork_cleanup(t)
  BY DEF Next
<1>3. CASE AcquireAgain(t) \/ SyscallReturns(t) \/ sigvgkill_handler(t)
  BY <1>3, ZenonT(40) DEF AcquireAgain, SyscallReturns, sigvgkill_handler, TakeTicket, Goto, Waiting, threadVars
<1>4. CASE LockStep(t) \/ Spurious(t)
  BY <1>4, InnerMoves DEF LockStep, Spurious, threadVars
<1>5. CASE Acquired(t)
  <2>1. \A u \in Thread : u # t => pc[u] # "in"
    BY <1>5, InsideAlone, Zenon DEF Acquired, Own, LockInv, Inside, Outstanding, Waiters, Waiting
  <2>. QED
    BY <1>5, <2>1, Zenon DEF Acquired, Own, Goto, Waiting
<1>6. CASE \E sleepstate \in {"Yielding", "WaitSys", "Zombie"} :
             pc[t] = "in" /\ release_BigLock(t, sleepstate)
  BY <1>6 DEF release_BigLock, Disown, Goto, Waiting
<1>7. CASE UNCHANGED <<lockVars, status, running_tid>>
  BY <1>7, Zenon DEF lockVars
<1>8. CASE \E c \in Thread : do_clone(t, c)
  BY <1>8 DEF do_clone, lockVars, Waiting
<1>9. CASE ExitThread(t)
  BY <1>9, Zenon DEF ExitThread, lockVars, Waiting
<1>10. CASE sched_fork_cleanup(t)
  BY <1>10, Zenon DEF sched_fork_cleanup, Recreate, InClient, Running, Waiting
<1>11. CASE \/ EndSlice(t) \/ client_syscall(t) \/ sys_exit(t) \/ sys_exit_group(t)
            \/ reap_threads(t) \/ LeaveScheduler(t)
  BY <1>6, <1>7, <1>11, Zenon DEF EndSlice, client_syscall, sys_exit, sys_exit_group, reap_threads,
                           LeaveScheduler, InClient, Running, release_BigLock
<1>. QED
  BY <1>2, <1>3, <1>4, <1>5, <1>8, <1>9, <1>10, <1>11, Zenon

(* The thread that runs the final actions is alone when it starts them, and *)
(* stays alone.                                                             *)
LEMMA ShutdownStep ==
  ASSUME SchedInv, LockInv, Next
  PROVE  ShutdownAlone'
<1>. USE ThreadAssumption DEF SchedInv, TypeOK, LockTypeOK
<1>1. PICK t \in Thread :
        \/ AcquireAgain(t) \/ SyscallReturns(t) \/ sigvgkill_handler(t)
        \/ LockStep(t) \/ Spurious(t) \/ Acquired(t)
        \/ EndSlice(t) \/ client_syscall(t) \/ (\E c \in Thread : do_clone(t, c))
        \/ sys_exit(t) \/ sys_exit_group(t) \/ reap_threads(t)
        \/ LeaveScheduler(t) \/ ExitThread(t) \/ sched_fork_cleanup(t)
  BY DEF Next
<1>2. CASE shutdown # 0
  <2>1. Living = {shutdown} /\ owner = shutdown /\ shutdown \in Thread
    BY <1>2, Zenon DEF ShutdownAlone
  <2>2. pc[shutdown] = "in" /\ status[shutdown] = "Runnable"
    BY <2>1 DEF LockInv, OwnInv, StatusInv
  <2>3. \A u \in Thread : u # shutdown => status[u] \in {"Empty", "Zombie"}
    BY <2>1 DEF Living
  <2>4. \A u \in Thread : ~ Running(u)
    BY <1>2 DEF Running
  <2>5. pc[t] \notin Waiting
    BY <2>2, <2>3, Zenon DEF StatusInv, Waiting
  <2>6. ~ (AcquireAgain(t) \/ SyscallReturns(t) \/ sigvgkill_handler(t))
    BY <2>2, <2>3, Zenon DEF AcquireAgain, SyscallReturns, sigvgkill_handler
  <2>7. ~ Acquired(t)
    BY <2>5 DEF Acquired, Own, Waiting
  <2>8. LockStep(t) \/ Spurious(t) \/ ExitThread(t)
    BY <1>1, <2>4, <2>6, <2>7, Zenon DEF EndSlice, client_syscall, do_clone, sys_exit, sys_exit_group,
                                  reap_threads, LeaveScheduler, sched_fork_cleanup, InClient
  <2>9. shutdown' = shutdown /\ owner' = owner
    BY <2>8, Zenon DEF LockStep, Spurious, ExitThread, threadVars, lockVars, InnerStep, LoadFutex, CheckHead,
                FutexWait, BumpHead, CheckTail, BumpFutex, FutexWake, SpuriousWakeup
  <2>10. Living' = Living
    BY <2>8 DEF LockStep, Spurious, ExitThread, threadVars, Living
  <2>. QED
    BY <2>1, <2>9, <2>10, Zenon DEF ShutdownAlone
<1>3. CASE shutdown = 0 /\ shutdown' # 0
  <2>1. LeaveScheduler(t) /\ Cardinality(Living) = 1 /\ shutdown' = t
    BY <1>1, <1>3, Zenon DEF AcquireAgain, SyscallReturns, sigvgkill_handler, LockStep, Spurious, threadVars,
              Acquired, EndSlice, client_syscall, do_clone, sys_exit, sys_exit_group, reap_threads,
              LeaveScheduler, ExitThread, sched_fork_cleanup
  <2>2. pc[t] = "in" /\ UNCHANGED <<lockVars, status>>
    BY <2>1, <1>3, Zenon DEF LeaveScheduler, Running
  <2>3. owner = t /\ status[t] = "Runnable"
    BY <2>2, Zenon DEF LockInv, OwnInv, StatusInv
  <2>4. IsFiniteSet(Living)
    BY ThreadSets DEF Living
  <2>5. PICK x : Living = {x}
    BY <2>1, <2>4, FS_Singleton, Zenon
  <2>6. Living = {t}
    BY <2>3, <2>5, Zenon DEF Living
  <2>7. Living' = Living /\ owner' = owner
    BY <2>2 DEF Living, lockVars
  <2>. QED
    BY <2>1, <2>3, <2>6, <2>7, Zenon DEF ShutdownAlone
<1>. QED
  BY <1>2, <1>3, Zenon DEF ShutdownAlone

(* The inductive invariant of the scheduler. *)
LEMMA SchedInvariant == Spec => []SchedInv
<1>1. Init => SchedInv
  <2>. SUFFICES ASSUME Init PROVE SchedInv
    OBVIOUS
  <2>1. LockInv
    BY LockInvInit DEF Init
  <2>2. TypeOK
    BY <2>1 DEF Init, TypeOK, LockInv
  <2>3. StatusInv /\ ShutdownAlone
    BY ThreadAssumption DEF Init, create_sched_lock, StatusInv, ShutdownAlone, Waiting
  <2>. QED
    BY <2>2, <2>3 DEF SchedInv
<1>2. SchedInv /\ LockInv /\ LockInv' /\ [Next]_vars => SchedInv'
  <2>. SUFFICES ASSUME SchedInv, LockInv, LockInv', [Next]_vars PROVE SchedInv'
    OBVIOUS
  <2>1. CASE Next
    BY <2>1, TypeStep, StatusStep, ShutdownStep DEF SchedInv
  <2>2. CASE UNCHANGED vars
    <3>1. TypeOK' /\ StatusInv'
      BY <2>2 DEF vars, threadVars, lockVars, SchedInv, TypeOK, LockTypeOK, StatusInv
    <3>2. ShutdownAlone'
      BY <2>2 DEF vars, threadVars, lockVars, SchedInv, ShutdownAlone, Living
    <3>. QED
      BY <3>1, <3>2, Zenon DEF SchedInv
  <2>. QED
    BY <2>1, <2>2
<1>. QED
  BY <1>1, <1>2, LockInvariant, PTL DEF Spec

(* The type invariant of the scheduler. *)
THEOREM TypeCorrect == Spec => []TypeOK
<1>1. SchedInv => TypeOK
  BY DEF SchedInv
<1>. QED
  BY <1>1, SchedInvariant, PTL

(* For any number of threads the one that is Runnable is VG_(running_tid)   *)
(* and has the lock.                                                        *)
THEOREM OnlyOwnerRuns == Spec => []RunningOwnsLock
<1>1. SchedInv /\ LockInv => RunningOwnsLock
  BY DEF SchedInv, StatusInv, LockInv, OwnInv, RunningOwnsLock
<1>. QED
  BY <1>1, SchedInvariant, LockInvariant, PTL

(* For any number of threads the final actions run with no other thread     *)
(* alive, although slots are freed without the lock.                        *)
THEOREM ShutdownIsAlone == Spec => []ShutdownAlone
<1>1. SchedInv => ShutdownAlone
  BY DEF SchedInv
<1>. QED
  BY <1>1, SchedInvariant, PTL
=============================================================================
