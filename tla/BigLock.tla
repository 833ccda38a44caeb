------------------------------ MODULE BigLock -------------------------------
(***************************************************************************)
(* Threads under the big lock of the scheduler: creation (clone), slices,  *)
(* blocking system calls, exit_group, fork and exit (scheduler.c,          *)
(* syswrap-linux.c), with the ticket lock underneath.  A thread slot is    *)
(* its tid.  What a thread does while it holds the lock touches no state   *)
(* of another thread without the lock, so it is one step.                  *)
(***************************************************************************)
EXTENDS TicketLock, Sequences

VARIABLES
  status,       \* VG_(threads)[tid].status
  running_tid,  \* VG_(running_tid), 0 when invalid
  exiting,      \* exitreason # VgSrc_None
  reaping,      \* the thread is in VG_(reap_threads)
  sigvgkill,    \* VG_SIGVGKILL was sent to it
  shutdown      \* the thread that runs the final actions, or 0

threadVars == <<status, running_tid, exiting, reaping, sigvgkill, shutdown>>
vars == <<lockVars, threadVars>>

Living == {t \in Thread : status[t] \notin {"Empty", "Zombie"}}

Running(t) == pc[t] = "in" /\ shutdown = 0

(* scheduler_init_phase1: the main thread has slot 1. *)
Init ==
  /\ create_sched_lock
  /\ status = [t \in Thread |-> IF t = 1 THEN "Init" ELSE "Empty"]
  /\ running_tid = 0
  /\ exiting = [t \in Thread |-> FALSE]
  /\ reaping = [t \in Thread |-> FALSE]
  /\ sigvgkill = [t \in Thread |-> FALSE]
  /\ shutdown = 0

(* acquire_BigLock by a new thread, at the end of a slice or after a yield. *)
AcquireAgain(t) ==
  /\ status[t] \in {"Init", "Yielding"}
  /\ TakeTicket(t)
  /\ UNCHANGED threadVars

(* The system call returns, and the thread asks for the lock. *)
SyscallReturns(t) ==
  /\ status[t] = "WaitSys"
  /\ TakeTicket(t)
  /\ UNCHANGED threadVars

(* SIGVGKILL interrupts the system call; its handler asks for the lock. *)
sigvgkill_handler(t) ==
  /\ status[t] = "WaitSys" /\ sigvgkill[t]
  /\ TakeTicket(t)
  /\ UNCHANGED threadVars

LockStep(t) == InnerStep(t) /\ UNCHANGED threadVars

Spurious(t) == SpuriousWakeup(t) /\ UNCHANGED threadVars

(* The end of acquire_BigLock. *)
Acquired(t) ==
  /\ Own(t)
  /\ status' = [status EXCEPT ![t] = "Runnable"]
  /\ running_tid' = t
  /\ UNCHANGED <<exiting, reaping, sigvgkill, shutdown>>

(* Mutant: VG_(running_tid) is left as it is. *)
release_BigLock_keepsTid(t, sleepstate) ==
  /\ Disown(t)
  /\ status' = [status EXCEPT ![t] = sleepstate]
  /\ UNCHANGED running_tid

release_BigLock(t, sleepstate) ==
  /\ Disown(t)
  /\ status' = [status EXCEPT ![t] = sleepstate]
  /\ running_tid' = 0

(* A thread of the client program that is neither exiting nor reaping. *)
InClient(t) == Running(t) /\ ~ exiting[t] /\ ~ reaping[t]

(* The slice is done: dispatch_ctr = 0 in VG_(scheduler). *)
EndSlice(t) ==
  /\ InClient(t)
  /\ release_BigLock(t, "Yielding")
  /\ UNCHANGED <<exiting, reaping, sigvgkill, shutdown>>

(* A system call that may block. *)
client_syscall(t) ==
  /\ InClient(t)
  /\ release_BigLock(t, "WaitSys")
  /\ UNCHANGED <<exiting, reaping, sigvgkill, shutdown>>

(* do_clone: alloc_ThreadState takes the first empty slot. *)
do_clone(t, c) ==
  /\ InClient(t)
  /\ status[c] = "Empty" /\ \A u \in Thread : u < c => status[u] # "Empty"
  /\ status' = [status EXCEPT ![c] = "Init"]
  /\ UNCHANGED <<lockVars, running_tid, exiting, reaping, sigvgkill, shutdown>>

(* sys_exit *)
sys_exit(t) ==
  /\ InClient(t)
  /\ exiting' = [exiting EXCEPT ![t] = TRUE]
  /\ UNCHANGED <<lockVars, status, running_tid, reaping, sigvgkill, shutdown>>

(* Mutant: the threads are marked and left in their system calls. *)
sys_exit_group_noKill(t) ==
  /\ InClient(t)
  /\ exiting' = [u \in Thread |-> exiting[u] \/ (u # t /\ status[u] # "Empty")]
  /\ reaping' = [reaping EXCEPT ![t] = TRUE]
  /\ UNCHANGED <<lockVars, status, running_tid, sigvgkill, shutdown>>

(* sys_exit_group up to the reaping: every other thread is marked and the  *)
(* ones in a system call get SIGVGKILL.                                    *)
sys_exit_group(t) ==
  /\ InClient(t)
  /\ exiting' = [u \in Thread |-> exiting[u] \/ (u # t /\ status[u] # "Empty")]
  /\ sigvgkill' = [u \in Thread |-> sigvgkill[u] \/ status[u] = "WaitSys"]
  /\ reaping' = [reaping EXCEPT ![t] = TRUE]
  /\ UNCHANGED <<lockVars, status, running_tid, shutdown>>

(* One round of reap_threads: yield while other threads live. *)
reap_threads(t) ==
  /\ Running(t) /\ reaping[t]
  /\ IF Cardinality(Living) > 1
     THEN release_BigLock(t, "Yielding") /\ UNCHANGED <<exiting, reaping>>
     ELSE /\ reaping' = [reaping EXCEPT ![t] = FALSE]
          /\ exiting' = [exiting EXCEPT ![t] = TRUE]
          /\ UNCHANGED <<lockVars, status, running_tid>>
  /\ UNCHANGED <<sigvgkill, shutdown>>

(* Mutant: the main thread ends the process, whoever else runs. *)
LeaveScheduler_main(t) ==
  /\ Running(t) /\ exiting[t] /\ ~ reaping[t]
  /\ IF t = 1
     THEN shutdown' = t /\ UNCHANGED <<lockVars, status, running_tid>>
     ELSE /\ Disown(t)
          /\ status' = [status EXCEPT ![t] = "Zombie"]
          /\ running_tid' = 0
          /\ UNCHANGED shutdown
  /\ UNCHANGED <<exiting, reaping, sigvgkill>>

(* run_a_thread_NORETURN after the scheduler returned: the last thread     *)
(* keeps the lock and runs the final actions, another one gives it up.     *)
LeaveScheduler(t) ==
  /\ Running(t) /\ exiting[t] /\ ~ reaping[t]
  /\ IF Cardinality(Living) = 1
     THEN shutdown' = t /\ UNCHANGED <<lockVars, status, running_tid>>
     ELSE /\ Disown(t)
          /\ status' = [status EXCEPT ![t] = "Zombie"]
          /\ running_tid' = 0
          /\ UNCHANGED shutdown
  /\ UNCHANGED <<exiting, reaping, sigvgkill>>

(* Its last instructions make the slot free, without the lock. *)
ExitThread(t) ==
  /\ status[t] = "Zombie" /\ pc[t] = "out"
  /\ status' = [status EXCEPT ![t] = "Empty"]
  /\ exiting' = [exiting EXCEPT ![t] = FALSE]
  /\ sigvgkill' = [sigvgkill EXCEPT ![t] = FALSE]
  /\ UNCHANGED <<lockVars, running_tid, reaping, shutdown>>

(* sched_fork_cleanup: the child of a fork goes on with this thread alone. *)
sched_fork_cleanup(t) ==
  /\ InClient(t)
  /\ Recreate(t)
  /\ status' = [u \in Thread |-> IF u = t THEN status[u] ELSE "Empty"]
  /\ exiting' = [u \in Thread |-> FALSE]
  /\ UNCHANGED <<running_tid, reaping, sigvgkill, shutdown>>

Next ==
  \E t \in Thread :
    \/ AcquireAgain(t) \/ SyscallReturns(t) \/ sigvgkill_handler(t)
    \/ LockStep(t) \/ Spurious(t) \/ Acquired(t)
    \/ EndSlice(t) \/ client_syscall(t) \/ (\E c \in Thread : do_clone(t, c))
    \/ sys_exit(t) \/ sys_exit_group(t) \/ reap_threads(t)
    \/ LeaveScheduler(t) \/ ExitThread(t) \/ sched_fork_cleanup(t)

(* The kernel runs every thread that is not blocked; a client thread's     *)
(* slice ends; a thread SIGVGKILL was sent to leaves its system call.  A   *)
(* system call may block for ever otherwise.                               *)
Fairness ==
  \A t \in Thread :
    /\ WF_vars(LockStep(t)) /\ WF_vars(Acquired(t)) /\ WF_vars(AcquireAgain(t))
    /\ WF_vars(EndSlice(t)) /\ WF_vars(sigvgkill_handler(t))
    /\ WF_vars(reap_threads(t)) /\ WF_vars(LeaveScheduler(t))

Spec == Init /\ [][Next]_vars /\ Fairness

-----------------------------------------------------------------------------

(* The lock's counters stay within their words, and the thread table and   *)
(* VG_(running_tid) hold what scheduler.c declares them to.                *)
TypeOK ==
  /\ LockTypeOK
  /\ status \in [Thread -> {"Empty", "Init", "Runnable", "Yielding", "WaitSys", "Zombie"}]
  /\ running_tid \in Thread \cup {0}
  /\ exiting \in [Thread -> BOOLEAN] /\ reaping \in [Thread -> BOOLEAN]
  /\ sigvgkill \in [Thread -> BOOLEAN]
  /\ shutdown \in Thread \cup {0}

(* At most one thread is Runnable; it is VG_(running_tid) and has the lock, *)
(* from the end of acquire_BigLock until release_BigLock or its exit.       *)
RunningOwnsLock ==
  \A t \in Thread : /\ status[t] = "Runnable" <=> running_tid = t
                    /\ status[t] = "Runnable" <=> owner = t

(* The final actions (the tool's report among them) run once, with the lock *)
(* held and no other thread left to run: run_a_thread_NORETURN decides by a *)
(* count of the threads that live, although a thread that exits frees its   *)
(* slot without the lock.                                                   *)
ShutdownAlone == shutdown # 0 => Living = {shutdown} /\ owner = shutdown

(* The threads that wait for their ticket, and the one that has the lock or *)
(* has yet to let the next ticket in.                                       *)
Waiters == {t \in Thread : pc[t] \in Waiting}

Inside == {t \in Thread : pc[t] \in {"in", "head"}}

(* The number of tickets that come up before n, once h has. *)
Ahead(h, n) == IF n >= h THEN n - h ELSE n - h + TicketMod

(* The threads that wait, first come first. *)
Position == [t \in Waiters |-> Ahead(head, ticket[t]) - Cardinality(Inside)]

Ordered(W, pos, n) == [i \in 1 .. n |-> CHOOSE t \in W : pos[t] = i - 1]

Queue == Ordered(Waiters, Position, Cardinality(Waiters))

Fair == INSTANCE SchedLock WITH queue <- Queue, holder <- owner

(* Refinement: the ticket lock grants the lock in the order of the calls to *)
(* acquire_sched_lock, whatever the futex calls do in between.              *)
FirstComeFirstServed == Fair!Spec

(* Every thread that asks for the lock gets it: no wakeup is missed for     *)
(* good, and no thread that runs keeps the others out.                      *)
LockIsGranted == \A t \in Thread : pc[t] \in Waiting ~> pc[t] \notin Waiting

(* exit_group ends the process although the thread that reaps the others    *)
(* waits for them: the comment of sys_exit_group in syswrap-linux.c asks    *)
(* "Can this give a deadlock" and argues that it cannot.                    *)
ExitGroupEnds == (\E t \in Thread : reaping[t]) ~> shutdown # 0
=============================================================================
