----------------------------- MODULE Instrument -----------------------------
(***************************************************************************)
(* cg_instrument: the statements of superblocks come in one by one, each   *)
(* adds its events to a queue of N_EVENTS, and flushing the queue adds     *)
(* calls of the logging helpers to the block.  Within a block code runs in *)
(* the order in which it is added, so that the order of the calls is the   *)
(* order in which the simulator sees the references.                       *)
(*                                                                         *)
(* An event is a record of its tag, its InstrInfo node and, for a data     *)
(* reference, its address and size (loc).  The nodes are numbered modulo   *)
(* N_EVENTS + 2, more than a queue can hold.                               *)
(***************************************************************************)
EXTENDS Integers, SequencesExt

CONSTANTS
  N_EVENTS,  \* the size of the queue
  Loc,       \* the data references of the program: address and size
  NoLoc      \* stands for no data reference

ASSUME EventsAssumption == N_EVENTS \in Nat \ {0} /\ NoLoc \notin Loc

VARIABLES
  clo_cache_sim, clo_branch_sim,  \* the options
  cgs,         \* the queue, and what the program owes the simulator
  curr_inode,  \* the node of the current instruction
  at           \* where the block is: at its start, inside, behind an exit

vars == <<clo_cache_sim, clo_branch_sim, cgs, curr_inode, at>>

Inodes == 0 .. N_EVENTS + 1

Ev(tag, inode, loc) == [tag |-> tag, inode |-> inode, loc |-> loc]

Data == {"Dr", "Dm", "Dw"}

NoEvent == Ev("none", 0, NoLoc)

(* events is the queue.  owed is a history of the references of the program *)
(* that no call was added for yet, and last its last one, unless a write    *)
(* could not be part of a modify any more.                                  *)
EmptyState == [events |-> <<>>, owed |-> <<>>, last |-> NoEvent]

(* The number of events, from the first, that one helper call notifies. *)
Merged(evs) ==
  LET tag(k) == IF k <= Len(evs) THEN evs[k].tag ELSE "none"
  IN  CASE tag(1) # "IrNoX"                       -> 1
        [] tag(1) = "IrNoX" /\ tag(2) \in Data    -> 2
        [] tag(2) = "IrNoX" /\ tag(3) = "IrNoX"   -> 3
        [] tag(2) = "IrNoX" /\ tag(3) # "IrNoX"   -> 2
        [] OTHER                                  -> 1

(* What the helpers log_* simulate for the events of a call: a modify as a  *)
(* read, and all of a call with an Ir and a data reference for the node of  *)
(* the Ir.                                                                  *)
Logged(evs) ==
  [k \in 1 .. Len(evs) |->
     Ev(IF evs[k].tag = "Dm" THEN "Dr" ELSE evs[k].tag,
        IF evs[k].tag \in Data THEN evs[1].inode ELSE evs[k].inode,
        evs[k].loc)]

(* The references that the calls added by flushEvents simulate: from i, the *)
(* number of events already done, each call takes the events it notifies.   *)
flushEvents(evs) ==
  LET rest(i) == SubSeq(evs, i + 1, Len(evs))
      from[i \in 0 .. Len(evs)] ==
        IF i = Len(evs) THEN <<>>
        ELSE Logged(SubSeq(rest(i), 1, Merged(rest(i)))) \o from[i + Merged(rest(i))]
  IN  from[0]

(* The references of calls are paid back, in order. *)
Lost == <<Ev("lost", 0, NoLoc)>>

Paid(owed, calls) ==
  IF IsPrefix(calls, owed) THEN SubSeq(owed, Len(calls) + 1, Len(owed)) ELSE Lost

Flushed(cg) == [cg EXCEPT !.events = <<>>, !.owed = Paid(@, flushEvents(cg.events))]

(* Mutant: the queue is flushed one event too late. *)
WithRoom_late(cg) == IF Len(cg.events) > N_EVENTS THEN Flushed(cg) ELSE cg

(* There is room for one more event. *)
WithRoom(cg) == IF Len(cg.events) = N_EVENTS THEN Flushed(cg) ELSE cg

Added(cg, ev) ==
  [events |-> Append(WithRoom(cg).events, ev),
   owed   |-> Append(WithRoom(cg).owed, ev),
   last   |-> ev]

addEvent_Ir(cg, inode, tag) == Added(cg, Ev(tag, inode, NoLoc))

addEvent_Dr(cg, inode, loc) ==
  IF clo_cache_sim THEN Added(cg, Ev("Dr", inode, loc)) ELSE cg

(* Mutant: room is made before the merge is tried. *)
addEvent_Dw_roomFirst(cg, inode, loc) ==
  LET dr == Ev("Dr", inode, loc)
      rm == WithRoom(cg)
  IN  IF ~clo_cache_sim THEN cg
      ELSE [events |-> IF rm.events # <<>> /\ Last(rm.events) = dr
                       THEN Append(Front(rm.events), Ev("Dm", inode, loc))
                       ELSE Append(rm.events, Ev("Dw", inode, loc)),
            owed   |-> IF cg.last = dr THEN rm.owed ELSE Append(rm.owed, Ev("Dw", inode, loc)),
            last   |-> NoEvent]

(* A write is merged with the read before it in the queue.  The program     *)
(* owes one reference for a write that follows a read of the same loc by    *)
(* the same instruction.                                                    *)
addEvent_Dw(cg, inode, loc) ==
  LET dr     == Ev("Dr", inode, loc)
      dw     == Ev("Dw", inode, loc)
      merges == cg.events # <<>> /\ Last(cg.events) = dr
      base   == IF merges THEN cg ELSE WithRoom(cg)
  IN  IF ~clo_cache_sim THEN cg
      ELSE [events |-> IF merges THEN Append(Front(base.events), Ev("Dm", inode, loc))
                                 ELSE Append(base.events, dw),
            owed   |-> IF cg.last = dr THEN base.owed ELSE Append(base.owed, dw),
            last   |-> NoEvent]

(* The queue is flushed, and a call for this reference alone is added. *)
addEvent_D_guarded(cg, inode, loc, tag) ==
  IF ~clo_cache_sim THEN cg
  ELSE [events |-> <<>>,
        owed   |-> Paid(Append(Flushed(cg).owed, Ev(tag, inode, loc)), <<Ev(tag, inode, loc)>>),
        last   |-> NoEvent]

addEvent_B(cg, inode, tag) ==
  IF clo_branch_sim THEN Added(cg, Ev(tag, inode, NoLoc)) ELSE cg

-----------------------------------------------------------------------------

Init ==
  /\ clo_cache_sim \in BOOLEAN
  /\ clo_branch_sim \in BOOLEAN
  /\ cgs = EmptyState
  /\ curr_inode = 0
  /\ at = "start"

Options == <<clo_cache_sim, clo_branch_sim>>

(* The next instruction, which is within a line (IrNoX) or not. *)
IMark(tag) ==
  /\ curr_inode' = (curr_inode + 1) % (N_EVENTS + 2)
  /\ cgs' = addEvent_Ir(cgs, curr_inode', tag)
  /\ at' = "inside"
  /\ UNCHANGED Options

Statement == at # "start" /\ at' = "inside" /\ UNCHANGED <<Options, curr_inode>>

(* Ist_WrTmp of a load, and a dirty helper that reads. *)
Load(loc) == Statement /\ cgs' = addEvent_Dr(cgs, curr_inode, loc)

(* Ist_Store, a store-conditional, and a dirty helper that writes. *)
Store(loc) == Statement /\ cgs' = addEvent_Dw(cgs, curr_inode, loc)

(* Ist_CAS, and a dirty helper that modifies. *)
Modify(loc) ==
  Statement /\ cgs' = addEvent_Dw(addEvent_Dr(cgs, curr_inode, loc), curr_inode, loc)

(* Ist_LoadG and Ist_StoreG. *)
Guarded(loc, tag) == Statement /\ cgs' = addEvent_D_guarded(cgs, curr_inode, loc, tag)

(* A load-linked, after which the queue is flushed. *)
LoadLinked(loc) ==
  /\ Statement
  /\ cgs' = [Flushed(addEvent_Dr(cgs, curr_inode, loc)) EXCEPT !.last = NoEvent]

(* Mutant: nothing is flushed before the exit. *)
Exit_keepsQueue(branch) ==
  /\ at # "start" /\ at' = "exit"
  /\ cgs' = IF branch THEN addEvent_B(cgs, curr_inode, "Bc") ELSE cgs
  /\ UNCHANGED <<Options, curr_inode>>

(* Ist_Exit, for a branch of the client's code or not. *)
Exit(branch) ==
  /\ at # "start" /\ at' = "exit"
  /\ cgs' = [Flushed(IF branch THEN addEvent_B(cgs, curr_inode, "Bc") ELSE cgs)
               EXCEPT !.last = NoEvent]
  /\ UNCHANGED <<Options, curr_inode>>

(* The end of the block, by a jump to an unknown destination or not; the    *)
(* next block starts with an empty queue.                                   *)
EndOfBlock(indirect) ==
  /\ at # "start" /\ at' = "start"
  /\ cgs' = [Flushed(IF indirect THEN addEvent_B(cgs, curr_inode, "Bi") ELSE cgs)
               EXCEPT !.last = NoEvent]
  /\ UNCHANGED <<Options, curr_inode>>

Next ==
  \/ \E tag \in {"IrNoX", "IrGen"} : IMark(tag)
  \/ \E loc \in Loc : \/ Load(loc) \/ Store(loc) \/ Modify(loc) \/ LoadLinked(loc)
                      \/ \E tag \in {"Dr", "Dw"} : Guarded(loc, tag)
  \/ \E b \in BOOLEAN : Exit(b) \/ EndOfBlock(b)

Spec == Init /\ [][Next]_vars

-----------------------------------------------------------------------------

Event == [tag : {"none", "IrNoX", "IrGen", "Dr", "Dw", "Dm", "Bc", "Bi"}, inode : Inodes,
          loc : Loc \cup {NoLoc}]

(* The array of events of CgState never overflows, whatever is added to it  *)
(* (the addEvent functions flush it first).                                 *)
TypeOK ==
  /\ Len(cgs.events) <= N_EVENTS
  /\ ToSet(cgs.events) \subseteq Event
  /\ cgs.last \in Event
  /\ curr_inode \in Inodes

(* The simulator sees the references of the program in the program's order, *)
(* each once and for its own instruction: what the queue would be flushed   *)
(* to is at all times what is owed, however the queue fills up, events are  *)
(* merged into modifies and calls into one helper call.                     *)
NothingLostOrReordered == cgs.owed = flushEvents(cgs.events)

(* Where the block may be left, nothing is owed. *)
NothingOwedAtExits == at \in {"start", "exit"} => cgs.owed = <<>>
=============================================================================
