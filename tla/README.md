# A verification of Cachegrind and the core beneath it

Cachegrind runs a client program under Valgrind and simulates the caches its instruction fetches
and data accesses would go through. This fork replaces Cachegrind's fixed LRU policy with several
replacement policies and with *approaches* that run policies side by side and choose among them.
The modules here model the simulator (`src/cachegrind/cg_sim.c`), the instrumentation that feeds it
(`cg_main.c`), and the parts of the Valgrind core whose correctness the tool's counts rest on: the
translation table, the redirections, and the threads with the lock that serialises them. TLC checks
the models on small instances, and TLAPS proves the main results for every value of the constants.

## The system

### Parts

| part | source | state | operations |
|---|---|---|---|
| replacement policies | `cg_sim.c` 235-452 | the tags of one set, MRU end first | `cachesim_setref_is_miss_{lru,lip,fifo,random,bip}` |
| DIP, DIP3, DIP3A, dueling | `cg_sim.c` 454-608, 703-893 | the same, saturating selectors, monitor caches, leader lists | the functions of those names |
| miss histories | `cg_sim.c` 610-702 | per policy and level: a circular array of outcomes, its count, a saturating count, a total | `store_misses_history` |
| references | `cg_sim.c` 894-935, 1017-1086 | I1, D1, LL and those of each policy; the function pointer | `cachesim_ref_is_miss`, `cachesim_I1_doref_Gen`, `..._NoX` |
| choice among policies | `cg_sim.c` 1088-1332 | the policy selected, references of the window, uses, counters of misses | `cachesim_D1_doref` |
| client requests | `cg_main.c` 1826-1831, `include/cachegrind.h` | the policy the client asked for | `cg_set_cache_replacement_policy` |
| instrumentation | `cg_main.c` 537-1387 | a queue of events per superblock | `cg_instrument`, `addEvent_*`, `flushEvents` |
| superblock information | `cg_main.c` 637-666, 1757-1774 | a table keyed by guest address | `get_SB_info`, `cg_discard_superblock_info` |
| translation table | `m_transtab.c`, `m_translate.c` | sectors of entries, hash tables, host extents, edges, the fast cache | add, search, chain, discard |
| redirection | `m_redir.c` | the active bindings | lookup, activation, deactivation |
| threads | `scheduler.c`, `syswrap-*.c`, `m_signals.c` | status of each thread, `VG_(running_tid)` | slices, system calls, clone, exit, exit_group, fork |
| big lock | `ticket-lock-linux.c` | head, tail, futexes, owner | acquire, release |

Instrumented code calls `log_*` functions for batches of events. Those call
`cachesim_I1_doref_Gen` or `_NoX` for a fetch and `cachesim_D1_doref` for a data access, and pass
the counters of the source line. Under FIXED_WINDOW, SLIDING_WINDOW and ONLINE every reference
first goes to the caches of each policy (LRU, FIFO, BIP, RANDOM). SLIDING_WINDOW and ONLINE then
select a policy and reference the *result* caches with it; FIXED_WINDOW charges the client, at the
end of each window of data references, with the misses of the policy that had the fewest, and
copies that policy's caches to the others. ADAPTATIVE uses the policy the client requests, NAIVE
throws for one.

The core translates client code block by block, calls the tool to instrument each block, keeps the
translations, and patches jumps between them. It throws translations out when code changes, when a
redirection comes or goes, and when a sector is full, and tells the tool. Only the thread that holds
the big lock runs client code, so the simulator and the tables are sequential; the lock itself, and
the start and the end of threads, are not.

### What makes it hard

* All caches are referenced through one global function pointer that loops overwrite and nobody
  restores.
* Counts are kept incrementally beside the array they count, clamped, and cleared only in part at
  the end of a window. The same event is counted in several places.
* The meaning of the order of a set's ways depends on the policy, and policies take turns on the
  same set.
* Off-by-one comparisons (thresholds, throws, window ends) decide whether anything ever switches.
* Host code, slots and hash indices are used again; addresses read before a translation is made are
  used after it, when the sector they point into may be gone.
* A wakeup may come between any two steps of a thread that is about to sleep; tickets wrap; a
  process ends while its threads wait for each other.

`PROJECT.json` lists these as hazards, each at its line.

## Modules

| module | models | checked on |
|---|---|---|
| `CacheSet` | one set and what each policy does to it | |
| `SetReplacement` | a set under one policy and any stream of references, with history variables | `SetReplacement.cfg` |
| `MissHistory` | `store_misses_history` and its record | |
| `MissWindow` | one record fed with any stream of outcomes | `MissWindow.cfg` |
| `PolicySelection` | the choice among policies as `cachesim_D1_doref` makes it, seen only through which policies missed: the abstract specification of the selection | `PolicySelection*.cfg` |
| `CacheRef` | a reference to a cache, and to a level backed by LL | |
| `CacheSim` | the simulator: the caches behind `PolicySelection`, fetches, straddling, the pointer, client requests | `CacheSim*.cfg` on `MCCacheSim` |
| `DuelingSim` | `CacheSim` with DIP, DIP3, DIP3_AGEING and CACHE_DUELING | `DuelingSim.cfg` on `MCDuelingSim` |
| `Instrument` | `cg_instrument` and its queue of events | `Instrument.cfg` |
| `TransTab` | the translation table with the scheduler's handlers, redirection and the tool's superblock table | `TransTab.cfg` on `MCTransTab` |
| `TicketLock` | the ticket lock, one action per access to shared memory or futex call | through `BigLock` |
| `SchedLock` | a lock that serves in the order of asking: the abstract specification of the lock | through `BigLock` |
| `BigLock` | the threads, over `TicketLock` | `BigLock.cfg` |
| `Operators_proofs` | lemmas about `CacheSet`, `CacheRef`, `MissHistory`, sums and least elements | |
| `Policies_proofs` | theorems about `SetReplacement`, `MissWindow` and `PolicySelection` | |
| `CacheSim_proofs` | theorems about `CacheSim` | |
| `DuelingSim_proofs` | theorems about `DuelingSim` | |
| `Instrument_proofs` | theorems about `Instrument` | |
| `TransTab_proofs`, `TransTabSteps_proofs` | theorems about `TransTab`: edges and books, steps | |
| `BigLock_proofs` | theorems about `TicketLock` and `BigLock` | |

Three modules compose others. `CacheSim` extends `CacheRef` and `MissHistory`, and instantiates
`PolicySelection` as `Sel`: its data reference handlers take `Sel`'s step with the outcomes of the
policies' own D1 caches. `DuelingSim` extends `CacheSim`. `BigLock` extends `TicketLock`, and
instantiates `SchedLock` with the queue of the tickets that wait.

### State and actions

**`CacheSim`.** `result` is the globals `I1`, `D1`, `LL`; `shadow[i]` is `policies[i].I1/.D1/.LL`;
`func` is `cachesim_setref_is_miss`; `histories[i]` is the D1 half of a policy's record (the LL half
feeds nothing but `misses_DL`, which is kept); `selected` is `index_selected_policy`, `blocks` the
static of that name, `uses` and `data_blocks` what `print_stats` reports; `imisses[i]` is
`misses_I1` and `misses_IL`; `counts` sums the counters of the client's lines. `approach` is
`current_cache_replacement_policy`, which is set once; `requested` is
`current_adaptative_cache_replacement_policy`. `since`, `asked`, `recent`, `used`, `newer`, `later`
and `reused` are history variables. One action is one whole handler: `D1_doref_fixed`,
`D1_doref_switching`, `D1_doref_single` and `D1_doref_adaptative` are `cachesim_D1_doref` under the
approaches they name, from the loop over the policies to the last reference to the result.

**`DuelingSim`** adds `psel`, the saturating selectors, and a history of the policies applied. The
monitors are the D1 of the first three policies. `D1_doref_dueling` is a data reference under these
approaches, with one choice per block it touches.

**`Instrument`** builds one superblock after another. `cgs.events` is the queue; `cgs.owed` is a
history variable: the references that the statements seen so far make, each with its instruction,
less those for which a helper call has been added. `Load`, `Store`, `Modify`, `Guarded`,
`LoadLinked`, `Exit` and `EndOfBlock` are the cases of `cg_instrument` that add events.

**`TransTab`.** `tab` holds the tables: `tt` the entries of all sectors, `htt` the hash tables,
`hx` the host extents, `ec2tte` the equivalence classes, `tc_next` and `youngest` the allocation,
`fast` the fast cache, `unredir` the no-redir table, and `info` the tool's `instrInfoTable`.
`jumps[k]` of an entry is what its host code does at the exit at offset `k`. `active` is
`activeSet`. `panic` records an assertion that fails and stops the program. The actions are the
handlers of the scheduler (`handle_tt_miss`, `handle_chain_me`, `handle_noredir_jump`), a discard,
and a binding that becomes active or goes with its object file.

**`TicketLock` and `BigLock`.** `head`, `tail` and `owner` are the fields of `struct sched_lock`;
`changed` holds the threads whose futex word is not any more the one they read; `pc` and `ticket`
are the place and the locals of each thread. `status`, `running_tid` and `exiting` are fields of
the thread table and `VG_(running_tid)`; `reaping` marks the thread inside `VG_(reap_threads)`,
`sigvgkill` those it was sent to, `shutdown` the thread that runs the final actions.

### Abstractions

* A reference is the sequence of one or two block numbers it touches. Line sizes are equal at all
  levels and the number of sets is a power of two, so that a mask is a remainder. One associativity
  serves every cache.
* Block 0 is left out: its tag is the value of a way never filled, so its first reference would hit.
* `VG_(random)` is a nondeterministic choice. The throttle of BIP is a whole number of hundredths.
* The ULong counters count modulo `ULongSize`, which stands for 2^64; the counters that only sum up
  in `CacheSim` (`imisses`, `misses_DL`, `counts`) are bounded by `MaxRefs` and do not wrap.
* `blocks` is read under FIXED_WINDOW only and not tracked elsewhere.
* `Window` is at least 1, `Threshold` at least 1 (`cg_post_clo_init` rejects less). A window of
  zero or less is not rejected by the code and is not modelled.
* A data reference comes after some instruction reference, because FIXED_WINDOW charges through
  pointers that fetches save.
* The monitors of DIP3 have as many sets as D1. In the code they have 32 and are indexed by the set
  of D1 (line 948), so that a larger D1 reads behind them.
* `Instrument` keeps of a reference its place, size included, as one value.
* Guest code is a constant of `TransTab`: for each block its extents, the length of its host code
  and its exits. Host code is placed by quadwords. The search order of the sectors, the ways of the
  fast cache (`fast` holds whatever it may still hold), the order of free slots and the fast entry
  points are left out; what dead host code contains is not modelled, except that it may still ask
  to be chained.
* What a thread does while it holds the lock is one step of `BigLock`; the lock's own operations
  are not. Tickets count modulo `TicketMod`, futexes are shared by tickets modulo `FutexCount`.

## Runs

Passing runs:

* **set_replacement** (three ways, four blocks, five policies; 46 001 states). One block more than
  ways is enough for every replacement to happen, and three ways tell the middle of the order from
  its ends. `LruHoldsMostRecent` and `FifoHoldsLastInstalled` say which blocks are kept, in terms of
  the stream alone; `BipMayInsertAtHead` and `ReferenceKeepsOthers` complete them.
* **miss_window** (a window of five; 4 160 states). The array is the last five outcomes, the count
  is the number of misses in it, and the saturating count of ONLINE stays within reach of it.
* **selection** (window 3, threshold 2, two policies, counters that wrap at 4; 596 874 states).
  `NeverMuchWorse` is the hysteresis bound; `SwitchesAreSpaced` needs a threshold of at least two to
  say something. FIXED_WINDOW judges and charges each window by its own outcomes. `UsesPerBlock`
  says how uses relate to references, and records that SLIDING_WINDOW counts two uses for each
  (lines 1175 and 1282), so that the shares `print_stats` reports add up to 200%.
* **selection_live** (22 682 states): see fairness below.
* **sim_selecting** (the three approaches that run policies side by side, a fixed policy and
  ADAPTATIVE; two policies, one L1 set of two ways, windows of four, fetches and data within a line
  and across two, nine references; 404 095 states). BIP with throttle 0 beats LRU on three blocks in
  two ways, so switches happen, and two windows close. The simulator implements `PolicySelection`
  (`SelectsAsSpecified`), misses count once, the result is the first policy's until the first
  switch, windows start with equal caches, and only closed windows are charged.
* **dueling** (eleven approaches, four D1 sets of which one follows, selectors of two bits, five
  references; 521 004 states). Whatever policies take turns, caches stay sane. A monitor predicts
  D1 exactly while its policy is the only one applied; that of FIFO under DIP3 is a second one of
  LRU, because it is referenced with the function of LRU (line 530), and its selector never moves.
* **instrument** (a queue of four, two places; 51 624 states). Four events are enough for calls of
  one, two and three events to follow each other and for the queue to be flushed in every position.
  What the calls simulate is at all times the references of the program in order
  (`NothingLostOrReordered`), and nothing is pending where a block may be left.
* **transtab** (three blocks and a replacement, two sectors of two slots, three hash indices; 61 518
  states). Block 4 fills a sector and has extents in two classes, block 1 crosses a class, 0 and 1
  collide in the hash tables; a third translation recycles a sector, so that slots, hash indices and
  host code are all used again. Slots are symmetric. The program stops at an assertion, hence no
  check of deadlock.
* **big_lock** (two threads, tickets modulo 4, two futexes; 10 592 states). Two threads are enough
  for every race between a waiter and a releaser; the tickets wrap. A model of three threads has
  1 303 204 states and satisfies the same properties, liveness and refinement included, but takes
  ten minutes; the safety properties are proved for any number. The process ends, hence no check of
  deadlock.

The simulator runs stop at `MaxRefs` references, which is why they do not check deadlock either.

Runs that disagree with a comment of the code, with the finding in `PROJECT.json`:

* **sim_pointer**: a fetch that straddles two lines leaves the pointer at the last policy, and the
  result's I1 and LL are referenced with it.
* **sim_fixed_instr**: FIXED_WINDOW counts an instruction miss twice.
* **sim_request**: the client's header and the tool number the policies differently.

### Boundaries

At these points properties of the passing runs do not hold, and the models or the properties
exclude them:

* With a window of one reference `store_misses_history` returns early and stores nothing (line
  621), so that `ReturnsMissesInArray` fails and every count that chooses a policy stays 0; the
  theorems about the window assume another one.
* With a throttle of 0.01 the throw, from 1 to 100, is never below 1 (line 436) and
  `BipMayInsertAtHead` fails.
* `FastIsLive` leaves out addresses that are redirected: discarding a single translation invalidates
  the fast-cache entry of the code it was made of (`m_transtab.c` 2276-2282), not of its entry point.
* `InfoFollowsTranslations` excepts redirected addresses: translations of the no-redir table go
  without the tool being told, so that translating such a block again reaches the assertion of
  `get_SB_info` (`panic = "get_SB_info"`). So does a second entry redirected to the same target,
  since the tool's table is keyed by the target.
* `RedirectionsInForce` is checked and proved with one binding per address. When a binding is replaced by one
  of higher priority, `maybe_add_active` discards the ranges of the address and of the new target,
  but a translation made of the old target is in neither. A block with an empty extent, which begins
  with an instruction VEX does not know, is in no range at all: at a redirected address it would not
  be discarded either.
* `handle_chain_me` keeps the address to patch across a translation. If that recycled the sector and
  the new translation lies at the same address, the patch goes to it: its own exit there is
  chained, or `chainXDirect_AMD64` finds no exit and stops (`panic = "LibVEX_Chain"`). The edges
  and jumps stay consistent (`EdgesMatch`, `JumpsLandOnLive`), but the chained exit may belong to
  another block.

### Fairness

`FairSpec` of `PolicySelection` assumes weak fairness of `Next`: the client goes on making data
references, with any outcomes. It is an assumption on the client, not on the code: each reference
is handled to its end in one call, so nothing else could stall. Under it, `LeavesLosingPolicy` says
that no policy stays selected while it misses and another hits at every reference.

`Spec` of `BigLock` assumes weak fairness of the steps a thread takes by itself: those of the lock,
the end of a slice (`dispatch_ctr` counts down), the reaping loop, leaving the scheduler, and
entering the handler of `SIGVGKILL`. The kernel runs threads that are not blocked, and a signal
interrupts a system call. Nothing is assumed of system calls, which may block for ever, of clone,
exit or fork, which the client need not make, or of spurious wakeups. Under it, every thread that
asks for the lock gets it, and `exit_group` ends the process (`ExitGroupEnds`; the comment at
`syswrap-linux.c` in `sys_exit_group` asks "Can this give a deadlock").

## Proofs

All theorems hold for every value of the constants that satisfies the named assumptions.

* **One set** (`Operators_proofs`, `Policies_proofs`). `SetrefKeeps` shows for each policy that
  a set without duplicates stays one, holds the referenced block afterwards and loses at most one
  other. `SetInv` joins the four safety properties with two facts about the history: resident blocks
  were referenced, and blocks counted as reused are resident. From it follow `NoDuplicates`,
  `LruIsLru`, `FifoIsFifo`, `LipIsLip` and `WriteAllocate`. `BipIsBimodal` needs a throttle other
  than 0.01.
* **Miss histories** (`Operators_proofs`, `Policies_proofs`). `OverwriteCounts` relates the
  misses of the array before and after one slot is overwritten; `StoreCounts` concludes that the
  clamps of `historic_misses` never have anything to do. `WindowIsRecent`, `ResultIsExact` and
  `OnlineIsClose` need a window other than 1. For the last one the bound on the whole window is not
  inductive, because the outcome that leaves it may be a miss while the counter goes down by one
  only; `OnlineTracksSuffixes` states it for every suffix of the window.
* **The choice** (`Policies_proofs`). The invariant adds to the type that every count is
  exact, that the lead any policy has over the selected one was earned since the last switch (two
  for each reference, which gives `NoThrashing`), and that under FIXED_WINDOW the array is clean
  beyond the references of the window (which makes the uncleared `bit_result_counter` harmless, and
  gives `FixedIsExact`). `Hysteresis`, `HighThreshold` and `FixedUsesTheBest` follow.
  `UsesAreShares` needs the sum of a function to move with one of its values: `SumChange`, by a
  least-element argument over the subsets of the policies. `Balanced` lets the uses and the
  references differ by whole turns of the counters, so that they may wrap.
* **The simulator** (`Operators_proofs`, `CacheSim_proofs`). `GoodCache` says of a cache that every
  set holds blocks of its own, none twice; it is kept by a reference to a set, to a cache, to two
  levels, and by the copies at the end of a window, whose source is a policy because the scan for
  the fewest misses ends (`FirstLeast`). Hence `CachesStaySane`. `SimulatorSelects` is the
  refinement: under an approach that chooses, every step of the simulator is a step of
  `PolicySelection` or leaves its variables alone. `CountInv` says where the misses not yet charged
  are: under FIXED_WINDOW every policy has at most one for each reference of the window, under the
  others none. It gives `MissesAreCountedOnce`, `OnlyClosedWindowsAreCharged` and
  `WindowsStartEqual`. `FirstInv` follows the result until another policy than the first is
  selected; a policy that was selected has uses to show for it only while no counter wraps, so
  `ResultFollowsFirst` bounds `MaxRefs` below half of `ULongSize`, and it assumes a window other
  than 1 and LRU first, as in `policies[]`.
* **Dueling** (`DuelingSim_proofs`). The invariant is about the record a block of a data reference
  works on (`StateInv`), since a reference may touch two blocks: good caches and monitors, records
  of misses, twins and predictions. `DipBlock` and `DuelingBlock` give what a block does to it,
  field by field, and `BlockKeeps` that the invariant is kept. `DuelsStaySane`, `DuelsCountOnce`,
  `Dip3CannotTell` (for selectors with a limit other than 1: such a selector starts at its limit)
  and `MonitorsPredict` follow. `LeadersShare` counts the uses of CACHE_DUELING, for a `MaxRefs`
  below a third of `ULongSize`.
* **The instrumentation** (`Instrument_proofs`). `FlushIsStraight` says that the calls flushEvents
  makes log exactly the events of the queue in order, whatever it merges; it is proved for the
  recursive function from its least index that would fail. `GoodCg` says that what is owed is what
  the queue holds, that a data event follows an event of its own instruction, and that the pointer
  to the last read is to the last event, which is why merging a write into it reorders nothing.
  Every `addEvent` function keeps it, with room for the event or after a flush. Hence
  `QueueNeverOverflows`, `CallsFollowProgram`, `ExitsOweNothing`, and `MergedCallsAgree`, the
  assertions of `flushEvents`, for every size of the queue.
* **The edges of the translation table** (`TransTab_proofs`). `EdgeInv` adds to `EdgesMatch` that an
  exit has one edge at most and every chained jump of a translation in use has one; `UseInv` that the
  hash tables name only slots in use and that no host extent belongs to a slot never used, which is
  what makes the translation found by a host address one that may be patched. Both are kept by
  unchaining, deleting, emptying a sector, adding and chaining, each a lemma. Hence `EdgesAreKept`
  and `ChainsAreLive`, for every program, every size of the tables and every set of redirections.
  The assumptions are that there are at least two sectors, that the hash table is larger than the
  sector, and that the code of a block fits a sector.
* **The books of the translation table** (`TransTab_proofs`, `TransTabSteps_proofs`). `BookInv`
  relates every table of a sector to the translations in use. `ClassInv`: each is listed in every
  class of its block, and nothing else is, so that the fast scheme of a discard sees all it must.
  `PlaceInv`: each has its host extent, and older extents that name its slot lie before its code,
  which is how `HostExtent__is_dead` tells them apart. `HashInv`: the probe for its entry reaches it
  before an empty index, which needs deleted entries to keep their mark, and no two have one entry.
  `InfoInv` and `FastInv` do the same for the tool's table and the fast cache. The operations are
  first described by their effect on each table (`Deletes`, `Empties`, `Adds`, `SameBook`), and the
  invariant is shown to survive each effect. `SomeIndexIsFree` is the pigeonhole that lets an insertion end;
  `SameClass` is the arithmetic of the classes: a range that overlaps an extent within one class
  has that class. Hence `TablesStayInBounds`, `SearchStaysExact`, `InfoIsKept`, `ExtentsAreKept`,
  `DiscardsAreComplete` and `FastCacheStaysLive`. `ExtentAssumption` bounds an extent by all classes
  but one and takes the ranges discarded as not empty. `RedirectionsTakeEffect` assumes
  `NoReplacement` and `EndsHaveCode`, the two boundaries named above.
* **The lock and the threads** (`BigLock_proofs`). `CountInv` says that the tickets out are the ones
  from `head` up to `tail`, each held by one thread; wrapping is harmless because there are fewer
  threads than tickets (`TicketAssumption`). `OwnInv` places the owner at `head`, and `WakeInv` says
  that a thread whose ticket came up on its way to sleep, or asleep, has a releaser on its way to
  wake it. These are invariants of `LockSpec`, and the scheduler keeps to it (`SchedulerUsesLock`).
  They give `LockExcludes`, `LockWakes` and the refinement `LockIsFair`: the waiting tickets, in the
  order of their distance from `head`, are the queue of `SchedLock`, and `Own` is its grant.
  `StatusInv` relates the status of a thread to its place in the lock, from which `OnlyOwnerRuns`
  and `ShutdownIsAlone` follow.

Proved but not part of a run, because the theorem holds for every instance: the type invariants of
`SetReplacement`, `MissWindow`, `PolicySelection` and `BigLock`, `NoDuplicateBlocks`,
`LipConfinesUnreused`, `HighThresholdPins` and `MutualExclusion`.

Only model-checked: liveness under fairness (`LeavesLosingPolicy`, `LockIsGranted`,
`ExitGroupEnds`), which is outside what the prover handles. Every other property of a passing run
is a theorem above. The prover has no induction over data that takes a predicate; where a recursive
function or a fold has to be followed (`SumFunction`, `flushEvents`, the probe of a hash table), the
set of the arguments for which the claim fails has a least element (`LeastNat`, or
`SubsetInduction` for sets), from which a contradiction follows.

## Not modelled

* LEARNING, which writes its choice to a file at the end, and a request for DIP under ADAPTATIVE.
* The geometry of caches (`cg_arch.c`, numbers of sets that are not a power of two, differing line
  sizes): arithmetic done once, without a state to check.
* The pipe lock (`sema.c`), which leaves the order to the kernel.
* Signals other than SIGVGKILL, threads of other thread groups, and execve.
* The branch predictors: each step updates one entry of a table, with no invariant between entries.
  The calls to them are events of `Instrument`.
* Line counters, the output file, `cg_merge`, `cg_annotate`, `cg_diff`: sums, formatting and parsing.
* Option parsing: a chain of comparisons executed once; what it accepts appears as assumptions on
  the constants.
* VEX, a compiler, beyond a finite model; what it makes of a block is a constant of `TransTab`.
* The rest of coregrind (debug information, address space manager, system call wrappers, gdbserver,
  allocator) and the other tools: each a system of its own, which shares no state with the parts
  modelled here beyond what the actions above say.
