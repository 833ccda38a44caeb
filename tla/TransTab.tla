------------------------------ MODULE TransTab ------------------------------
(***************************************************************************)
(* The translation table and cache of the core (m_transtab.c), the         *)
(* scheduler's handlers that fill it (handle_tt_miss, handle_chain_me,     *)
(* handle_noredir_jump), the redirections that invalidate it (m_redir.c)   *)
(* and Cachegrind's table of superblock information, which must follow it  *)
(* (get_SB_info and cg_discard_superblock_info).                           *)
(*                                                                         *)
(* Guest code is a constant: each address of Guest starts a block with its *)
(* guest extents, the quadwords of host code VEX makes of it, and the      *)
(* offsets of its exits with the address each one goes to.  Host code is   *)
(* placed by quadwords in the tc of a sector.  An exit is a call back to   *)
(* the scheduler until it is chained, and then a jump to a host address.   *)
(*                                                                         *)
(* Left out: sector_search_order and the eviction order of the fast cache  *)
(* (fast holds all the cache may hold, and a lookup may always miss), the  *)
(* order of the free slots of a sector, the fast and slow entry points of  *)
(* a translation, statistics, and what dead host code contains.            *)
(***************************************************************************)
EXTENDS Integers, FiniteSets

CONSTANTS
  Code,        \* guest code: address |-> [extents, len, exits]
  Hash,        \* HASH_TT: address |-> index of htt
  NSectors,    \* n_sectors
  TTEno,       \* the slots of a sector, N_TTES_PER_SECTOR of them
  NHttes,      \* N_HTTES_PER_SECTOR
  TcSize,      \* tc_sector_szQ, in quadwords
  ClassSize,   \* 2^ECLASS_SHIFT
  NClasses,    \* 2^ECLASS_WIDTH
  NUnredir,    \* N_UNREDIR_TT
  Entries,     \* the addresses the program jumps to
  Ranges,      \* the ranges <<start, len>> the program asks to discard
  Specs        \* the redirections that may be activated

VARIABLES
  active,      \* activeSet: the redirections in force
  tab,         \* the tables, one field per table of the code
  panic        \* the assertion that stopped the program, or "no"

vars == <<active, tab, panic>>

Guest == DOMAIN Code
Sector == 0 .. NSectors - 1
Slot == Sector \X TTEno
HttIx == 0 .. NHttes - 1
MISC == NClasses
EClass == 0 .. MISC

EMPTY == "EMPTY"
DELETED == "DELETED"
NotChained == <<-1, 0>>

Host == Sector \X (0 .. TcSize - 1)

ASSUME SizeAssumption ==
  /\ NSectors \in Nat \ {0, 1}
  /\ IsFiniteSet(TTEno) /\ TTEno # {} /\ EMPTY \notin TTEno /\ DELETED \notin TTEno
  /\ NHttes \in Nat /\ NHttes > Cardinality(TTEno)
  /\ TcSize \in Nat /\ ClassSize \in Nat \ {0} /\ NClasses \in Nat \ {0}
  /\ NUnredir \in Nat \ {0}

ASSUME CodeAssumption ==
  /\ Guest \subseteq Nat
  /\ Hash \in [Guest -> HttIx]
  /\ \A g \in Guest :
       /\ Code[g].len \in 1 .. TcSize
       /\ DOMAIN Code[g].exits \subseteq 0 .. Code[g].len - 1
       /\ \A k \in DOMAIN Code[g].exits : Code[g].exits[k] \in Entries
  /\ Entries \subseteq Guest
  /\ \A a \in Specs : a.from \in Guest /\ a.to \in Guest

(* An extent is shorter than all the classes but one (LibVEX asserts that   *)
(* it is under 10000 bytes), and may be empty: a block that starts with an  *)
(* instruction VEX does not know.  Discarding an empty range does nothing.  *)
ASSUME ExtentAssumption ==
  /\ \A g \in Guest : Code[g].extents \subseteq Nat \X (0 .. ClassSize * (NClasses - 1))
  /\ Ranges \subseteq Nat \X (Nat \ {0})

-----------------------------------------------------------------------------
(* Guest ranges and their equivalence classes.                             *)

(* overlap1: two ranges share an address. *)
overlap1(s1, r1, s2, r2) == ~ (s1 + r1 <= s2 \/ s2 + r2 <= s1)

(* overlaps: some extent of the block at base meets the range. *)
overlaps(start, range, base) ==
  \E e \in Code[base].extents : overlap1(start, range, e[1], e[2])

range_to_eclass(start, len) ==
  LET lo == (start \div ClassSize) % NClasses
      hi == ((start + len - 1) \div ClassSize) % NClasses
  IN  IF lo = hi THEN lo ELSE MISC

(* Mutant: only the extent the block starts in is classified. *)
vexGuestExtents_to_eclasses_first(base) ==
  {range_to_eclass(e[1], e[2]) : e \in {x \in Code[base].extents : x[1] = base}}

(* The classes of a block: those of its extents, or only the sin-bin. *)
vexGuestExtents_to_eclasses(base) ==
  LET ecs == {range_to_eclass(e[1], e[2]) : e \in Code[base].extents}
  IN  IF MISC \in ecs THEN {MISC} ELSE ecs

-----------------------------------------------------------------------------
(* Reading the tables.                                                     *)

InUse(t, a) == t.tt[a].status = "InUse"

NInUse(t, s) == Cardinality({i \in TTEno : InUse(t, <<s, i>>)})

HostOf(t, a) == <<a[1], t.tt[a].tcptr>>

(* Mutant: the probe stops at a deleted slot too. *)
search_transtab_stopsEarly(t, g) ==
  {a \in Slot :
     \E j \in HttIx :
       /\ t.htt[a[1]][(Hash[g] + j) % NHttes] = a[2]
       /\ t.tt[a].entry = g
       /\ \A l \in 0 .. j - 1 : t.htt[a[1]][(Hash[g] + l) % NHttes] \notin {EMPTY, DELETED}}

(* search_transtab: probe each sector from the hash of the address, past   *)
(* deleted slots and other entries, up to the first empty one.             *)
search_transtab(t, g) ==
  {a \in Slot :
     \E j \in HttIx :
       /\ t.htt[a[1]][(Hash[g] + j) % NHttes] = a[2]
       /\ t.tt[a].entry = g
       /\ \A l \in 0 .. j - 1 : t.htt[a[1]][(Hash[g] + l) % NHttes] # EMPTY}

(* Mutant: a slot that was used again is not noticed. *)
HostExtent__is_dead_byStatus(t, s, x) == t.tt[<<s, x.tteNo>>].status = "Deleted"

(* The translation of a host extent is deleted, or its slot holds one that *)
(* was made later.                                                         *)
HostExtent__is_dead(t, s, x) ==
  \/ t.tt[<<s, x.tteNo>>].status = "Deleted"
  \/ t.tt[<<s, x.tteNo>>].tcptr >= x.start + x.len

(* find_TTEntry_from_hcode: the translations whose live host extent covers *)
(* the host address (none when the extent is dead).                        *)
find_TTEntry_from_hcode(t, h) ==
  {a \in Slot :
     /\ a[1] = h[1]
     /\ \E x \in t.hx[a[1]] :
          /\ x.tteNo = a[2]
          /\ x.start <= h[2] /\ h[2] < x.start + x.len
          /\ ~ HostExtent__is_dead(t, a[1], x)}

-----------------------------------------------------------------------------
(* Deleting translations.                                                  *)

(* Mutant: the code of the jumps is not patched back. *)
Unchained_keepsJumps(t, D) ==
  [t EXCEPT !.tt = [a \in Slot |->
    [t.tt[a] EXCEPT !.in_edges = IF a \in D THEN {} ELSE {e \in @ : e[1] \notin D},
                    !.out_edges = IF a \in D THEN {} ELSE {e \in @ : e[1] \notin D}]]]

(* Mutant: the edges of the other translations are left. *)
Unchained_keepsEdges(t, D) ==
  LET into == UNION {t.tt[d].in_edges : d \in D}
  IN  [t EXCEPT !.tt = [a \in Slot |->
        [t.tt[a] EXCEPT
          !.jumps = [k \in DOMAIN @ |-> IF a \in D \/ <<a, k>> \in into THEN NotChained ELSE @[k]],
          !.in_edges = IF a \in D THEN {} ELSE @,
          !.out_edges = IF a \in D THEN {} ELSE @]]]

(* unchain_in_preparation_for_deletion of every translation of D: the      *)
(* jumps into D become calls back again, and the edges from and to D go.   *)
Unchained(t, D) ==
  LET into == UNION {t.tt[d].in_edges : d \in D}
  IN  [t EXCEPT !.tt =
        [a \in Slot |->
          IF a \in D
          THEN [t.tt[a] EXCEPT !.jumps = [k \in DOMAIN @ |-> NotChained],
                               !.in_edges = {}, !.out_edges = {}]
          ELSE [t.tt[a] EXCEPT
                 !.jumps = [k \in DOMAIN @ |->
                             IF <<a, k>> \in into THEN NotChained ELSE @[k]],
                 !.in_edges = {e \in @ : e[1] \notin D},
                 !.out_edges = {e \in @ : e[1] \notin D}]]]

(* Mutant: the tool is told the entry points. *)
ToldToTool_entries(t, D) == {t.tt[d].entry : d \in D}

(* What the tool is told of D: cg_discard_superblock_info forgets it. *)
ToldToTool(t, D) == {t.tt[d].base : d \in D}

(* Mutant: one entry is invalidated, however many translations went. *)
FastAfter_one(t, D) ==
  {f \in t.fast : D = {} \/ f[1] # t.tt[CHOOSE d \in D : TRUE].base}

(* One deletion invalidates the entry of its vge_base[0] in the fast cache, *)
(* several the whole cache.                                                *)
FastAfter(t, D) ==
  IF Cardinality(D) > 1 THEN {} ELSE {f \in t.fast : f[1] \notin {t.tt[d].base : d \in D}}

(* delete_tte of every translation of D: out of the hash table and of the  *)
(* classes, the slots free again, and the tool told of each.               *)
delete_tte(t, D) ==
  LET u == Unchained(t, D)
  IN  [u EXCEPT
        !.tt = [a \in Slot |-> IF a \in D
                               THEN [u.tt[a] EXCEPT !.status = "Deleted"]
                               ELSE u.tt[a]],
        !.htt = [s \in Sector |-> [j \in HttIx |->
                  IF <<s, t.htt[s][j]>> \in D THEN DELETED ELSE t.htt[s][j]]],
        !.ec2tte = [s \in Sector |-> [ec \in EClass |->
                     {i \in t.ec2tte[s][ec] : <<s, i>> \notin D}]],
        !.info = @ \ ToldToTool(t, D)]

(* discard_translations: the fast scheme looks into one class and the      *)
(* sin-bin, the slow one at every translation.  The no-redir translations  *)
(* go without the tool being told.                                         *)
discard_translations(t, start, range) ==
  LET ec == IF range <= ClassSize THEN range_to_eclass(start, range) ELSE MISC
      seen == IF ec # MISC
              THEN {a \in Slot : a[2] \in t.ec2tte[a[1]][ec]
                                           \cup t.ec2tte[a[1]][MISC]}
              ELSE {a \in Slot : InUse(t, a)}
      D == {a \in seen : overlaps(start, range, t.tt[a].base)}
  IN  [delete_tte(t, D) EXCEPT
        !.fast = FastAfter(t, D),
        !.unredir = {g \in @ : ~ overlaps(start, range, g)}]

-----------------------------------------------------------------------------
(* Adding translations.                                                    *)

EmptyTTE == [status |-> "Empty", entry |-> 0, base |-> 0, tcptr |-> 0,
             jumps |-> << >>, in_edges |-> {}, out_edges |-> {}]

(* initialiseSector: throw out whatever the sector holds, telling the      *)
(* tool, and start it again from nothing; the fast cache is emptied.       *)
initialiseSector(t, s) ==
  LET D == {a \in Slot : a[1] = s /\ InUse(t, a)}
      u == Unchained(t, D)
  IN  [u EXCEPT
        !.tt = [a \in Slot |-> IF a[1] = s THEN EmptyTTE ELSE u.tt[a]],
        !.htt[s] = [j \in HttIx |-> EMPTY],
        !.ec2tte[s] = [ec \in EClass |-> {}],
        !.hx[s] = {},
        !.tc_next[s] = 0,
        !.fast = {},
        !.info = @ \ ToldToTool(t, D)]

(* Mutant: the room left in the tc is not checked. *)
RoomFor_anySize(t, base) ==
  LET next == (t.youngest + 1) % NSectors
  IN  IF NInUse(t, t.youngest) >= Cardinality(TTEno)
      THEN [initialiseSector(t, next) EXCEPT !.youngest = next]
      ELSE t

(* The sector the translation goes to: the youngest when it fits, else the *)
(* next one, emptied.                                                      *)
RoomFor(t, base) ==
  LET y == t.youngest
      next == (y + 1) % NSectors
  IN  IF \/ TcSize - t.tc_next[y] < Code[base].len
         \/ NInUse(t, y) >= Cardinality(TTEno)
      THEN [initialiseSector(t, next) EXCEPT !.youngest = next]
      ELSE t

(* The first index of the probe sequence of g that is free. *)
FreeHtt(h, g) ==
  LET free(j) == h[(Hash[g] + j) % NHttes] \in {EMPTY, DELETED}
      first == CHOOSE j \in HttIx : free(j) /\ \A l \in 0 .. j - 1 : ~ free(l)
  IN  (Hash[g] + first) % NHttes

(* The rest of add_to_transtab, in the free slot i of the youngest sector. *)
AddAt(t, g, base, i) ==
  LET y == t.youngest
      at == t.tc_next[y]
      n == Code[base].len
  IN  [t EXCEPT
        !.tt[<<y, i>>] =
          [status |-> "InUse", entry |-> g, base |-> base, tcptr |-> at,
           jumps |-> [k \in DOMAIN Code[base].exits |-> NotChained],
           in_edges |-> {}, out_edges |-> {}],
        !.htt[y][FreeHtt(t.htt[y], g)] = i,
        !.hx[y] = @ \cup {[start |-> at, len |-> n, tteNo |-> i]},
        !.ec2tte[y] = [ec \in EClass |->
          IF ec \in vexGuestExtents_to_eclasses(base)
          THEN @[ec] \cup {i} ELSE @[ec]],
        !.tc_next[y] = at + n,
        !.fast = @ \cup {<<g, <<y, at>>>>}]

FreeSlots(t) == {i \in TTEno : ~ InUse(t, <<t.youngest, i>>)}

(* tt_tc_do_chaining: patch the exit at host address h into a jump to the  *)
(* translation at slot a and note the edge, if h is in live code at all.   *)
tt_tc_do_chaining(t, h, to) ==
  LET from == find_TTEntry_from_hcode(t, h)
      f == CHOOSE a \in from : TRUE
      k == h[2] - t.tt[f].tcptr
      patched == [t EXCEPT !.tt[f].jumps[k] = HostOf(t, to),
                           !.tt[f].out_edges = @ \cup {<<to, k>>}]
  IN  IF from = {} THEN t
      ELSE [patched EXCEPT !.tt[to].in_edges = @ \cup {<<f, k>>}]

(* LibVEX_Chain patches only an exit that is not chained yet. *)
MayChain(t, h) ==
  \A f \in find_TTEntry_from_hcode(t, h) :
    LET k == h[2] - t.tt[f].tcptr
    IN  k \in DOMAIN t.tt[f].jumps /\ t.tt[f].jumps[k] = NotChained

-----------------------------------------------------------------------------
(* Redirection.                                                            *)

(* redir_do_lookup *)
redir_do_lookup(g) ==
  IF \E a \in active : a.from = g
  THEN (CHOOSE a \in active : a.from = g).to
  ELSE g

(* Mutant: only the translations of the target are discarded. *)
maybe_add_active_keepsFrom(act) ==
  /\ panic = "no"
  /\ \A a \in active : a.from # act.from
  /\ active' = active \cup {act}
  /\ tab' = discard_translations(tab, act.to, 1)
  /\ UNCHANGED panic

(* maybe_add_active: a new binding, or one of higher priority than an      *)
(* equivalent binding with the same from.                                  *)
maybe_add_active(act) ==
  LET old == {a \in active : a.from = act.from}
  IN  /\ panic = "no"
      /\ \A a \in old : /\ a.to # act.to
                        /\ a.tag = act.tag /\ a.tag # 0
                        /\ act.prio > a.prio
      /\ active' = (active \ old) \cup {act}
      /\ tab' = discard_translations(
                  discard_translations(tab, act.from, 1), act.to, 1)
      /\ UNCHANGED panic

(* redir_notify_delete_DebugInfo of a DebugInfo that carries one active. *)
redir_notify_delete_DebugInfo(act) ==
  /\ panic = "no"
  /\ act \in active
  /\ tab' = discard_translations(
              discard_translations(tab, act.from, 1), act.to, 1)
  /\ active' = active \ {act}
  /\ UNCHANGED panic

-----------------------------------------------------------------------------
(* The scheduler's handlers.                                               *)

Stop(why) == panic' = why /\ UNCHANGED <<active, tab>>

(* get_SB_info: the superblock must not have information yet. *)
get_SB_info_fails(base) == base \in tab.info

(* VG_(translate) with redirection: instrument, which makes the superblock *)
(* info, make room and add.  The tables it may leave, one per free slot.   *)
Translations(g) ==
  LET base == redir_do_lookup(g)
      room == RoomFor([tab EXCEPT !.info = @ \cup {base}], base)
  IN  {AddAt(room, g, base, i) : i \in FreeSlots(room)}

(* A miss in the fast cache at g. *)
handle_tt_miss(g) ==
  LET found == search_transtab(tab, g)
  IN  /\ panic = "no"
      /\ \/ /\ found # {}
            /\ tab' = [tab EXCEPT
                         !.fast = @ \cup {<<g, HostOf(tab, CHOOSE a \in found : TRUE)>>}]
            /\ UNCHANGED <<active, panic>>
         \/ /\ found = {}
            /\ get_SB_info_fails(redir_do_lookup(g))
            /\ Stop("get_SB_info")
         \/ /\ found = {}
            /\ ~ get_SB_info_fails(redir_do_lookup(g))
            /\ tab' \in Translations(g)
            /\ UNCHANGED <<active, panic>>

(* The exit at offset k of the translation at slot a, not chained yet,     *)
(* asks to be chained.  The translation may have been deleted while it     *)
(* ran, and translating the target may throw out its whole sector.         *)
handle_chain_me(a, k) ==
  LET e == tab.tt[a]
      ip == Code[e.base].exits[k]
      place == <<a[1], e.tcptr + k>>
      found == search_transtab(tab, ip)
      after == IF found # {} THEN {tab} ELSE Translations(ip)
  IN  /\ panic = "no"
      /\ e.status \in {"InUse", "Deleted"}
      /\ e.jumps[k] = NotChained
      /\ \/ /\ found = {}
            /\ get_SB_info_fails(redir_do_lookup(ip))
            /\ Stop("get_SB_info")
         \/ /\ found = {} => ~ get_SB_info_fails(redir_do_lookup(ip))
            /\ \E t \in after :
                 LET to == search_transtab(t, ip)
                 IN  IF to = {} THEN Stop("search_transtab")
                     ELSE IF ~ MayChain(t, place) THEN Stop("LibVEX_Chain")
                     ELSE /\ tab' = tt_tc_do_chaining(t, place, CHOOSE b \in to : TRUE)
                          /\ UNCHANGED <<active, panic>>

(* A wrapper jumps to the block at g itself, past its redirection.  The    *)
(* table of such translations is dumped when it has no slot or no room.    *)
handle_noredir_jump(g) ==
  /\ panic = "no"
  /\ redir_do_lookup(g) # g
  /\ g \notin tab.unredir
  /\ \/ /\ get_SB_info_fails(g)
        /\ Stop("get_SB_info")
     \/ /\ ~ get_SB_info_fails(g)
        /\ \E kept \in {tab.unredir, {}} :
             /\ Cardinality(kept) < NUnredir
             /\ tab' = [tab EXCEPT !.unredir = kept \cup {g},
                                   !.info = @ \cup {g}]
        /\ UNCHANGED <<active, panic>>

(* The program unmaps or changes code: munmap, mprotect, a cache flush. *)
Discard(r) ==
  /\ panic = "no"
  /\ tab' = discard_translations(tab, r[1], r[2])
  /\ UNCHANGED <<active, panic>>

Init ==
  /\ active = {}
  /\ tab = [tt |-> [a \in Slot |-> EmptyTTE],
            htt |-> [s \in Sector |-> [j \in HttIx |-> EMPTY]],
            ec2tte |-> [s \in Sector |-> [ec \in EClass |-> {}]],
            hx |-> [s \in Sector |-> {}],
            tc_next |-> [s \in Sector |-> 0],
            youngest |-> 0,
            fast |-> {}, unredir |-> {}, info |-> {}]
  /\ panic = "no"

Next ==
  \/ \E g \in Entries : handle_tt_miss(g) \/ handle_noredir_jump(g)
  \/ \E a \in Slot : \E k \in DOMAIN tab.tt[a].jumps : handle_chain_me(a, k)
  \/ \E r \in Ranges : Discard(r)
  \/ \E act \in Specs :
       maybe_add_active(act) \/ redir_notify_delete_DebugInfo(act)

Spec == Init /\ [][Next]_vars

-----------------------------------------------------------------------------
(* Properties.                                                             *)

(* Slots, hash tables and host code stay within a sector (RoomFor throws   *)
(* out a sector before one overflows), and chaining never misses the       *)
(* translation it has just asked for (vg_assert2 of handle_chain_me).      *)
TypeOK ==
  /\ active \subseteq Specs
  /\ panic \in {"no", "get_SB_info", "LibVEX_Chain"}
  /\ \A a \in Slot : tab.tt[a].status \in {"Empty", "InUse", "Deleted"}
  /\ tab.htt \in [Sector -> [HttIx -> TTEno \cup {EMPTY, DELETED}]]
  /\ tab.tc_next \in [Sector -> 0 .. TcSize]
  /\ tab.fast \subseteq Guest \X Host
  /\ tab.unredir \subseteq Guest /\ tab.info \subseteq Guest

(* A chained jump never goes to dead host code: whatever is discarded,      *)
(* thrown out with its sector or put in a slot that is used again, every    *)
(* jump of a translation in use goes to the start of one in use.            *)
JumpsLandOnLive ==
  \A a \in Slot : InUse(tab, a) =>
    \A k \in DOMAIN tab.tt[a].jumps :
      tab.tt[a].jumps[k] # NotChained =>
        \E b \in Slot : InUse(tab, b) /\ tab.tt[a].jumps[k] = HostOf(tab, b)

(* The in-edges and out-edges kept for unchaining mirror each other, across *)
(* sectors too, and each stands for a jump that is there.                   *)
EdgesMatch ==
  \A a, b \in Slot : \A k \in 0 .. TcSize - 1 :
    /\ <<b, k>> \in tab.tt[a].out_edges <=> <<a, k>> \in tab.tt[b].in_edges
    /\ <<b, k>> \in tab.tt[a].out_edges =>
         InUse(tab, a) /\ InUse(tab, b) /\ tab.tt[a].jumps[k] = HostOf(tab, b)

(* The open-addressed hash tables, with their deleted slots, find every     *)
(* translation in use, nothing else, and never two for an address: no block *)
(* is translated while a translation of it exists.                          *)
SearchIsExact ==
  \A g \in Guest :
    /\ search_transtab(tab, g) = {a \in Slot : InUse(tab, a) /\ tab.tt[a].entry = g}
    /\ Cardinality(search_transtab(tab, g)) <= 1

(* Cachegrind has the superblock information of every translation, and of   *)
(* nothing else but blocks that are redirected: translations made past a    *)
(* redirection go without the tool being told.                              *)
InfoFollowsTranslations ==
  \A g \in Guest :
    LET live == \E a \in Slot : InUse(tab, a) /\ tab.tt[a].base = g
    IN  /\ live \/ g \in tab.unredir => g \in tab.info
        /\ g \in tab.info => live \/ g \in {s.from : s \in Specs}

(* Host addresses are resolved by the extents that are not dead: those are  *)
(* exactly the extents of the translations in use, although a slot that is  *)
(* used again has extents of its past.                                      *)
LiveExtentsAreInUse ==
  \A s \in Sector :
    Cardinality({x \in tab.hx[s] : ~ HostExtent__is_dead(tab, s, x)}) = NInUse(tab, s)

(* Discarding a range leaves no translation made from it, in whichever of   *)
(* the equivalence classes its extents put it.                              *)
DiscardsCover ==
  \A r \in Ranges :
    LET t == discard_translations(tab, r[1], r[2])
    IN  /\ \A a \in Slot : InUse(t, a) => ~ overlaps(r[1], r[2], t.tt[a].base)
        /\ \A g \in t.unredir : ~ overlaps(r[1], r[2], g)

(* Every translation was made of the code its entry point is redirected to  *)
(* now, whenever the redirections came and went.                            *)
RedirectionsInForce ==
  \A a \in Slot : InUse(tab, a) => tab.tt[a].base = redir_do_lookup(tab.tt[a].entry)

(* The dispatcher jumps without a check to what the fast cache holds: for   *)
(* an address no redirection is about it holds the translation in use.      *)
FastIsLive ==
  \A f \in tab.fast : f[1] \notin {s.from : s \in Specs} =>
    \E a \in Slot : InUse(tab, a) /\ tab.tt[a].entry = f[1] /\ HostOf(tab, a) = f[2]
=============================================================================
