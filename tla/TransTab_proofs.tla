-------------------------- MODULE TransTab_proofs ---------------------------
(***************************************************************************)
(* Proofs about the translation table, for every number of sectors, of     *)
(* translations, of classes and every code: the arithmetic of the address  *)
(* classes, the edges between chained translations, the effects of the     *)
(* operations on the books of a sector - its hash table, classes and host  *)
(* extents, the fast cache and the tool's information - and the invariant  *)
(* that relates the books to the translations in use, which deleting       *)
(* translations and emptying a sector keep.                                *)
(***************************************************************************)
EXTENDS TransTab, TLAPS

(* The arithmetic of the classes.                                           *)

(* Quotient and remainder. *)
LEMMA DivMod ==
  ASSUME NEW a \in Int, NEW u \in Nat \ {0}
  PROVE  a = u * (a \div u) + (a % u) /\ a % u \in 0 .. u - 1 /\ a \div u \in Int
  OBVIOUS

(* Addresses less than m classes apart are at most m classes apart. *)
LEMMA DivSpan ==
  ASSUME NEW u \in Nat \ {0}, NEW a \in Int, NEW b \in Int, NEW m \in Int,
         a <= b, b - a < u * m
  PROVE  a \div u <= b \div u /\ (b \div u) - (a \div u) <= m
<1>. DEFINE p == a \div u
            q == b \div u
            r == a % u
            s == b % u
<1>1. /\ a = u * p + r /\ r \in 0 .. u - 1 /\ p \in Int
      /\ b = u * q + s /\ s \in 0 .. u - 1 /\ q \in Int
  BY DivMod
<1>. HIDE DEF p, q, r, s
<1>2. b - a = u * (q - p) + (s - r)
  BY <1>1
<1>3. ~ (q - p <= -1)
  <2>. SUFFICES ASSUME q - p <= -1 PROVE FALSE
    OBVIOUS
  <2>1. u * (q - p) <= -u
    BY <1>1
  <2>. QED
    BY <1>1, <1>2, <2>1
<1>4. ~ (q - p >= m + 1)
  <2>. SUFFICES ASSUME q - p >= m + 1 PROVE FALSE
    OBVIOUS
  <2>. DEFINE d == q - p - m - 1
  <2>1. d \in Nat
    BY <1>1
  <2>2. u * (q - p) = u * m + u + u * d
    BY <1>1
  <2>3. u * d >= 0 /\ u * d \in Int /\ u * m \in Int /\ u * (q - p) \in Int
    <3>. HIDE DEF d
    <3>. QED
      BY <1>1, <2>1
  <2>. QED
    BY <1>1, <1>2, <2>2, <2>3
<1>. QED
  BY <1>1, <1>3, <1>4 DEF p, q

(* Numbers that are equal modulo u and less than u apart are equal. *)
LEMMA ModClose ==
  ASSUME NEW u \in Nat \ {0}, NEW a \in Int, NEW b \in Int,
         a <= b, b - a < u, a % u = b % u
  PROVE  a = b
<1>. DEFINE p == a \div u
            q == b \div u
            r == a % u
<1>1. /\ a = u * p + r /\ r \in 0 .. u - 1 /\ p \in Int
      /\ b = u * q + r /\ q \in Int
  BY DivMod
<1>. HIDE DEF p, q, r
<1>2. b - a = u * (q - p)
  BY <1>1
<1>3. ~ (q - p <= -1)
  <2>. SUFFICES ASSUME q - p <= -1 PROVE FALSE
    OBVIOUS
  <2>1. u * (q - p) <= -u
    BY <1>1
  <2>. QED
    BY <1>1, <1>2, <2>1
<1>4. ~ (q - p >= 1)
  <2>. SUFFICES ASSUME q - p >= 1 PROVE FALSE
    OBVIOUS
  <2>1. u * (q - p) >= u
    BY <1>1
  <2>. QED
    BY <1>1, <1>2, <2>1
<1>5. q = p
  BY <1>1, <1>3, <1>4
<1>. QED
  BY <1>1, <1>5

(* A range within a class, and an extent within a class that meets it, are *)
(* of the same class.                                                       *)
LEMMA SameClass ==
  ASSUME NEW start \in Nat, NEW range \in Nat \ {0}, range <= ClassSize,
         NEW s2 \in Nat, NEW r2 \in 0 .. ClassSize * (NClasses - 1),
         overlap1(start, range, s2, r2),
         range_to_eclass(start, range) # MISC, range_to_eclass(s2, r2) # MISC
  PROVE  range_to_eclass(start, range) = range_to_eclass(s2, r2)
<1>. DEFINE C == ClassSize
            N == NClasses
            lo == start \div C
            hi == (start + range - 1) \div C
            lo2 == s2 \div C
            hi2 == (s2 + r2 - 1) \div C
<1>1. C \in Nat \ {0} /\ N \in Nat \ {0} /\ C * (N - 1) \in Nat
  BY SizeAssumption
<1>2. /\ range_to_eclass(start, range) = lo % N /\ lo % N = hi % N
      /\ range_to_eclass(s2, r2) = lo2 % N /\ lo2 % N = hi2 % N
  BY DEF range_to_eclass
<1>3. r2 \in Int /\ r2 >= 0 /\ r2 <= C * (N - 1)
  BY <1>1
<1>4. start < s2 + r2 /\ s2 < start + range
  BY <1>3 DEF overlap1
<1>5. lo \in Int /\ hi \in Int /\ lo2 \in Int /\ hi2 \in Int
  BY <1>1, <1>3, DivMod
<1>6. CASE start <= s2
  <2>1. start + range - 1 - s2 \in Int /\ s2 <= start + range - 1
    BY <1>4
  <2>2. s2 - start < C * 1 /\ start + range - 1 - s2 < C * 1
    BY <1>1, <1>4, <1>6
  <2>3. start + range - 1 - start < C * 1
    BY <1>1
  <2>4. lo <= lo2 /\ lo2 <= hi /\ hi - lo <= 1
    <3>1. lo <= lo2
      BY <1>1, <1>6, <2>2, DivSpan
    <3>2. lo2 <= hi
      BY <1>1, <2>1, <2>2, DivSpan
    <3>3. hi - lo <= 1
      BY <1>1, <2>1, <2>3, DivSpan
    <3>. QED
      BY <3>1, <3>2, <3>3
  <2>. HIDE DEF lo, lo2, hi, hi2
  <2>5. lo2 = lo \/ lo2 = hi
    BY <1>5, <2>4
  <2>. QED
    BY <1>2, <2>5
<1>7. CASE start > s2
  <2>1. s2 <= start /\ start <= s2 + r2 - 1 /\ s2 + r2 - 1 \in Int
    BY <1>3, <1>4, <1>7
  <2>2. start - s2 < C * (N - 1) /\ s2 + r2 - 1 - start < C * (N - 1)
        /\ s2 + r2 - 1 - s2 < C * (N - 1)
    BY <1>1, <1>3, <2>1
  <2>3. lo2 <= lo /\ lo <= hi2 /\ hi2 - lo2 <= N - 1
    <3>0. N - 1 \in Int
      BY <1>1
    <3>1. lo2 <= lo
      BY <1>1, <3>0, <2>1, <2>2, DivSpan
    <3>2. lo <= hi2
      BY <1>1, <3>0, <2>1, <2>2, DivSpan
    <3>3. hi2 - lo2 <= N - 1
      BY <1>1, <3>0, <2>1, <2>2, DivSpan
    <3>. QED
      BY <3>1, <3>2, <3>3
  <2>. HIDE DEF lo, lo2, hi, hi2
  <2>4. lo2 <= hi2 /\ hi2 - lo2 < N
    BY <1>1, <1>5, <2>3
  <2>5. lo2 = hi2
    BY <1>1, <1>2, <1>5, <2>4, ModClose, Zenon
  <2>6. lo = lo2
    BY <1>5, <2>3, <2>5
  <2>. QED
    BY <1>2, <2>6
<1>. QED
  BY <1>6, <1>7

-----------------------------------------------------------------------------
(* The shape of the tables and of an entry. *)
IsTable(t) ==
  DOMAIN t = {"tt", "htt", "ec2tte", "hx", "tc_next", "youngest", "fast", "unredir", "info"}

IsTTE(e) ==
  DOMAIN e = {"status", "entry", "base", "tcptr", "jumps", "in_edges", "out_edges"}

ShapeInv(t) ==
  /\ IsTable(t)
  /\ DOMAIN t.tt = Slot
  /\ \A a \in Slot : IsTTE(t.tt[a])
  /\ DOMAIN t.hx = Sector
  /\ DOMAIN t.htt = Sector
  /\ \A s \in Sector : DOMAIN t.htt[s] = HttIx
  /\ t.youngest \in Sector

(* Edges come in pairs, between translations in use, one for each chained   *)
(* jump of such a translation.                                              *)
EdgeInv(t) ==
  /\ \A a, b \in Slot : \A k :
       <<b, k>> \in t.tt[a].out_edges <=> <<a, k>> \in t.tt[b].in_edges
  /\ \A a, b \in Slot : \A k :
       <<b, k>> \in t.tt[a].out_edges =>
         /\ InUse(t, a) /\ InUse(t, b)
         /\ k \in DOMAIN t.tt[a].jumps /\ t.tt[a].jumps[k] = HostOf(t, b)
  /\ \A a, b, c \in Slot : \A k :
       <<b, k>> \in t.tt[a].out_edges /\ <<c, k>> \in t.tt[a].out_edges => b = c
  /\ \A a \in Slot : \A k \in DOMAIN t.tt[a].jumps :
       InUse(t, a) /\ t.tt[a].jumps[k] # NotChained =>
         \E b \in Slot : <<b, k>> \in t.tt[a].out_edges

(* The hash tables hold translations in use, no host extent belongs to a    *)
(* slot that was never used, and the exits go to blocks of the program.     *)
UseInv(t) ==
  /\ \A s \in Sector, j \in HttIx :
       t.htt[s][j] \in TTEno => InUse(t, <<s, t.htt[s][j]>>)
  /\ \A s \in Sector : \A x \in t.hx[s] :
       x.tteNo \in TTEno => t.tt[<<s, x.tteNo>>].status # "Empty"
  /\ \A a \in Slot :
       /\ t.tt[a].status \in {"Empty", "InUse", "Deleted"}
       /\ \A k \in DOMAIN t.tt[a].jumps : Code[t.tt[a].base].exits[k] \in Guest

TableInv(t) == ShapeInv(t) /\ EdgeInv(t) /\ UseInv(t)

-----------------------------------------------------------------------------

(* A chained jump is not an exit that calls back. *)
LEMMA HostIsChained ==
  ASSUME NEW t, NEW b \in Slot
  PROVE  HostOf(t, b) # NotChained
  BY SizeAssumption DEF Slot, Sector, HostOf, NotChained

(* u is t without the translations of D: those are not in use and have no   *)
(* edges, the edges from and to them are gone, and the jumps to them call   *)
(* back.                                                                    *)
Dropped(t, u, D) ==
  /\ \A a \in D : ~ InUse(u, a) /\ u.tt[a].in_edges = {} /\ u.tt[a].out_edges = {}
  /\ \A a \in Slot \ D :
       /\ u.tt[a].status = t.tt[a].status
       /\ u.tt[a].tcptr = t.tt[a].tcptr
       /\ \A b \in Slot : \A k :
            /\ <<b, k>> \in u.tt[a].in_edges <=> <<b, k>> \in t.tt[a].in_edges /\ b \notin D
            /\ <<b, k>> \in u.tt[a].out_edges <=> <<b, k>> \in t.tt[a].out_edges /\ b \notin D
       /\ DOMAIN u.tt[a].jumps = DOMAIN t.tt[a].jumps
       /\ \A k \in DOMAIN t.tt[a].jumps :
            /\ (\E d \in D : <<a, k>> \in t.tt[d].in_edges) => u.tt[a].jumps[k] = NotChained
            /\ (\A d \in D : <<a, k>> \notin t.tt[d].in_edges) =>
                 u.tt[a].jumps[k] = t.tt[a].jumps[k]

(* Dropping translations leaves no edge and no jump behind.                 *)
LEMMA DroppedEdges ==
  ASSUME NEW t, NEW u, NEW D \in SUBSET Slot, EdgeInv(t), Dropped(t, u, D)
  PROVE  EdgeInv(u)
<1>1. ASSUME NEW a \in Slot, NEW b \in Slot, NEW k
      PROVE  <<b, k>> \in u.tt[a].out_edges <=>
               a \notin D /\ b \notin D /\ <<b, k>> \in t.tt[a].out_edges
  BY DEF Dropped
<1>2. ASSUME NEW a \in Slot, NEW b \in Slot, NEW k
      PROVE  <<b, k>> \in u.tt[a].in_edges <=>
               a \notin D /\ b \notin D /\ <<b, k>> \in t.tt[a].in_edges
  BY DEF Dropped
<1>3. \A a, b \in Slot : \A k : <<b, k>> \in u.tt[a].out_edges <=> <<a, k>> \in u.tt[b].in_edges
  BY <1>1, <1>2, ZenonT(40) DEF EdgeInv
<1>4. ASSUME NEW a \in Slot, NEW b \in Slot, NEW k, <<b, k>> \in u.tt[a].out_edges
      PROVE  /\ InUse(u, a) /\ InUse(u, b)
             /\ k \in DOMAIN u.tt[a].jumps /\ u.tt[a].jumps[k] = HostOf(u, b)
  <2>1. a \notin D /\ b \notin D /\ <<b, k>> \in t.tt[a].out_edges
    BY <1>1, <1>4
  <2>2. /\ InUse(t, a) /\ InUse(t, b)
        /\ k \in DOMAIN t.tt[a].jumps /\ t.tt[a].jumps[k] = HostOf(t, b)
    BY <2>1 DEF EdgeInv
  <2>3. \A d \in D : <<a, k>> \notin t.tt[d].in_edges
    BY <2>1, Zenon DEF EdgeInv
  <2>4. u.tt[a].jumps[k] = t.tt[a].jumps[k] /\ k \in DOMAIN u.tt[a].jumps
    BY <2>1, <2>2, <2>3 DEF Dropped
  <2>5. HostOf(u, b) = HostOf(t, b) /\ InUse(u, a) /\ InUse(u, b)
    BY <2>1, <2>2 DEF Dropped, HostOf, InUse
  <2>. QED
    BY <2>2, <2>4, <2>5
<1>5. \A a, b, c \in Slot : \A k :
        <<b, k>> \in u.tt[a].out_edges /\ <<c, k>> \in u.tt[a].out_edges => b = c
  BY <1>1 DEF EdgeInv
<1>6. ASSUME NEW a \in Slot, NEW k \in DOMAIN u.tt[a].jumps,
             InUse(u, a), u.tt[a].jumps[k] # NotChained
      PROVE  \E b \in Slot : <<b, k>> \in u.tt[a].out_edges
  <2>1. a \notin D
    BY <1>6 DEF Dropped
  <2>2. InUse(t, a) /\ k \in DOMAIN t.tt[a].jumps
    BY <1>6, <2>1 DEF Dropped, InUse
  <2>3. \A d \in D : <<a, k>> \notin t.tt[d].in_edges
    BY <1>6, <2>1, <2>2 DEF Dropped
  <2>4. t.tt[a].jumps[k] # NotChained
    BY <1>6, <2>1, <2>2, <2>3 DEF Dropped
  <2>5. PICK b \in Slot : <<b, k>> \in t.tt[a].out_edges
    BY <2>2, <2>4 DEF EdgeInv
  <2>6. b \notin D
    BY <2>3, <2>5, Zenon DEF EdgeInv
  <2>. QED
    BY <1>1, <2>1, <2>5, <2>6
<1>. QED
  BY <1>3, <1>4, <1>5, <1>6 DEF EdgeInv

(* What unchaining does to the tables and to an entry. *)
LEMMA UnchainedShape ==
  ASSUME NEW t, ShapeInv(t), NEW D
  PROVE  LET u == Unchained(t, D)
         IN  /\ IsTable(u) /\ DOMAIN u.tt = Slot
             /\ u.htt = t.htt /\ u.hx = t.hx /\ u.youngest = t.youngest
  BY DEF ShapeInv, IsTable, Unchained

(* See UnchainedShape. *)
LEMMA UnchainedEntry ==
  ASSUME NEW t, ShapeInv(t), NEW D \in SUBSET Slot, NEW a \in Slot
  PROVE  LET e == Unchained(t, D).tt[a]
         IN  /\ IsTTE(e)
             /\ e.status = t.tt[a].status /\ e.tcptr = t.tt[a].tcptr /\ e.base = t.tt[a].base
             /\ DOMAIN e.jumps = DOMAIN t.tt[a].jumps
             /\ a \in D => e.in_edges = {} /\ e.out_edges = {}
             /\ a \notin D =>
                  /\ e.in_edges = {x \in t.tt[a].in_edges : x[1] \notin D}
                  /\ e.out_edges = {x \in t.tt[a].out_edges : x[1] \notin D}
                  /\ \A k \in DOMAIN t.tt[a].jumps :
                       e.jumps[k] = IF <<a, k>> \in UNION {t.tt[d].in_edges : d \in D}
                                    THEN NotChained ELSE t.tt[a].jumps[k]
<1>. DEFINE into == UNION {t.tt[d].in_edges : d \in D}
            c == t.tt[a]
            gone == [c EXCEPT !.jumps = [k \in DOMAIN c.jumps |-> NotChained],
                              !.in_edges = {}, !.out_edges = {}]
            left == [c EXCEPT !.jumps = [k \in DOMAIN c.jumps |->
                                          IF <<a, k>> \in into THEN NotChained ELSE c.jumps[k]],
                              !.in_edges = {x \in c.in_edges : x[1] \notin D},
                              !.out_edges = {x \in c.out_edges : x[1] \notin D}]
<1>1. Unchained(t, D).tt[a] = IF a \in D THEN gone ELSE left
  BY DEF ShapeInv, IsTable, Unchained
<1>2. IsTTE(c)
  BY DEF ShapeInv
<1>. HIDE DEF c, into
<1>3. CASE a \in D
  <2>1. /\ IsTTE(gone) /\ gone.status = c.status /\ gone.tcptr = c.tcptr /\ gone.base = c.base
        /\ DOMAIN gone.jumps = DOMAIN c.jumps
        /\ gone.in_edges = {} /\ gone.out_edges = {}
    BY <1>2 DEF IsTTE
  <2>. QED
    BY <1>1, <1>3, <2>1 DEF c
<1>4. CASE a \notin D
  <2>1. /\ IsTTE(left) /\ left.status = c.status /\ left.tcptr = c.tcptr /\ left.base = c.base
        /\ DOMAIN left.jumps = DOMAIN c.jumps
        /\ left.in_edges = {x \in c.in_edges : x[1] \notin D}
        /\ left.out_edges = {x \in c.out_edges : x[1] \notin D}
        /\ \A k \in DOMAIN c.jumps :
             left.jumps[k] = IF <<a, k>> \in into THEN NotChained ELSE c.jumps[k]
    BY <1>2, Zenon DEF IsTTE
  <2>. HIDE DEF left
  <2>. QED
    BY <1>1, <1>4, <2>1 DEF c, into
<1>. QED
  BY <1>3, <1>4

(* Unchaining the translations in use of D, and making its slots free,      *)
(* drops them.                                                              *)
LEMMA UnchainedDropped ==
  ASSUME NEW t, ShapeInv(t), EdgeInv(t),
         NEW D \in SUBSET Slot, NEW E \in SUBSET D, \A a \in D \ E : ~ InUse(t, a),
         NEW u,
         \A a \in Slot \ D : u.tt[a] = Unchained(t, E).tt[a],
         \A a \in D : ~ InUse(u, a) /\ u.tt[a].in_edges = {} /\ u.tt[a].out_edges = {}
  PROVE  Dropped(t, u, D)
<1>1. SUFFICES ASSUME NEW a \in Slot \ D
               PROVE
                 /\ u.tt[a].status = t.tt[a].status
                 /\ u.tt[a].tcptr = t.tt[a].tcptr
                 /\ \A b \in Slot : \A k :
                      /\ <<b, k>> \in u.tt[a].in_edges <=> <<b, k>> \in t.tt[a].in_edges /\ b \notin D
                      /\ <<b, k>> \in u.tt[a].out_edges <=> <<b, k>> \in t.tt[a].out_edges /\ b \notin D
                 /\ DOMAIN u.tt[a].jumps = DOMAIN t.tt[a].jumps
                 /\ \A k \in DOMAIN t.tt[a].jumps :
                      /\ (\E d \in D : <<a, k>> \in t.tt[d].in_edges) => u.tt[a].jumps[k] = NotChained
                      /\ (\A d \in D : <<a, k>> \notin t.tt[d].in_edges) =>
                           u.tt[a].jumps[k] = t.tt[a].jumps[k]
  BY Zenon DEF Dropped
<1>2. E \in SUBSET Slot /\ a \in Slot /\ a \notin E
  BY Zenon
<1>3. /\ u.tt[a].status = t.tt[a].status /\ u.tt[a].tcptr = t.tt[a].tcptr
      /\ DOMAIN u.tt[a].jumps = DOMAIN t.tt[a].jumps
      /\ u.tt[a].in_edges = {x \in t.tt[a].in_edges : x[1] \notin E}
      /\ u.tt[a].out_edges = {x \in t.tt[a].out_edges : x[1] \notin E}
      /\ \A k \in DOMAIN t.tt[a].jumps :
           u.tt[a].jumps[k] = IF <<a, k>> \in UNION {t.tt[d].in_edges : d \in E}
                              THEN NotChained ELSE t.tt[a].jumps[k]
  BY <1>2, UnchainedEntry
<1>4. ASSUME NEW b \in D \ E, NEW k
      PROVE  /\ <<b, k>> \notin t.tt[a].in_edges /\ <<b, k>> \notin t.tt[a].out_edges
             /\ <<a, k>> \notin t.tt[b].in_edges
  BY DEF EdgeInv
<1>5. ASSUME NEW b \in Slot, NEW k
      PROVE
        /\ <<b, k>> \in u.tt[a].in_edges <=> <<b, k>> \in t.tt[a].in_edges /\ b \notin D
        /\ <<b, k>> \in u.tt[a].out_edges <=> <<b, k>> \in t.tt[a].out_edges /\ b \notin D
  BY <1>3, <1>4, Zenon
<1>6. ASSUME NEW k \in DOMAIN t.tt[a].jumps
      PROVE  /\ (\E d \in D : <<a, k>> \in t.tt[d].in_edges) => u.tt[a].jumps[k] = NotChained
             /\ (\A d \in D : <<a, k>> \notin t.tt[d].in_edges) =>
                  u.tt[a].jumps[k] = t.tt[a].jumps[k]
  <2>1. <<a, k>> \in UNION {t.tt[d].in_edges : d \in E} <=>
          \E d \in D : <<a, k>> \in t.tt[d].in_edges
    BY <1>4, Zenon
  <2>. QED
    BY <1>3, <2>1
<1>. QED
  BY <1>3, <1>5, <1>6

(* Deleting translations keeps the tables right. *)
LEMMA DeleteKeeps ==
  ASSUME NEW t, TableInv(t), NEW D \in SUBSET Slot
  PROVE  TableInv(delete_tte(t, D))
<1>. DEFINE u == Unchained(t, D)
            v == delete_tte(t, D)
<1>1. ShapeInv(t) /\ EdgeInv(t) /\ UseInv(t)
  BY DEF TableInv
<1>2. IsTable(u) /\ DOMAIN u.tt = Slot /\ u.hx = t.hx /\ u.youngest = t.youngest
  BY <1>1, UnchainedShape
<1>. HIDE DEF u
<1>3. /\ IsTable(v) /\ v.hx = t.hx /\ v.youngest = t.youngest
      /\ v.tt = [a \in Slot |-> IF a \in D THEN [u.tt[a] EXCEPT !.status = "Deleted"] ELSE u.tt[a]]
      /\ v.htt = [s \in Sector |-> [j \in HttIx |->
                   IF <<s, t.htt[s][j]>> \in D THEN DELETED ELSE t.htt[s][j]]]
  BY <1>2 DEF IsTable, delete_tte, u
<1>. HIDE DEF v
<1>4. ASSUME NEW a \in Slot
      PROVE  /\ IsTTE(v.tt[a]) /\ v.tt[a].base = t.tt[a].base
             /\ DOMAIN v.tt[a].jumps = DOMAIN t.tt[a].jumps
             /\ a \in D => v.tt[a].status = "Deleted"
                            /\ v.tt[a].in_edges = {} /\ v.tt[a].out_edges = {}
             /\ a \notin D => v.tt[a] = u.tt[a] /\ v.tt[a].status = t.tt[a].status
  <2>1. /\ IsTTE(u.tt[a]) /\ u.tt[a].status = t.tt[a].status /\ u.tt[a].base = t.tt[a].base
        /\ DOMAIN u.tt[a].jumps = DOMAIN t.tt[a].jumps
        /\ a \in D => u.tt[a].in_edges = {} /\ u.tt[a].out_edges = {}
    BY <1>1, UnchainedEntry DEF u
  <2>. QED
    BY <1>3, <2>1 DEF IsTTE
<1>5. ShapeInv(v)
  BY <1>1, <1>3, <1>4 DEF ShapeInv
<1>6. EdgeInv(v)
  <2>1. \A a \in D : ~ InUse(v, a) /\ v.tt[a].in_edges = {} /\ v.tt[a].out_edges = {}
    BY <1>4 DEF InUse
  <2>2. \A a \in Slot \ D : v.tt[a] = Unchained(t, D).tt[a]
    BY <1>4 DEF u
  <2>3. Dropped(t, v, D)
    BY <1>1, <2>1, <2>2, UnchainedDropped
  <2>. QED
    BY <1>1, <2>3, DroppedEdges
<1>7. UseInv(v)
  <2>1. ASSUME NEW s \in Sector, NEW j \in HttIx, v.htt[s][j] \in TTEno
        PROVE  InUse(v, <<s, v.htt[s][j]>>)
    <3>1. v.htt[s][j] = t.htt[s][j] /\ <<s, t.htt[s][j]>> \notin D
      BY <1>3, <2>1, SizeAssumption
    <3>2. InUse(t, <<s, t.htt[s][j]>>) /\ <<s, t.htt[s][j]>> \in Slot
      BY <1>1, <2>1, <3>1 DEF UseInv, Slot
    <3>. QED
      BY <1>4, <3>1, <3>2 DEF InUse
  <2>2. ASSUME NEW s \in Sector, NEW x \in v.hx[s], x.tteNo \in TTEno
        PROVE  v.tt[<<s, x.tteNo>>].status # "Empty"
    <3>1. t.tt[<<s, x.tteNo>>].status # "Empty" /\ <<s, x.tteNo>> \in Slot
      BY <1>1, <1>3, <2>2, Zenon DEF UseInv, Slot
    <3>. QED
      BY <1>4, <3>1
  <2>3. ASSUME NEW a \in Slot
        PROVE  /\ v.tt[a].status \in {"Empty", "InUse", "Deleted"}
               /\ \A k \in DOMAIN v.tt[a].jumps : Code[v.tt[a].base].exits[k] \in Guest
    BY <1>1, <1>4 DEF UseInv
  <2>. QED
    BY <2>1, <2>2, <2>3 DEF UseInv
<1>. QED
  BY <1>5, <1>6, <1>7 DEF TableInv, v

(* Emptying a sector keeps the tables right. *)
LEMMA InitialiseKeeps ==
  ASSUME NEW t, TableInv(t), NEW s \in Sector
  PROVE  TableInv(initialiseSector(t, s))
<1>. DEFINE E == {a \in Slot : a[1] = s /\ InUse(t, a)}
            D == {a \in Slot : a[1] = s}
            u == Unchained(t, E)
            v == initialiseSector(t, s)
<1>1. ShapeInv(t) /\ EdgeInv(t) /\ UseInv(t)
  BY DEF TableInv
<1>2. /\ IsTable(u) /\ DOMAIN u.tt = Slot
      /\ u.htt = t.htt /\ u.hx = t.hx /\ u.youngest = t.youngest
  BY <1>1, UnchainedShape
<1>. HIDE DEF u
<1>3. /\ IsTable(v) /\ v.youngest = t.youngest
      /\ v.tt = [a \in Slot |-> IF a[1] = s THEN EmptyTTE ELSE u.tt[a]]
      /\ v.htt = [t.htt EXCEPT ![s] = [j \in HttIx |-> EMPTY]]
      /\ v.hx = [t.hx EXCEPT ![s] = {}]
  BY <1>2, Zenon DEF IsTable, initialiseSector, u
<1>4. /\ DOMAIN v.htt = Sector /\ DOMAIN v.hx = Sector
      /\ v.hx[s] = {} /\ v.htt[s] = [j \in HttIx |-> EMPTY]
      /\ \A r \in Sector \ {s} : v.hx[r] = t.hx[r] /\ v.htt[r] = t.htt[r]
  BY <1>1, <1>3 DEF ShapeInv
<1>. HIDE DEF v
<1>5. ASSUME NEW a \in Slot
      PROVE  /\ IsTTE(v.tt[a])
             /\ a \in D => v.tt[a].status = "Empty" /\ DOMAIN v.tt[a].jumps = {}
                            /\ v.tt[a].in_edges = {} /\ v.tt[a].out_edges = {}
             /\ a \notin D => /\ v.tt[a] = u.tt[a] /\ v.tt[a].status = t.tt[a].status
                              /\ v.tt[a].base = t.tt[a].base
                              /\ DOMAIN v.tt[a].jumps = DOMAIN t.tt[a].jumps
  <2>1. /\ IsTTE(u.tt[a]) /\ u.tt[a].status = t.tt[a].status /\ u.tt[a].base = t.tt[a].base
        /\ DOMAIN u.tt[a].jumps = DOMAIN t.tt[a].jumps
    BY <1>1, UnchainedEntry DEF u
  <2>. QED
    BY <1>3, <2>1 DEF IsTTE, EmptyTTE
<1>6. ShapeInv(v)
  BY <1>1, <1>3, <1>4, <1>5 DEF ShapeInv
<1>7. EdgeInv(v)
  <2>1. \A a \in D : ~ InUse(v, a) /\ v.tt[a].in_edges = {} /\ v.tt[a].out_edges = {}
    BY <1>5 DEF InUse
  <2>2. \A a \in Slot \ D : v.tt[a] = Unchained(t, E).tt[a]
    BY <1>5 DEF u
  <2>3. D \in SUBSET Slot /\ E \in SUBSET D /\ \A a \in D \ E : ~ InUse(t, a)
    OBVIOUS
  <2>. HIDE DEF D, E
  <2>4. Dropped(t, v, D)
    BY <1>1, <2>1, <2>2, <2>3, UnchainedDropped
  <2>. QED
    BY <1>1, <2>3, <2>4, DroppedEdges
<1>8. UseInv(v)
  <2>1. ASSUME NEW r \in Sector, NEW j \in HttIx, v.htt[r][j] \in TTEno
        PROVE  InUse(v, <<r, v.htt[r][j]>>)
    <3>1. r # s /\ v.htt[r][j] = t.htt[r][j]
      BY <1>4, <2>1, SizeAssumption
    <3>2. <<r, t.htt[r][j]>> \in Slot /\ InUse(t, <<r, t.htt[r][j]>>)
      BY <1>1, <2>1, <3>1 DEF UseInv, Slot
    <3>. QED
      BY <1>5, <3>1, <3>2 DEF InUse
  <2>2. ASSUME NEW r \in Sector, NEW x \in v.hx[r], x.tteNo \in TTEno
        PROVE  v.tt[<<r, x.tteNo>>].status # "Empty"
    <3>1. r # s /\ x \in t.hx[r]
      BY <1>4, <2>2
    <3>2. <<r, x.tteNo>> \in Slot /\ t.tt[<<r, x.tteNo>>].status # "Empty"
      BY <1>1, <2>2, <3>1 DEF UseInv, Slot
    <3>. QED
      BY <1>5, <3>1, <3>2
  <2>3. ASSUME NEW a \in Slot
        PROVE  /\ v.tt[a].status \in {"Empty", "InUse", "Deleted"}
               /\ \A k \in DOMAIN v.tt[a].jumps : Code[v.tt[a].base].exits[k] \in Guest
    BY <1>1, <1>5 DEF UseInv
  <2>. QED
    BY <2>1, <2>2, <2>3 DEF UseInv
<1>. QED
  BY <1>6, <1>7, <1>8 DEF TableInv, v

(* Fields the invariant does not read. *)
Alike(t, u) ==
  /\ IsTable(u) /\ u.tt = t.tt /\ u.htt = t.htt /\ u.hx = t.hx
  /\ u.youngest \in Sector

(* See Alike. *)
LEMMA AlikeKeeps ==
  ASSUME NEW t, TableInv(t), NEW u, Alike(t, u)
  PROVE  TableInv(u)
<1>1. ShapeInv(u)
  BY Zenon DEF TableInv, ShapeInv, Alike
<1>2. EdgeInv(u)
  BY DEF TableInv, EdgeInv, Alike, InUse, HostOf
<1>3. UseInv(u)
  BY DEF TableInv, UseInv, Alike, InUse
<1>. QED
  BY <1>1, <1>2, <1>3 DEF TableInv

(* Making room keeps the tables right. *)
LEMMA RoomKeeps ==
  ASSUME NEW t, TableInv(t), NEW base
  PROVE  TableInv(RoomFor(t, base))
<1>. DEFINE next == (t.youngest + 1) % NSectors
            u == initialiseSector(t, next)
            v == [u EXCEPT !.youngest = next]
<1>1. next \in Sector
  <2>1. t.youngest \in Int /\ NSectors \in Nat /\ NSectors > 0
    BY SizeAssumption DEF TableInv, ShapeInv, Sector
  <2>. QED
    BY <2>1 DEF Sector
<1>. HIDE DEF next
<1>2. TableInv(u)
  BY <1>1, InitialiseKeeps
<1>. HIDE DEF u
<1>3. TableInv(v)
  <2>1. Alike(u, v)
    BY <1>1, <1>2 DEF Alike, TableInv, ShapeInv, IsTable
  <2>. QED
    BY <1>2, <2>1, AlikeKeeps
<1>4. RoomFor(t, base) \in {t, v}
  BY DEF RoomFor, u, next
<1>. QED
  BY <1>3, <1>4

(* Adding a translation in a free slot keeps the tables right. *)
LEMMA AddKeeps ==
  ASSUME NEW t, TableInv(t), NEW g, NEW base \in Guest, NEW i \in FreeSlots(t)
  PROVE  TableInv(AddAt(t, g, base, i))
<1>. DEFINE y == t.youngest
            n == <<y, i>>
            u == AddAt(t, g, base, i)
            new == [status |-> "InUse", entry |-> g, base |-> base, tcptr |-> t.tc_next[y],
                    jumps |-> [k \in DOMAIN Code[base].exits |-> NotChained],
                    in_edges |-> {}, out_edges |-> {}]
<1>1. ShapeInv(t) /\ EdgeInv(t) /\ UseInv(t)
  BY DEF TableInv
<1>2. i \in TTEno /\ y \in Sector /\ n \in Slot /\ ~ InUse(t, n)
  BY <1>1 DEF FreeSlots, ShapeInv, Slot
<1>3. /\ IsTable(u) /\ u.youngest = y
      /\ u.tt = [t.tt EXCEPT ![n] = new]
      /\ u.htt = [t.htt EXCEPT ![y][FreeHtt(t.htt[y], g)] = i]
      /\ u.hx = [t.hx EXCEPT ![y] = @ \cup {[start |-> t.tc_next[y], len |-> Code[base].len,
                                             tteNo |-> i]}]
  BY <1>1 DEF ShapeInv, IsTable, AddAt
<1>. HIDE DEF u, new
<1>4. /\ DOMAIN u.tt = Slot /\ u.tt[n] = new
      /\ \A a \in Slot \ {n} : u.tt[a] = t.tt[a]
  BY <1>1, <1>2, <1>3, Zenon DEF ShapeInv
<1>5. /\ IsTTE(new) /\ new.status = "InUse" /\ new.base = base
      /\ new.in_edges = {} /\ new.out_edges = {}
      /\ DOMAIN new.jumps = DOMAIN Code[base].exits
      /\ \A k \in DOMAIN new.jumps : new.jumps[k] = NotChained
  BY Zenon DEF new, IsTTE
<1>6. /\ DOMAIN u.htt = Sector
      /\ \A s \in Sector : DOMAIN u.htt[s] = HttIx
      /\ \A s \in Sector : \A j \in HttIx :
           u.htt[s][j] = t.htt[s][j] \/ (s = y /\ u.htt[s][j] = i)
  BY <1>1, <1>2, <1>3 DEF ShapeInv
<1>7. /\ DOMAIN u.hx = Sector
      /\ \A s \in Sector : \A x \in u.hx[s] : x \in t.hx[s] \/ (s = y /\ x.tteNo = i)
  BY <1>1, <1>2, <1>3 DEF ShapeInv
<1>8. ShapeInv(u)
  BY <1>1, <1>2, <1>3, <1>4, <1>5, <1>6, <1>7, Zenon DEF ShapeInv
<1>9. EdgeInv(u)
  <2>. HIDE DEF n
  <2>1. ASSUME NEW a \in Slot, NEW b \in Slot, NEW k
        PROVE  /\ <<b, k>> \in u.tt[a].out_edges <=>
                    a # n /\ b # n /\ <<b, k>> \in t.tt[a].out_edges
               /\ <<b, k>> \in u.tt[a].in_edges <=>
                    a # n /\ b # n /\ <<b, k>> \in t.tt[a].in_edges
    <3>1. a = n \/ b = n => <<b, k>> \notin t.tt[a].out_edges /\ <<b, k>> \notin t.tt[a].in_edges
      <4>1. <<b, k>> \in t.tt[a].out_edges => InUse(t, a) /\ InUse(t, b)
        BY <1>1 DEF EdgeInv
      <4>2. <<b, k>> \in t.tt[a].in_edges => InUse(t, a) /\ InUse(t, b)
        BY <1>1, ZenonT(40) DEF EdgeInv
      <4>. QED
        BY <1>2, <4>1, <4>2, Zenon
    <3>. QED
      BY <1>2, <1>4, <1>5, <3>1
  <2>2. \A a, b \in Slot : \A k :
          <<b, k>> \in u.tt[a].out_edges <=> <<a, k>> \in u.tt[b].in_edges
    BY <1>1, <2>1, ZenonT(40) DEF EdgeInv
  <2>3. ASSUME NEW a \in Slot, NEW b \in Slot, NEW k, <<b, k>> \in u.tt[a].out_edges
        PROVE  /\ InUse(u, a) /\ InUse(u, b)
               /\ k \in DOMAIN u.tt[a].jumps /\ u.tt[a].jumps[k] = HostOf(u, b)
    <3>1. u.tt[a] = t.tt[a] /\ u.tt[b] = t.tt[b] /\ <<b, k>> \in t.tt[a].out_edges
      BY <1>4, <2>1, <2>3
    <3>. QED
      BY <1>1, <3>1 DEF EdgeInv, InUse, HostOf
  <2>4. \A a, b, c \in Slot : \A k :
          <<b, k>> \in u.tt[a].out_edges /\ <<c, k>> \in u.tt[a].out_edges => b = c
    BY <1>1, <2>1, Zenon DEF EdgeInv
  <2>5. ASSUME NEW a \in Slot, NEW k \in DOMAIN u.tt[a].jumps,
               InUse(u, a), u.tt[a].jumps[k] # NotChained
        PROVE  \E b \in Slot : <<b, k>> \in u.tt[a].out_edges
    <3>1. a # n /\ u.tt[a] = t.tt[a]
      BY <1>4, <1>5, <2>5, Zenon
    <3>. QED
      BY <1>1, <2>5, <3>1 DEF EdgeInv, InUse
  <2>. QED
    BY <2>2, <2>3, <2>4, <2>5 DEF EdgeInv
<1>10. UseInv(u)
  <2>1. ASSUME NEW s \in Sector, NEW j \in HttIx, u.htt[s][j] \in TTEno
        PROVE  InUse(u, <<s, u.htt[s][j]>>)
    <3>1. <<s, u.htt[s][j]>> \in Slot
      BY <2>1 DEF Slot
    <3>2. CASE <<s, u.htt[s][j]>> = n
      BY <1>4, <1>5, <3>2, Zenon DEF InUse
    <3>3. CASE <<s, u.htt[s][j]>> # n
      <4>1. u.htt[s][j] = t.htt[s][j]
        BY <1>6, <3>3, Zenon
      <4>2. InUse(t, <<s, u.htt[s][j]>>)
        BY <1>1, <2>1, <4>1, Zenon DEF UseInv
      <4>. QED
        BY <1>4, <3>1, <3>3, <4>2, Zenon DEF InUse
    <3>. QED
      BY <3>2, <3>3, Zenon
  <2>2. ASSUME NEW s \in Sector, NEW x \in u.hx[s], x.tteNo \in TTEno
        PROVE  u.tt[<<s, x.tteNo>>].status # "Empty"
    <3>1. <<s, x.tteNo>> \in Slot
      BY <2>2 DEF Slot
    <3>. QED
      BY <1>1, <1>4, <1>5, <1>7, <2>2, <3>1 DEF UseInv
  <2>3. ASSUME NEW a \in Slot
        PROVE  /\ u.tt[a].status \in {"Empty", "InUse", "Deleted"}
               /\ \A k \in DOMAIN u.tt[a].jumps : Code[u.tt[a].base].exits[k] \in Guest
    BY <1>1, <1>4, <1>5, CodeAssumption, ZenonT(40) DEF UseInv
  <2>. QED
    BY <2>1, <2>2, <2>3 DEF UseInv
<1>. QED
  BY <1>8, <1>9, <1>10 DEF TableInv, u

(* Chaining exit k of f, not chained yet, to the translation at to. *)
Chained(t, f, k, to) ==
  LET patched == [t EXCEPT !.tt[f].jumps[k] = HostOf(t, to),
                           !.tt[f].out_edges = @ \cup {<<to, k>>}]
  IN  [patched EXCEPT !.tt[to].in_edges = @ \cup {<<f, k>>}]

(* Entry a of u is that of t, but for the new jump and its two edges. *)
ChainedAt(t, u, f, k, to, a) ==
  /\ IsTTE(u.tt[a])
  /\ u.tt[a].status = t.tt[a].status /\ u.tt[a].tcptr = t.tt[a].tcptr
  /\ u.tt[a].base = t.tt[a].base /\ u.tt[a].entry = t.tt[a].entry
  /\ DOMAIN u.tt[a].jumps = DOMAIN t.tt[a].jumps
  /\ \A b, l : <<b, l>> \in u.tt[a].in_edges <=>
       <<b, l>> \in t.tt[a].in_edges \/ (a = to /\ b = f /\ l = k)
  /\ \A b, l : <<b, l>> \in u.tt[a].out_edges <=>
       <<b, l>> \in t.tt[a].out_edges \/ (a = f /\ b = to /\ l = k)
  /\ \A l \in DOMAIN t.tt[a].jumps :
       u.tt[a].jumps[l] = IF a = f /\ l = k THEN HostOf(t, to) ELSE t.tt[a].jumps[l]

(* What chaining does to the tables and to an entry. *)
LEMMA ChainedEntry ==
  ASSUME NEW t, ShapeInv(t), NEW f \in Slot, NEW to \in Slot, NEW k \in DOMAIN t.tt[f].jumps
  PROVE  LET u == Chained(t, f, k, to)
         IN  /\ IsTable(u) /\ u.htt = t.htt /\ u.hx = t.hx /\ u.youngest = t.youngest
             /\ DOMAIN u.tt = Slot
             /\ \A a \in Slot : ChainedAt(t, u, f, k, to, a)
<1>. DEFINE p == [t EXCEPT !.tt[f].jumps[k] = HostOf(t, to),
                           !.tt[f].out_edges = @ \cup {<<to, k>>}]
            u == [p EXCEPT !.tt[to].in_edges = @ \cup {<<f, k>>}]
            h == HostOf(t, to)
<1>1. IsTable(t) /\ DOMAIN t.tt = Slot /\ \A a \in Slot : IsTTE(t.tt[a])
  BY DEF ShapeInv
<1>. HIDE DEF h
<1>2. /\ IsTable(p) /\ p.htt = t.htt /\ p.hx = t.hx /\ p.youngest = t.youngest
      /\ DOMAIN p.tt = Slot
      /\ \A a \in Slot \ {f} : p.tt[a] = t.tt[a]
      /\ p.tt[f] = [t.tt[f] EXCEPT !.jumps = [@ EXCEPT ![k] = h],
                                   !.out_edges = @ \cup {<<to, k>>}]
  BY <1>1, Zenon DEF IsTable, h
<1>. HIDE DEF p
<1>3. /\ IsTable(u) /\ u.htt = t.htt /\ u.hx = t.hx /\ u.youngest = t.youngest
      /\ DOMAIN u.tt = Slot
      /\ \A a \in Slot \ {to} : u.tt[a] = p.tt[a]
      /\ u.tt[to] = [p.tt[to] EXCEPT !.in_edges = @ \cup {<<f, k>>}]
  BY <1>2, Zenon DEF IsTable
<1>. HIDE DEF u
<1>4. ASSUME NEW a \in Slot
      PROVE  /\ IsTTE(p.tt[a])
             /\ p.tt[a].status = t.tt[a].status /\ p.tt[a].tcptr = t.tt[a].tcptr
             /\ p.tt[a].base = t.tt[a].base /\ p.tt[a].entry = t.tt[a].entry
             /\ DOMAIN p.tt[a].jumps = DOMAIN t.tt[a].jumps
             /\ p.tt[a].in_edges = t.tt[a].in_edges
             /\ p.tt[a].out_edges = IF a = f THEN t.tt[a].out_edges \cup {<<to, k>>}
                                             ELSE t.tt[a].out_edges
             /\ \A l \in DOMAIN t.tt[a].jumps :
                  p.tt[a].jumps[l] = IF a = f /\ l = k THEN h ELSE t.tt[a].jumps[l]
  <2>1. CASE a = f
    <3>. DEFINE c == t.tt[f]
                j == [c.jumps EXCEPT ![k] = h]
    <3>1. /\ DOMAIN j = DOMAIN c.jumps
          /\ \A l \in DOMAIN c.jumps : j[l] = IF l = k THEN h ELSE c.jumps[l]
      OBVIOUS
    <3>2. p.tt[f] = [c EXCEPT !.jumps = j, !.out_edges = @ \cup {<<to, k>>}] /\ IsTTE(c)
      BY <1>1, <1>2
    <3>. HIDE DEF c, j
    <3>3. /\ IsTTE(p.tt[f]) /\ p.tt[f].jumps = j
          /\ p.tt[f].status = c.status /\ p.tt[f].tcptr = c.tcptr /\ p.tt[f].base = c.base
          /\ p.tt[f].entry = c.entry
          /\ p.tt[f].in_edges = c.in_edges /\ p.tt[f].out_edges = c.out_edges \cup {<<to, k>>}
      BY <3>2 DEF IsTTE
    <3>. QED
      BY <2>1, <3>1, <3>3 DEF c
  <2>2. CASE a # f
    BY <1>1, <1>2, <2>2, Zenon
  <2>. QED
    BY <2>1, <2>2, Zenon
<1>5. ASSUME NEW a \in Slot
      PROVE  /\ IsTTE(u.tt[a])
             /\ u.tt[a].status = p.tt[a].status /\ u.tt[a].tcptr = p.tt[a].tcptr
             /\ u.tt[a].base = p.tt[a].base /\ u.tt[a].entry = p.tt[a].entry
             /\ u.tt[a].jumps = p.tt[a].jumps
             /\ u.tt[a].in_edges = IF a = to THEN p.tt[a].in_edges \cup {<<f, k>>}
                                             ELSE p.tt[a].in_edges
             /\ u.tt[a].out_edges = p.tt[a].out_edges
  <2>1. CASE a = to
    <3>. DEFINE c == p.tt[to]
    <3>1. IsTTE(c) /\ u.tt[to] = [c EXCEPT !.in_edges = @ \cup {<<f, k>>}]
      BY <1>3, <1>4, Zenon
    <3>. HIDE DEF c
    <3>2. /\ IsTTE(u.tt[to])
          /\ u.tt[to].status = c.status /\ u.tt[to].tcptr = c.tcptr
          /\ u.tt[to].base = c.base /\ u.tt[to].entry = c.entry /\ u.tt[to].jumps = c.jumps
          /\ u.tt[to].in_edges = c.in_edges \cup {<<f, k>>}
          /\ u.tt[to].out_edges = c.out_edges
      BY <3>1 DEF IsTTE
    <3>. QED
      BY <2>1, <3>2 DEF c
  <2>2. CASE a # to
    BY <1>3, <1>4, <2>2, ZenonT(40)
  <2>. QED
    BY <2>1, <2>2, Zenon
<1>6. u = Chained(t, f, k, to)
  BY DEF u, p, Chained
<1>7. ASSUME NEW a \in Slot
      PROVE  ChainedAt(t, u, f, k, to, a)
  <2>1. /\ IsTTE(u.tt[a])
        /\ u.tt[a].status = t.tt[a].status /\ u.tt[a].tcptr = t.tt[a].tcptr
        /\ u.tt[a].base = t.tt[a].base /\ u.tt[a].entry = t.tt[a].entry
    BY <1>4, <1>5, ZenonT(40)
  <2>2. \A b, l : <<b, l>> \in u.tt[a].in_edges <=>
          <<b, l>> \in t.tt[a].in_edges \/ (a = to /\ b = f /\ l = k)
    <3>1. u.tt[a].in_edges = IF a = to THEN t.tt[a].in_edges \cup {<<f, k>>}
                                      ELSE t.tt[a].in_edges
      BY <1>4, <1>5, ZenonT(40)
    <3>. QED
      BY <3>1
  <2>3. \A b, l : <<b, l>> \in u.tt[a].out_edges <=>
          <<b, l>> \in t.tt[a].out_edges \/ (a = f /\ b = to /\ l = k)
    <3>1. u.tt[a].out_edges = IF a = f THEN t.tt[a].out_edges \cup {<<to, k>>}
                                      ELSE t.tt[a].out_edges
      BY <1>4, <1>5, ZenonT(40)
    <3>. QED
      BY <3>1
  <2>4. /\ DOMAIN u.tt[a].jumps = DOMAIN t.tt[a].jumps
        /\ \A l \in DOMAIN t.tt[a].jumps :
             u.tt[a].jumps[l] = IF a = f /\ l = k THEN h ELSE t.tt[a].jumps[l]
    <3>1. u.tt[a].jumps = p.tt[a].jumps
      BY <1>5, Zenon
    <3>. QED
      BY <1>4, <3>1, ZenonT(40)
  <2>. QED
    BY <2>1, <2>2, <2>3, <2>4, Zenon DEF ChainedAt, h
<1>. QED
  BY <1>3, <1>6, <1>7

(* Chaining an exit that is not chained, between translations in use, keeps *)
(* the tables right.                                                        *)
LEMMA ChainedKeeps ==
  ASSUME NEW t, TableInv(t), NEW f \in Slot, NEW to \in Slot, InUse(t, f), InUse(t, to),
         NEW k \in DOMAIN t.tt[f].jumps, t.tt[f].jumps[k] = NotChained
  PROVE  TableInv(Chained(t, f, k, to))
<1>. DEFINE u == Chained(t, f, k, to)
<1>1. ShapeInv(t) /\ EdgeInv(t) /\ UseInv(t)
  BY DEF TableInv
<1>2. /\ IsTable(u) /\ u.htt = t.htt /\ u.hx = t.hx /\ u.youngest = t.youngest
      /\ DOMAIN u.tt = Slot
  BY <1>1, ChainedEntry
<1>3. ASSUME NEW a \in Slot
      PROVE  /\ IsTTE(u.tt[a])
             /\ u.tt[a].status = t.tt[a].status /\ u.tt[a].tcptr = t.tt[a].tcptr
             /\ u.tt[a].base = t.tt[a].base
             /\ DOMAIN u.tt[a].jumps = DOMAIN t.tt[a].jumps
             /\ \A b, l : <<b, l>> \in u.tt[a].in_edges <=>
                  <<b, l>> \in t.tt[a].in_edges \/ (a = to /\ b = f /\ l = k)
             /\ \A b, l : <<b, l>> \in u.tt[a].out_edges <=>
                  <<b, l>> \in t.tt[a].out_edges \/ (a = f /\ b = to /\ l = k)
             /\ \A l \in DOMAIN t.tt[a].jumps :
                  u.tt[a].jumps[l] = IF a = f /\ l = k THEN HostOf(t, to) ELSE t.tt[a].jumps[l]
  <2>1. ChainedAt(t, u, f, k, to, a)
    BY <1>1, ChainedEntry
  <2>. QED
    BY <2>1, Zenon DEF ChainedAt
<1>. HIDE DEF u
<1>4. \A a \in Slot : (InUse(u, a) <=> InUse(t, a)) /\ HostOf(u, a) = HostOf(t, a)
  BY <1>3 DEF InUse, HostOf
<1>5. \A b \in Slot : <<b, k>> \notin t.tt[f].out_edges
  BY <1>1, HostIsChained DEF EdgeInv
<1>6. ShapeInv(u)
  BY <1>1, <1>2, <1>3 DEF ShapeInv
<1>7. EdgeInv(u)
  <2>1. ASSUME NEW a \in Slot, NEW b \in Slot, NEW l
        PROVE  <<b, l>> \in u.tt[a].out_edges <=> <<a, l>> \in u.tt[b].in_edges
    <3>1. <<b, l>> \in t.tt[a].out_edges <=> <<a, l>> \in t.tt[b].in_edges
      BY <1>1 DEF EdgeInv
    <3>2. <<b, l>> \in u.tt[a].out_edges <=>
            <<b, l>> \in t.tt[a].out_edges \/ (a = f /\ b = to /\ l = k)
      BY <1>3
    <3>3. <<a, l>> \in u.tt[b].in_edges <=>
            <<a, l>> \in t.tt[b].in_edges \/ (b = to /\ a = f /\ l = k)
      BY <1>3
    <3>. QED
      BY <3>1, <3>2, <3>3, Zenon
  <2>2. ASSUME NEW a \in Slot, NEW b \in Slot, NEW l, <<b, l>> \in u.tt[a].out_edges
        PROVE  /\ InUse(u, a) /\ InUse(u, b)
               /\ l \in DOMAIN u.tt[a].jumps /\ u.tt[a].jumps[l] = HostOf(u, b)
    <3>1. CASE a = f /\ b = to /\ l = k
      BY <1>3, <1>4, <3>1, Zenon
    <3>2. CASE ~ (a = f /\ b = to /\ l = k)
      <4>1. <<b, l>> \in t.tt[a].out_edges
        BY <1>3, <2>2, <3>2
      <4>2. /\ InUse(t, a) /\ InUse(t, b)
            /\ l \in DOMAIN t.tt[a].jumps /\ t.tt[a].jumps[l] = HostOf(t, b)
        BY <1>1, <4>1 DEF EdgeInv
      <4>3. ~ (a = f /\ l = k)
        BY <1>5, <4>1, Zenon
      <4>. QED
        BY <1>3, <1>4, <4>2, <4>3, Zenon
    <3>. QED
      BY <3>1, <3>2, Zenon
  <2>3. ASSUME NEW a \in Slot, NEW b \in Slot, NEW c \in Slot, NEW l,
               <<b, l>> \in u.tt[a].out_edges, <<c, l>> \in u.tt[a].out_edges
        PROVE  b = c
    BY <1>1, <1>3, <1>5, <2>3 DEF EdgeInv
  <2>4. ASSUME NEW a \in Slot, NEW l \in DOMAIN u.tt[a].jumps,
               InUse(u, a), u.tt[a].jumps[l] # NotChained
        PROVE  \E b \in Slot : <<b, l>> \in u.tt[a].out_edges
    <3>1. CASE a = f /\ l = k
      BY <1>3, <3>1, Zenon
    <3>2. CASE ~ (a = f /\ l = k)
      <4>1. t.tt[a].jumps[l] # NotChained /\ l \in DOMAIN t.tt[a].jumps /\ InUse(t, a)
        BY <1>3, <1>4, <2>4, <3>2, Zenon
      <4>2. PICK b \in Slot : <<b, l>> \in t.tt[a].out_edges
        BY <1>1, <4>1, Zenon DEF EdgeInv
      <4>. QED
        BY <1>3, <4>2
    <3>. QED
      BY <3>1, <3>2, Zenon
  <2>. QED
    BY <2>1, <2>2, <2>3, <2>4, Zenon DEF EdgeInv
<1>8. UseInv(u)
  <2>1. ASSUME NEW s \in Sector, NEW j \in HttIx, u.htt[s][j] \in TTEno
        PROVE  InUse(u, <<s, u.htt[s][j]>>)
    BY <1>1, <1>2, <1>4, <2>1, Zenon DEF UseInv, Slot
  <2>2. ASSUME NEW s \in Sector, NEW x \in u.hx[s], x.tteNo \in TTEno
        PROVE  u.tt[<<s, x.tteNo>>].status # "Empty"
    <3>1. <<s, x.tteNo>> \in Slot
      BY <2>2 DEF Slot
    <3>2. u.tt[<<s, x.tteNo>>].status = t.tt[<<s, x.tteNo>>].status
      BY <1>3, <3>1, Zenon
    <3>3. t.tt[<<s, x.tteNo>>].status # "Empty"
      BY <1>1, <1>2, <2>2, ZenonT(40) DEF UseInv
    <3>. QED
      BY <3>2, <3>3, Zenon
  <2>3. ASSUME NEW a \in Slot
        PROVE  /\ u.tt[a].status \in {"Empty", "InUse", "Deleted"}
               /\ \A l \in DOMAIN u.tt[a].jumps : Code[u.tt[a].base].exits[l] \in Guest
    BY <1>1, <1>3, Zenon DEF UseInv
  <2>. QED
    BY <2>1, <2>2, <2>3 DEF UseInv
<1>. QED
  BY <1>6, <1>7, <1>8 DEF TableInv, u

(* A host address is resolved to a translation in use. *)
LEMMA FoundIsInUse ==
  ASSUME NEW t, TableInv(t), NEW h, NEW f \in find_TTEntry_from_hcode(t, h)
  PROVE  f \in Slot /\ InUse(t, f)
<1>1. PICK x \in t.hx[f[1]] : x.tteNo = f[2] /\ ~ HostExtent__is_dead(t, f[1], x)
  BY DEF find_TTEntry_from_hcode
<1>2. f \in Slot /\ f[1] \in Sector /\ f[2] \in TTEno /\ f = <<f[1], f[2]>>
  BY DEF find_TTEntry_from_hcode, Slot
<1>3. t.tt[f].status # "Deleted"
  BY <1>1, <1>2, Zenon DEF HostExtent__is_dead
<1>4. t.tt[f].status # "Empty"
  BY <1>1, <1>2, Zenon DEF TableInv, UseInv
<1>. QED
  BY <1>2, <1>3, <1>4 DEF TableInv, UseInv, InUse

(* What the hash tables find is in use. *)
LEMMA SearchFindsInUse ==
  ASSUME NEW t, TableInv(t), NEW g \in Guest, NEW a \in search_transtab(t, g)
  PROVE  a \in Slot /\ InUse(t, a)
<1>1. a \in Slot /\ a[1] \in Sector /\ a[2] \in TTEno /\ a = <<a[1], a[2]>>
  BY DEF search_transtab, Slot
<1>2. PICK j \in HttIx : t.htt[a[1]][(Hash[g] + j) % NHttes] = a[2]
  BY DEF search_transtab
<1>3. (Hash[g] + j) % NHttes \in HttIx
  <2>1. Hash[g] \in HttIx
    BY CodeAssumption
  <2>2. Hash[g] \in Int /\ j \in Int /\ NHttes \in Nat /\ NHttes > 0
    BY <2>1, SizeAssumption DEF HttIx
  <2>. QED
    BY <2>2 DEF HttIx
<1>. QED
  BY <1>1, <1>2, <1>3 DEF TableInv, UseInv

(* Chaining keeps the tables right. *)
LEMMA ChainKeeps ==
  ASSUME NEW t, TableInv(t), NEW h, NEW to \in Slot, InUse(t, to), MayChain(t, h)
  PROVE  TableInv(tt_tc_do_chaining(t, h, to))
<1>. DEFINE from == find_TTEntry_from_hcode(t, h)
            f == CHOOSE a \in from : TRUE
            k == h[2] - t.tt[f].tcptr
<1>1. CASE from = {}
  BY <1>1 DEF tt_tc_do_chaining
<1>2. CASE from # {}
  <2>1. f \in from
    BY <1>2
  <2>2. tt_tc_do_chaining(t, h, to) = Chained(t, f, k, to)
    BY <1>2 DEF tt_tc_do_chaining, Chained
  <2>3. k \in DOMAIN t.tt[f].jumps /\ t.tt[f].jumps[k] = NotChained
    BY <2>1 DEF MayChain
  <2>4. f \in Slot /\ InUse(t, f)
    BY <2>1, FoundIsInUse
  <2>. HIDE DEF f, k
  <2>. QED
    BY <2>2, <2>3, <2>4, ChainedKeeps
<1>. QED
  BY <1>1, <1>2

(* Discarding a range keeps the tables right. *)
LEMMA DiscardKeeps ==
  ASSUME NEW t, TableInv(t), NEW start, NEW range
  PROVE  TableInv(discard_translations(t, start, range))
<1>. DEFINE v == discard_translations(t, start, range)
<1>1. \E D \in SUBSET Slot :
        v = [delete_tte(t, D) EXCEPT
              !.fast = FastAfter(t, D),
              !.unredir = {g \in @ : ~ overlaps(start, range, g)}]
  BY ZenonT(40) DEF discard_translations
<1>2. PICK D \in SUBSET Slot :
        v = [delete_tte(t, D) EXCEPT
              !.fast = FastAfter(t, D),
              !.unredir = {g \in @ : ~ overlaps(start, range, g)}]
  BY <1>1, Zenon
<1>3. TableInv(delete_tte(t, D))
  BY DeleteKeeps
<1>4. Alike(delete_tte(t, D), v)
  BY <1>2, <1>3 DEF TableInv, ShapeInv, Alike, IsTable
<1>. QED
  BY <1>3, <1>4, AlikeKeeps

-----------------------------------------------------------------------------

(* The inductive invariant. *)
IInv == TableInv(tab) /\ active \subseteq Specs

(* A redirected address is one of the program. *)
LEMMA RedirInGuest ==
  ASSUME IInv, NEW g \in Guest
  PROVE  redir_do_lookup(g) \in Guest
  BY CodeAssumption DEF IInv, redir_do_lookup

(* Translating keeps the tables right. *)
LEMMA TranslateKeeps ==
  ASSUME IInv, NEW g \in Guest, NEW t \in Translations(g)
  PROVE  TableInv(t)
<1>. DEFINE base == redir_do_lookup(g)
            new == [tab EXCEPT !.info = @ \cup {base}]
            room == RoomFor(new, base)
<1>1. base \in Guest
  BY RedirInGuest
<1>2. PICK i \in FreeSlots(room) : t = AddAt(room, g, base, i)
  BY DEF Translations
<1>. HIDE DEF base
<1>3. Alike(tab, new)
  BY DEF IInv, TableInv, ShapeInv, Alike, IsTable
<1>4. TableInv(new)
  BY <1>3, AlikeKeeps DEF IInv
<1>. HIDE DEF new
<1>5. TableInv(room)
  BY <1>4, RoomKeeps
<1>. HIDE DEF room
<1>. QED
  BY <1>1, <1>2, <1>5, AddKeeps

(* The tables start empty. *)
LEMMA InitTables == Init => IInv
<1>. SUFFICES ASSUME Init PROVE IInv
  BY Zenon
<1>1. /\ IsTable(tab) /\ tab.youngest = 0
      /\ tab.tt = [a \in Slot |-> EmptyTTE]
      /\ tab.htt = [s \in Sector |-> [j \in HttIx |-> EMPTY]]
      /\ tab.hx = [s \in Sector |-> {}]
  BY DEF Init, IsTable
<1>2. /\ IsTTE(EmptyTTE) /\ EmptyTTE.status = "Empty" /\ EmptyTTE.in_edges = {}
      /\ EmptyTTE.out_edges = {} /\ DOMAIN EmptyTTE.jumps = {}
  BY DEF EmptyTTE, IsTTE
<1>3. 0 \in Sector
  BY SizeAssumption DEF Sector
<1>4. ShapeInv(tab)
  BY <1>1, <1>2, <1>3 DEF ShapeInv
<1>5. EdgeInv(tab)
  BY <1>1, <1>2, Zenon DEF EdgeInv
<1>6. UseInv(tab)
  BY <1>1, <1>2, SizeAssumption DEF UseInv
<1>. QED
  BY <1>4, <1>5, <1>6 DEF IInv, TableInv, Init

(* Every step keeps the tables right. *)
LEMMA StepKeeps == IInv /\ [Next]_vars => IInv'
<1>. SUFFICES ASSUME IInv, [Next]_vars PROVE IInv'
  OBVIOUS
<1>0. TableInv(tab) /\ active \subseteq Specs
  BY DEF IInv
<1>1. ASSUME NEW g \in Entries, handle_tt_miss(g)
      PROVE  IInv'
  <2>0. g \in Guest
    BY CodeAssumption
  <2>1. ASSUME NEW x, tab' = [tab EXCEPT !.fast = @ \cup {x}], active' = active
        PROVE  IInv'
    <3>1. Alike(tab, tab')
      BY <1>0, <2>1 DEF TableInv, ShapeInv, Alike, IsTable
    <3>. QED
      BY <1>0, <2>1, <3>1, AlikeKeeps DEF IInv
  <2>2. ASSUME tab' \in Translations(g), active' = active
        PROVE  IInv'
    BY <1>0, <2>0, <2>2, TranslateKeeps DEF IInv
  <2>. QED
    BY <1>0, <1>1, <2>1, <2>2, Zenon DEF handle_tt_miss, Stop, IInv
<1>2. ASSUME NEW g \in Entries, handle_noredir_jump(g)
      PROVE  IInv'
  <2>1. CASE UNCHANGED <<active, tab>>
    BY <1>0, <2>1 DEF IInv
  <2>2. ASSUME NEW kept,
               tab' = [tab EXCEPT !.unredir = kept \cup {g}, !.info = @ \cup {g}],
               active' = active
        PROVE  IInv'
    <3>1. Alike(tab, tab')
      BY <1>0, <2>2 DEF TableInv, ShapeInv, Alike, IsTable
    <3>. QED
      BY <1>0, <2>2, <3>1, AlikeKeeps DEF IInv
  <2>. QED
    BY <1>2, <2>1, <2>2, Zenon DEF handle_noredir_jump, Stop
<1>3. ASSUME NEW a \in Slot, NEW k \in DOMAIN tab.tt[a].jumps, handle_chain_me(a, k)
      PROVE  IInv'
  <2>. DEFINE e == tab.tt[a]
              ip == Code[e.base].exits[k]
              place == <<a[1], e.tcptr + k>>
              found == search_transtab(tab, ip)
              after == IF found # {} THEN {tab} ELSE Translations(ip)
  <2>1. ip \in Guest
    BY <1>0 DEF TableInv, UseInv
  <2>2. CASE UNCHANGED <<active, tab>>
    BY <1>0, <2>2 DEF IInv
  <2>3. ASSUME NEW t \in after, search_transtab(t, ip) # {}, MayChain(t, place),
               tab' = tt_tc_do_chaining(t, place, CHOOSE b \in search_transtab(t, ip) : TRUE),
               active' = active
        PROVE  IInv'
    <3>. DEFINE to == CHOOSE b \in search_transtab(t, ip) : TRUE
    <3>. HIDE DEF ip, place
    <3>1. TableInv(t)
      BY <1>0, <2>1, <2>3, TranslateKeeps
    <3>2. to \in search_transtab(t, ip)
      BY <2>3
    <3>. HIDE DEF to
    <3>3. to \in Slot /\ InUse(t, to)
      BY <2>1, <3>1, <3>2, SearchFindsInUse
    <3>4. TableInv(tt_tc_do_chaining(t, place, to))
      BY <2>3, <3>1, <3>3, ChainKeeps
    <3>. QED
      BY <1>0, <2>3, <3>4 DEF IInv, to
  <2>4. \/ UNCHANGED <<active, tab>>
        \/ \E t \in after :
             /\ search_transtab(t, ip) # {} /\ MayChain(t, place)
             /\ tab' = tt_tc_do_chaining(t, place, CHOOSE b \in search_transtab(t, ip) : TRUE)
             /\ active' = active
    BY <1>3, Zenon DEF handle_chain_me, Stop
  <2>. HIDE DEF after, ip, place
  <2>. QED
    BY <2>2, <2>3, <2>4, Zenon
<1>4. ASSUME NEW r \in Ranges, Discard(r)
      PROVE  IInv'
  BY <1>0, <1>4, DiscardKeeps DEF Discard, IInv
<1>5. ASSUME NEW act \in Specs, maybe_add_active(act) \/ redir_notify_delete_DebugInfo(act)
      PROVE  IInv'
  <2>1. /\ tab' = discard_translations(discard_translations(tab, act.from, 1), act.to, 1)
        /\ active' \subseteq Specs
    BY <1>0, <1>5 DEF maybe_add_active, redir_notify_delete_DebugInfo
  <2>2. TableInv(discard_translations(tab, act.from, 1))
    BY <1>0, DiscardKeeps
  <2>. QED
    BY <2>1, <2>2, DiscardKeeps DEF IInv
<1>6. CASE UNCHANGED vars
  BY <1>0, <1>6 DEF vars, IInv
<1>. QED
  BY <1>1, <1>2, <1>3, <1>4, <1>5, <1>6 DEF Next

(* The edges kept for unchaining mirror each other and stand for the jumps  *)
(* there are (tt_tc_do_chaining, unchain_in_preparation_for_deletion), for  *)
(* every program, table size and order of the operations.                   *)
THEOREM EdgesAreKept == Spec => []EdgesMatch
<1>1. IInv => EdgesMatch
  BY ZenonT(40) DEF IInv, TableInv, EdgeInv, EdgesMatch
<1>. QED
  BY InitTables, StepKeeps, <1>1, PTL DEF Spec

(* No chained jump ever goes to dead host code, for every program, table    *)
(* size and order of the operations.                                        *)
THEOREM ChainsAreLive == Spec => []JumpsLandOnLive
<1>1. IInv => JumpsLandOnLive
  <2>. SUFFICES ASSUME IInv, NEW a \in Slot, InUse(tab, a),
                       NEW k \in DOMAIN tab.tt[a].jumps, tab.tt[a].jumps[k] # NotChained
                PROVE  \E b \in Slot : InUse(tab, b) /\ tab.tt[a].jumps[k] = HostOf(tab, b)
    BY DEF JumpsLandOnLive
  <2>1. PICK b \in Slot : <<b, k>> \in tab.tt[a].out_edges
    BY DEF IInv, TableInv, EdgeInv
  <2>. QED
    BY <2>1 DEF IInv, TableInv, EdgeInv
<1>. QED
  BY InitTables, StepKeeps, <1>1, PTL DEF Spec

-----------------------------------------------------------------------------
(* The books of a sector: what the operations on the tables do to the hash  *)
(* table, the classes, the host extents, the fast cache and the information *)
(* the tool has, field by field.                                            *)

(* The fields of slot a that unchaining and chaining leave alone. *)
SameBlock(t, u, a) ==
  /\ u.tt[a].entry = t.tt[a].entry /\ u.tt[a].base = t.tt[a].base
  /\ u.tt[a].tcptr = t.tt[a].tcptr

(* f is a function on S. *)
IsFunctionOn(f, S) == f = [x \in S |-> f[x]]

(* The tables of classes, of free host code and of the hash are tables. *)
BookShape(t) ==
  /\ DOMAIN t.ec2tte = Sector /\ \A s \in Sector : DOMAIN t.ec2tte[s] = EClass
  /\ DOMAIN t.tc_next = Sector /\ IsFunctionOn(t.tc_next, Sector)
  /\ IsFunctionOn(t.htt, Sector) /\ \A s \in Sector : IsFunctionOn(t.htt[s], HttIx)

(* v is t with the translations of D deleted. *)
Deletes(t, v, D) ==
  /\ BookShape(v)
  /\ \A a \in Slot : SameBlock(t, v, a) /\ (InUse(v, a) <=> InUse(t, a) /\ a \notin D)
  /\ \A s \in Sector : \A j \in HttIx :
       v.htt[s][j] = IF <<s, t.htt[s][j]>> \in D THEN DELETED ELSE t.htt[s][j]
  /\ \A s \in Sector : \A ec \in EClass :
       v.ec2tte[s][ec] = {i \in t.ec2tte[s][ec] : <<s, i>> \notin D}
  /\ v.hx = t.hx /\ v.tc_next = t.tc_next
  /\ v.info = t.info \ {t.tt[d].base : d \in D}

(* v is t with sector s emptied. *)
Empties(t, v, s) ==
  /\ BookShape(v)
  /\ \A a \in Slot :
       /\ a[1] # s => SameBlock(t, v, a) /\ (InUse(v, a) <=> InUse(t, a))
       /\ a[1] = s => ~ InUse(v, a)
  /\ \A r \in Sector \ {s} :
       /\ v.htt[r] = t.htt[r] /\ v.ec2tte[r] = t.ec2tte[r]
       /\ v.hx[r] = t.hx[r] /\ v.tc_next[r] = t.tc_next[r]
  /\ \A j \in HttIx : v.htt[s][j] = EMPTY
  /\ \A ec \in EClass : v.ec2tte[s][ec] = {}
  /\ v.hx[s] = {} /\ v.tc_next[s] = 0
  /\ v.fast = {} /\ v.unredir = t.unredir
  /\ v.info = t.info \ {t.tt[d].base : d \in {a \in Slot : a[1] = s /\ InUse(t, a)}}

(* v is t with the block at base, entered at g, in slot i of the youngest   *)
(* sector.                                                                  *)
Adds(t, v, g, base, i) ==
  LET y == t.youngest
      n == <<y, i>>
      at == t.tc_next[y]
  IN  /\ BookShape(v)
      /\ \A a \in Slot \ {n} : SameBlock(t, v, a) /\ (InUse(v, a) <=> InUse(t, a))
      /\ InUse(v, n) /\ v.tt[n].entry = g /\ v.tt[n].base = base /\ v.tt[n].tcptr = at
      /\ \A s \in Sector \ {y} :
           /\ v.htt[s] = t.htt[s] /\ v.ec2tte[s] = t.ec2tte[s]
           /\ v.hx[s] = t.hx[s] /\ v.tc_next[s] = t.tc_next[s]
      /\ v.htt[y] = [t.htt[y] EXCEPT ![FreeHtt(t.htt[y], g)] = i]
      /\ \A ec \in EClass :
           v.ec2tte[y][ec] = IF ec \in vexGuestExtents_to_eclasses(base)
                             THEN t.ec2tte[y][ec] \cup {i} ELSE t.ec2tte[y][ec]
      /\ v.hx[y] = t.hx[y] \cup {[start |-> at, len |-> Code[base].len, tteNo |-> i]}
      /\ v.tc_next[y] = at + Code[base].len
      /\ v.fast = t.fast \cup {<<g, <<y, at>>>>}
      /\ v.unredir = t.unredir /\ v.info = t.info

(* The sectors of v are those of t but for jumps and edges. *)
SameSlots(t, v) ==
  /\ \A a \in Slot : SameBlock(t, v, a) /\ (InUse(v, a) <=> InUse(t, a))
  /\ v.htt = t.htt /\ v.ec2tte = t.ec2tte /\ v.hx = t.hx /\ v.tc_next = t.tc_next

(* v is t but for jumps and edges. *)
SameBook(t, v) ==
  SameSlots(t, v) /\ v.fast = t.fast /\ v.unredir = t.unredir /\ v.info = t.info

(* Functions are closed under EXCEPT. *)
LEMMA ExceptIsFunction ==
  ASSUME NEW S, NEW f, IsFunctionOn(f, S), NEW y, NEW e, NEW v, v = [f EXCEPT ![y] = e]
  PROVE  IsFunctionOn(v, S)
<1>. DEFINE g == [x \in S |-> IF x = y THEN e ELSE f[x]]
<1>1. DOMAIN f = S
  BY DEF IsFunctionOn
<1>2. v = g
  BY <1>1, Zenon
<1>3. g = [x \in S |-> g[x]]
  BY Zenon
<1>. QED
  BY <1>2, <1>3 DEF IsFunctionOn

(* What unchaining leaves alone. *)
LEMMA UnchainedBook ==
  ASSUME NEW t, ShapeInv(t), NEW D \in SUBSET Slot
  PROVE  LET u == Unchained(t, D)
         IN  /\ IsTable(u) /\ DOMAIN u.tt = Slot
             /\ u.ec2tte = t.ec2tte /\ u.tc_next = t.tc_next /\ u.fast = t.fast
             /\ u.unredir = t.unredir /\ u.info = t.info
             /\ u.htt = t.htt /\ u.hx = t.hx /\ u.youngest = t.youngest
             /\ \A a \in Slot : IsTTE(u.tt[a]) /\ SameBlock(t, u, a)
                                /\ u.tt[a].status = t.tt[a].status
<1>. DEFINE u == Unchained(t, D)
<1>1. /\ IsTable(u) /\ DOMAIN u.tt = Slot
      /\ u.ec2tte = t.ec2tte /\ u.tc_next = t.tc_next /\ u.fast = t.fast
      /\ u.unredir = t.unredir /\ u.info = t.info
      /\ u.htt = t.htt /\ u.hx = t.hx /\ u.youngest = t.youngest
  BY Zenon DEF ShapeInv, IsTable, Unchained
<1>2. ASSUME NEW a \in Slot
      PROVE  /\ IsTTE(u.tt[a]) /\ SameBlock(t, u, a)
             /\ u.tt[a].status = t.tt[a].status
  <2>. DEFINE into == UNION {t.tt[d].in_edges : d \in D}
              c == t.tt[a]
              gone == [c EXCEPT !.jumps = [k \in DOMAIN c.jumps |-> NotChained],
                                !.in_edges = {}, !.out_edges = {}]
              left == [c EXCEPT !.jumps = [k \in DOMAIN c.jumps |->
                                            IF <<a, k>> \in into THEN NotChained ELSE c.jumps[k]],
                                !.in_edges = {x \in c.in_edges : x[1] \notin D},
                                !.out_edges = {x \in c.out_edges : x[1] \notin D}]
  <2>1. u.tt[a] = IF a \in D THEN gone ELSE left
    BY DEF ShapeInv, IsTable, Unchained
  <2>2. IsTTE(c)
    BY DEF ShapeInv
  <2>. HIDE DEF c, into, u
  <2>3. /\ IsTTE(gone) /\ gone.entry = c.entry /\ gone.base = c.base
        /\ gone.tcptr = c.tcptr /\ gone.status = c.status
    BY <2>2 DEF IsTTE
  <2>4. /\ IsTTE(left) /\ left.entry = c.entry /\ left.base = c.base
        /\ left.tcptr = c.tcptr /\ left.status = c.status
    BY <2>2 DEF IsTTE
  <2>. HIDE DEF gone, left
  <2>. QED
    BY <2>1, <2>3, <2>4 DEF SameBlock, c
<1>. HIDE DEF u
<1>. QED
  BY <1>1, <1>2 DEF u

(* What delete_tte does. *)
LEMMA DeleteEffect ==
  ASSUME NEW t, ShapeInv(t), BookShape(t), NEW D \in SUBSET Slot
  PROVE  LET v == delete_tte(t, D)
         IN  IsTable(v) /\ Deletes(t, v, D) /\ v.fast = t.fast /\ v.unredir = t.unredir
<1>. DEFINE u == Unchained(t, D)
            v == delete_tte(t, D)
<1>1. /\ IsTable(u) /\ DOMAIN u.tt = Slot
      /\ u.ec2tte = t.ec2tte /\ u.tc_next = t.tc_next /\ u.fast = t.fast
      /\ u.unredir = t.unredir /\ u.info = t.info
      /\ u.htt = t.htt /\ u.hx = t.hx /\ u.youngest = t.youngest
      /\ \A a \in Slot : IsTTE(u.tt[a]) /\ SameBlock(t, u, a)
                         /\ u.tt[a].status = t.tt[a].status
  BY UnchainedBook
<1>. HIDE DEF u
<1>2. /\ IsTable(v)
      /\ v.hx = t.hx /\ v.tc_next = t.tc_next /\ v.fast = t.fast /\ v.unredir = t.unredir
      /\ v.info = t.info \ {t.tt[d].base : d \in D}
      /\ v.tt = [a \in Slot |-> IF a \in D THEN [u.tt[a] EXCEPT !.status = "Deleted"] ELSE u.tt[a]]
      /\ v.htt = [s \in Sector |-> [j \in HttIx |->
                   IF <<s, t.htt[s][j]>> \in D THEN DELETED ELSE t.htt[s][j]]]
      /\ v.ec2tte = [s \in Sector |-> [ec \in EClass |->
                      {i \in t.ec2tte[s][ec] : <<s, i>> \notin D}]]
  BY <1>1 DEF IsTable, delete_tte, ToldToTool, u
<1>. HIDE DEF v
<1>3. ASSUME NEW a \in Slot
      PROVE  SameBlock(t, v, a) /\ (InUse(v, a) <=> InUse(t, a) /\ a \notin D)
  <2>1. IsTTE(u.tt[a]) /\ SameBlock(t, u, a) /\ u.tt[a].status = t.tt[a].status
    BY <1>1
  <2>2. v.tt[a] = IF a \in D THEN [u.tt[a] EXCEPT !.status = "Deleted"] ELSE u.tt[a]
    BY <1>2
  <2>. QED
    BY <2>1, <2>2, Zenon DEF IsTTE, SameBlock, InUse
<1>4. BookShape(v)
  <2>1. IsFunctionOn(v.htt, Sector) /\ \A s \in Sector : IsFunctionOn(v.htt[s], HttIx)
    BY <1>2 DEF IsFunctionOn
  <2>. QED
    BY <1>2, <2>1 DEF BookShape
<1>5. Deletes(t, v, D)
  BY <1>2, <1>3, <1>4 DEF Deletes
<1>. QED
  BY <1>2, <1>5, Zenon DEF v

(* What initialiseSector does. *)
LEMMA EmptyEffect ==
  ASSUME NEW t, ShapeInv(t), BookShape(t), NEW s \in Sector
  PROVE  IsTable(initialiseSector(t, s)) /\ Empties(t, initialiseSector(t, s), s)
<1>. DEFINE E == {a \in Slot : a[1] = s /\ InUse(t, a)}
            u == Unchained(t, E)
            v == initialiseSector(t, s)
<1>1. /\ IsTable(u) /\ DOMAIN u.tt = Slot
      /\ u.ec2tte = t.ec2tte /\ u.tc_next = t.tc_next /\ u.fast = t.fast
      /\ u.unredir = t.unredir /\ u.info = t.info
      /\ u.htt = t.htt /\ u.hx = t.hx /\ u.youngest = t.youngest
      /\ \A a \in Slot : IsTTE(u.tt[a]) /\ SameBlock(t, u, a)
                         /\ u.tt[a].status = t.tt[a].status
  BY UnchainedBook, ZenonT(40)
<1>. HIDE DEF u
<1>2. /\ IsTable(v)
      /\ v.tt = [a \in Slot |-> IF a[1] = s THEN EmptyTTE ELSE u.tt[a]]
      /\ v.htt = [t.htt EXCEPT ![s] = [j \in HttIx |-> EMPTY]]
      /\ v.ec2tte = [t.ec2tte EXCEPT ![s] = [ec \in EClass |-> {}]]
      /\ v.hx = [t.hx EXCEPT ![s] = {}]
      /\ v.tc_next = [t.tc_next EXCEPT ![s] = 0]
      /\ v.fast = {} /\ v.unredir = t.unredir
      /\ v.info = t.info \ {t.tt[d].base : d \in E}
  BY <1>1, Zenon DEF IsTable, initialiseSector, ToldToTool, u
<1>. HIDE DEF v
<1>3. ASSUME NEW a \in Slot
      PROVE  /\ a[1] # s => SameBlock(t, v, a) /\ (InUse(v, a) <=> InUse(t, a))
             /\ a[1] = s => ~ InUse(v, a)
  <2>1. v.tt[a] = IF a[1] = s THEN EmptyTTE ELSE u.tt[a]
    BY <1>2
  <2>2. CASE a[1] = s
    <3>1. v.tt[a].status = "Empty"
      BY <2>1, <2>2 DEF EmptyTTE
    <3>. QED
      BY <2>2, <3>1, Zenon DEF InUse
  <2>3. CASE a[1] # s
    <3>1. v.tt[a] = u.tt[a] /\ SameBlock(t, u, a) /\ u.tt[a].status = t.tt[a].status
      BY <1>1, <2>1, <2>3, Zenon
    <3>. QED
      BY <2>3, <3>1 DEF SameBlock, InUse
  <2>. QED
    BY <2>2, <2>3
<1>4. /\ \A r \in Sector \ {s} :
           /\ v.htt[r] = t.htt[r] /\ v.ec2tte[r] = t.ec2tte[r]
           /\ v.hx[r] = t.hx[r] /\ v.tc_next[r] = t.tc_next[r]
      /\ \A j \in HttIx : v.htt[s][j] = EMPTY
      /\ \A ec \in EClass : v.ec2tte[s][ec] = {}
      /\ v.hx[s] = {} /\ v.tc_next[s] = 0
  BY <1>2 DEF ShapeInv, BookShape
<1>5. BookShape(v)
  <2>1. /\ DOMAIN v.ec2tte = Sector /\ \A r \in Sector : DOMAIN v.ec2tte[r] = EClass
        /\ DOMAIN v.tc_next = Sector
    BY <1>2, Zenon DEF BookShape
  <2>2. IsFunctionOn(v.tc_next, Sector) /\ IsFunctionOn(v.htt, Sector)
    <3>1. IsFunctionOn(t.tc_next, Sector) /\ IsFunctionOn(t.htt, Sector)
      BY Zenon DEF BookShape
    <3>2. v.htt = [t.htt EXCEPT ![s] = [j \in HttIx |-> EMPTY]]
      BY <1>2
    <3>3. v.tc_next = [t.tc_next EXCEPT ![s] = 0]
      BY <1>2
    <3>4. IsFunctionOn(v.htt, Sector)
      BY <3>1, <3>2, ExceptIsFunction, Zenon
    <3>. QED
      BY <3>1, <3>3, <3>4, ExceptIsFunction, Zenon
  <2>3. v.htt[s] = [j \in HttIx |-> EMPTY]
    BY <1>2 DEF ShapeInv
  <2>4. IsFunctionOn(v.htt[s], HttIx)
    BY <2>3 DEF IsFunctionOn
  <2>. QED
    BY <1>4, <2>1, <2>2, <2>4, Zenon DEF BookShape
<1>. QED
  BY <1>2, <1>3, <1>4, <1>5, ZenonT(40) DEF Empties, v

(* What adding a translation does. *)
LEMMA AddEffect ==
  ASSUME NEW t, ShapeInv(t), BookShape(t), NEW g, NEW base, NEW i \in TTEno
  PROVE  Adds(t, AddAt(t, g, base, i), g, base, i)
<1>. DEFINE y == t.youngest
            n == <<y, i>>
            at == t.tc_next[y]
            v == AddAt(t, g, base, i)
            new == [status |-> "InUse", entry |-> g, base |-> base, tcptr |-> at,
                    jumps |-> [k \in DOMAIN Code[base].exits |-> NotChained],
                    in_edges |-> {}, out_edges |-> {}]
            ecs == vexGuestExtents_to_eclasses(base)
            x == [start |-> at, len |-> Code[base].len, tteNo |-> i]
<1>1. y \in Sector /\ n \in Slot
  BY Zenon DEF ShapeInv, Slot
<1>. HIDE DEF ecs
<1>2. /\ v.tt = [t.tt EXCEPT ![n] = new]
      /\ v.htt = [t.htt EXCEPT ![y] = [@ EXCEPT ![FreeHtt(t.htt[y], g)] = i]]
      /\ v.hx = [t.hx EXCEPT ![y] = @ \cup {x}]
      /\ v.ec2tte = [t.ec2tte EXCEPT ![y] = [ec \in EClass |->
                       IF ec \in ecs THEN @[ec] \cup {i} ELSE @[ec]]]
      /\ v.tc_next = [t.tc_next EXCEPT ![y] = at + Code[base].len]
      /\ v.fast = t.fast \cup {<<g, <<y, at>>>>}
      /\ v.unredir = t.unredir /\ v.info = t.info
  BY DEF ShapeInv, IsTable, AddAt, ecs
<1>. HIDE DEF v, x
<1>3. /\ \A a \in Slot \ {n} : v.tt[a] = t.tt[a]
      /\ v.tt[n] = new
  BY <1>1, <1>2, ZenonT(40) DEF ShapeInv
<1>4. new.status = "InUse" /\ new.entry = g /\ new.base = base /\ new.tcptr = at
  BY Zenon
<1>. HIDE DEF new, at, n
<1>5. \A a \in Slot \ {n} : SameBlock(t, v, a) /\ (InUse(v, a) <=> InUse(t, a))
  BY <1>3 DEF SameBlock, InUse
<1>6. InUse(v, n) /\ v.tt[n].entry = g /\ v.tt[n].base = base /\ v.tt[n].tcptr = at
  BY <1>3, <1>4 DEF InUse
<1>. HIDE DEF y
<1>7. \A s \in Sector \ {y} :
        /\ v.htt[s] = t.htt[s] /\ v.ec2tte[s] = t.ec2tte[s]
        /\ v.hx[s] = t.hx[s] /\ v.tc_next[s] = t.tc_next[s]
  BY <1>1, <1>2, Zenon DEF ShapeInv, BookShape
<1>8. /\ v.htt[y] = [t.htt[y] EXCEPT ![FreeHtt(t.htt[y], g)] = i]
      /\ v.hx[y] = t.hx[y] \cup {x}
      /\ v.tc_next[y] = at + Code[base].len
      /\ \A ec \in EClass :
           v.ec2tte[y][ec] = IF ec \in ecs THEN t.ec2tte[y][ec] \cup {i} ELSE t.ec2tte[y][ec]
  <2>1. /\ DOMAIN t.htt = Sector /\ DOMAIN t.hx = Sector
        /\ DOMAIN t.tc_next = Sector /\ DOMAIN t.ec2tte = Sector
    BY Zenon DEF ShapeInv, BookShape
  <2>2. v.htt[y] = [t.htt[y] EXCEPT ![FreeHtt(t.htt[y], g)] = i]
    BY <1>1, <1>2, <2>1, Zenon
  <2>3. v.hx[y] = t.hx[y] \cup {x} /\ v.tc_next[y] = at + Code[base].len
    BY <1>1, <1>2, <2>1, Zenon
  <2>4. v.ec2tte[y] = [ec \in EClass |->
                         IF ec \in ecs THEN t.ec2tte[y][ec] \cup {i} ELSE t.ec2tte[y][ec]]
    BY <1>1, <1>2, <2>1, Zenon
  <2>. QED
    BY <2>2, <2>3, <2>4, Zenon
<1>9. BookShape(v)
  <2>1. /\ DOMAIN v.ec2tte = Sector /\ \A s \in Sector : DOMAIN v.ec2tte[s] = EClass
        /\ DOMAIN v.tc_next = Sector
    BY <1>1, <1>2, Zenon DEF BookShape
  <2>2. /\ IsFunctionOn(t.tc_next, Sector) /\ IsFunctionOn(t.htt, Sector)
        /\ IsFunctionOn(t.htt[y], HttIx)
    BY <1>1 DEF BookShape
  <2>3. v.htt = [t.htt EXCEPT ![y] = v.htt[y]]
    BY <1>2, <1>8, Zenon
  <2>4. IsFunctionOn(v.htt, Sector)
    BY <2>2, <2>3, ExceptIsFunction, Zenon
  <2>5. IsFunctionOn(v.htt[y], HttIx)
    <3>1. v.htt[y] = [t.htt[y] EXCEPT ![FreeHtt(t.htt[y], g)] = i]
      BY <1>8
    <3>. QED
      BY <2>2, <3>1, ExceptIsFunction, Zenon
  <2>6. IsFunctionOn(v.tc_next, Sector)
    <3>1. v.tc_next = [t.tc_next EXCEPT ![y] = at + Code[base].len]
      BY <1>2
    <3>. QED
      BY <2>2, <3>1, ExceptIsFunction, Zenon
  <2>. QED
    BY <1>1, <1>7, <2>1, <2>4, <2>5, <2>6 DEF BookShape
<1>. QED
  BY <1>2, <1>5, <1>6, <1>7, <1>8, <1>9, Zenon DEF Adds, v, y, n, at, x, ecs

(* What chaining leaves alone. *)
LEMMA ChainEffect ==
  ASSUME NEW t, TableInv(t), NEW h, NEW to \in Slot, MayChain(t, h)
  PROVE  LET v == tt_tc_do_chaining(t, h, to) IN IsTable(v) /\ SameBook(t, v)
<1>. DEFINE from == find_TTEntry_from_hcode(t, h)
            f == CHOOSE a \in from : TRUE
            k == h[2] - t.tt[f].tcptr
            u == Chained(t, f, k, to)
<1>0. ShapeInv(t)
  BY DEF TableInv
<1>1. CASE from = {}
  BY <1>0, <1>1, Zenon DEF tt_tc_do_chaining, SameBook, SameSlots, SameBlock, ShapeInv
<1>2. CASE from # {}
  <2>1. f \in from
    BY <1>2, Zenon
  <2>2. tt_tc_do_chaining(t, h, to) = u
    BY <1>2 DEF tt_tc_do_chaining, Chained
  <2>3. k \in DOMAIN t.tt[f].jumps
    BY <2>1 DEF MayChain
  <2>4. f \in Slot
    BY <2>1, FoundIsInUse, Zenon
  <2>. HIDE DEF f, k
  <2>5. /\ IsTable(u) /\ u.htt = t.htt /\ u.hx = t.hx
        /\ \A a \in Slot : ChainedAt(t, u, f, k, to, a)
    BY <1>0, <2>3, <2>4, ChainedEntry
  <2>6. /\ u.ec2tte = t.ec2tte /\ u.tc_next = t.tc_next
        /\ u.fast = t.fast /\ u.unredir = t.unredir /\ u.info = t.info
    BY <1>0 DEF Chained, ShapeInv, IsTable
  <2>7. \A a \in Slot : SameBlock(t, u, a) /\ (InUse(u, a) <=> InUse(t, a))
    BY <2>5, Zenon DEF ChainedAt, SameBlock, InUse
  <2>. QED
    BY <2>2, <2>5, <2>6, <2>7 DEF SameBook, SameSlots
<1>. QED
  BY <1>1, <1>2

-----------------------------------------------------------------------------
(* The invariant of the books.                                              *)

(* The addresses a redirection is about. *)
Froms == {s.from : s \in Specs}

(* The classes list the translations in use, each in every class of the    *)
(* block.                                                                   *)
ClassInv(t) ==
  /\ \A s \in Sector : \A ec \in EClass : \A i \in t.ec2tte[s][ec] :
       i \in TTEno /\ InUse(t, <<s, i>>)
  /\ \A a \in Slot : InUse(t, a) =>
       \A ec \in vexGuestExtents_to_eclasses(t.tt[a].base) : a[2] \in t.ec2tte[a[1]][ec]

(* The host code of a translation. *)
ExtentOf(t, a) ==
  [start |-> t.tt[a].tcptr, len |-> Code[t.tt[a].base].len, tteNo |-> a[2]]

(* A translation in use has its host extent; what other extents name its    *)
(* slot lie before it.                                                      *)
PlaceInv(t) ==
  /\ \A s \in Sector : t.tc_next[s] \in 0 .. TcSize
  /\ \A a \in Slot : InUse(t, a) =>
       /\ t.tt[a].entry \in Guest /\ t.tt[a].base \in Guest
       /\ t.tt[a].tcptr \in 0 .. TcSize - 1
       /\ ExtentOf(t, a) \in t.hx[a[1]]
  /\ \A s \in Sector : \A x \in t.hx[s] :
       /\ x.tteNo \in TTEno /\ x.start \in Nat /\ x.len \in Nat \ {0}
       /\ x.start + x.len <= t.tc_next[s]
       /\ InUse(t, <<s, x.tteNo>>) =>
            \/ x = ExtentOf(t, <<s, x.tteNo>>)
            \/ x.start + x.len <= t.tt[<<s, x.tteNo>>].tcptr

(* The index of a hash table that the probe for g looks at after j others. *)
Probe(g, j) == (Hash[g] + j) % NHttes

(* The probe for the entry of a comes to a before an empty index. *)
Reached(t, a) ==
  \E j \in HttIx :
    /\ t.htt[a[1]][Probe(t.tt[a].entry, j)] = a[2]
    /\ \A l \in 0 .. j - 1 : t.htt[a[1]][Probe(t.tt[a].entry, l)] # EMPTY

(* Every translation in use is in its hash table once, where the probe for *)
(* its entry finds it, and no two have the same entry.                      *)
HashInv(t) ==
  /\ \A s \in Sector : \A j \in HttIx : t.htt[s][j] \in TTEno \cup {EMPTY, DELETED}
  /\ \A s \in Sector : \A j, k \in HttIx :
       t.htt[s][j] \in TTEno /\ t.htt[s][j] = t.htt[s][k] => j = k
  /\ \A a \in Slot : InUse(t, a) => Reached(t, a)
  /\ \A a, b \in Slot :
       InUse(t, a) /\ InUse(t, b) /\ t.tt[a].entry = t.tt[b].entry => a = b

(* The tool has the information of the translations in use, no two of which *)
(* are of the same block, of those made past a redirection, which are other *)
(* blocks, of the blocks of new, which are about to be added, and of        *)
(* redirected blocks only.                                                  *)
InfoInv(t, new) ==
  /\ new \subseteq t.info /\ t.info \subseteq Guest
  /\ \A a \in Slot : InUse(t, a) =>
       t.tt[a].base \in t.info /\ t.tt[a].base \notin t.unredir \cup new
  /\ \A a, b \in Slot :
       InUse(t, a) /\ InUse(t, b) /\ t.tt[a].base = t.tt[b].base => a = b
  /\ \A g \in t.unredir : g \in t.info /\ g \in Froms /\ g \notin new
  /\ \A g \in t.info :
       \/ g \in Froms \cup new
       \/ \E a \in Slot : InUse(t, a) /\ t.tt[a].base = g

(* A translation that no redirection is about is of the block at its entry, *)
(* and what the fast cache holds for such an address is in use.             *)
FastInv(t) ==
  /\ t.fast \subseteq Guest \X Host
  /\ \A a \in Slot : InUse(t, a) /\ t.tt[a].entry \notin Froms =>
       t.tt[a].base = t.tt[a].entry
  /\ \A f \in t.fast : f[1] \notin Froms =>
       \E a \in Slot : InUse(t, a) /\ t.tt[a].entry = f[1] /\ HostOf(t, a) = f[2]

BookInv(t, new) ==
  BookShape(t) /\ ClassInv(t) /\ PlaceInv(t) /\ HashInv(t) /\ InfoInv(t, new) /\ FastInv(t)

(* A probe stays within the table. *)
LEMMA ProbeInTable ==
  ASSUME NEW g \in Guest, NEW j \in Nat
  PROVE  Probe(g, j) \in HttIx
<1>1. Hash[g] \in HttIx
  BY CodeAssumption
<1>2. Hash[g] \in Int /\ NHttes \in Nat /\ NHttes > 0
  BY <1>1, SizeAssumption DEF HttIx
<1>. QED
  BY <1>2 DEF Probe, HttIx

(* The classes of a block are classes. *)
LEMMA ClassesAreClasses ==
  ASSUME NEW base \in Guest
  PROVE  vexGuestExtents_to_eclasses(base) \subseteq EClass
<1>1. ASSUME NEW e \in Code[base].extents
      PROVE  range_to_eclass(e[1], e[2]) \in EClass
  <2>1. e[1] \in Int /\ e[2] \in Int /\ ClassSize \in Nat /\ ClassSize > 0
        /\ NClasses \in Nat /\ NClasses > 0
    BY SizeAssumption, ExtentAssumption
  <2>. DEFINE p == e[1] \div ClassSize
              q == (e[1] + e[2] - 1) \div ClassSize
  <2>2. p \in Int /\ q \in Int
    BY <2>1
  <2>3. range_to_eclass(e[1], e[2]) \in {p % NClasses, NClasses}
    BY DEF range_to_eclass, MISC
  <2>. HIDE DEF p, q
  <2>4. p % NClasses \in 0 .. NClasses - 1
    BY <2>1, <2>2
  <2>. QED
    BY <2>1, <2>3, <2>4 DEF EClass, MISC
<1>. QED
  BY <1>1 DEF vexGuestExtents_to_eclasses

-----------------------------------------------------------------------------
(* Operations that leave the sectors alone.                                 *)

(* The invariant does not look at jumps and edges, and the part of it about *)
(* the sectors looks at nothing else.                                       *)
LEMMA SameSlotsKeep ==
  ASSUME NEW t, NEW v, NEW new, BookInv(t, new), SameSlots(t, v)
  PROVE  /\ BookShape(v) /\ ClassInv(v) /\ PlaceInv(v) /\ HashInv(v)
         /\ v.fast = t.fast => FastInv(v)
         /\ v.unredir = t.unredir /\ v.info = t.info => InfoInv(v, new)
<1>0. BookShape(t) /\ ClassInv(t) /\ PlaceInv(t) /\ HashInv(t) /\ FastInv(t) /\ InfoInv(t, new)
  BY Zenon DEF BookInv
<1>1. BookShape(v)
  BY <1>0, Zenon DEF SameSlots, BookShape
<1>2. ClassInv(v)
  BY <1>0 DEF SameSlots, ClassInv, SameBlock, Slot
<1>3. PlaceInv(v)
  <2>1. \A a \in Slot : ExtentOf(v, a) = ExtentOf(t, a)
    BY DEF SameSlots, SameBlock, ExtentOf
  <2>. QED
    BY <1>0, <2>1, Zenon DEF SameSlots, PlaceInv, SameBlock, Slot
<1>4. HashInv(v)
  <2>1. \A a \in Slot : Reached(t, a) => Reached(v, a)
    BY Zenon DEF SameSlots, Reached, SameBlock
  <2>. QED
    BY <1>0, <2>1, Zenon DEF SameSlots, HashInv, SameBlock
<1>5. v.unredir = t.unredir /\ v.info = t.info => InfoInv(v, new)
  BY <1>0, Zenon DEF SameSlots, InfoInv, SameBlock
<1>6. v.fast = t.fast => FastInv(v)
  BY <1>0, Zenon DEF SameSlots, FastInv, SameBlock, HostOf
<1>. QED
  BY <1>1, <1>2, <1>3, <1>4, <1>5, <1>6

(* Chaining keeps the books. *)
LEMMA SameBookKeeps ==
  ASSUME NEW t, NEW v, NEW new, BookInv(t, new), SameBook(t, v)
  PROVE  BookInv(v, new)
  BY SameSlotsKeep DEF SameBook, BookInv

(* So does putting a translation in use in the fast cache. *)
LEMMA CachingKeeps ==
  ASSUME NEW t, NEW v, BookInv(t, {}), SameSlots(t, v), NEW g \in Guest,
         NEW c \in Slot, InUse(t, c), t.tt[c].entry = g,
         v.fast = t.fast \cup {<<g, HostOf(t, c)>>}, v.unredir = t.unredir, v.info = t.info
  PROVE  BookInv(v, {})
<1>1. PlaceInv(t) /\ FastInv(t)
  BY Zenon DEF BookInv
<1>2. \A a \in Slot : /\ InUse(v, a) <=> InUse(t, a)
                     /\ v.tt[a].entry = t.tt[a].entry /\ v.tt[a].base = t.tt[a].base
                     /\ HostOf(v, a) = HostOf(t, a)
  BY DEF SameSlots, SameBlock, HostOf
<1>. DEFINE h == HostOf(t, c)
<1>3. <<g, h>> \in Guest \X Host
  <2>1. h \in Host
    BY <1>1, Zenon DEF PlaceInv, HostOf, Host, Slot
  <2>. QED
    BY <2>1, Zenon
<1>. HIDE DEF h
<1>4. ASSUME NEW f \in v.fast, f[1] \notin Froms
      PROVE  \E a \in Slot : InUse(v, a) /\ v.tt[a].entry = f[1] /\ HostOf(v, a) = f[2]
  <2>1. CASE f = <<g, h>>
    BY <1>2, <2>1, Zenon DEF h
  <2>2. CASE f \in t.fast
    BY <1>1, <1>2, <1>4, <2>2, Zenon DEF FastInv
  <2>. QED
    BY <2>1, <2>2 DEF h
<1>5. v.fast \subseteq Guest \X Host
  BY <1>1, <1>3 DEF FastInv, h
<1>6. FastInv(v)
  BY <1>1, <1>2, <1>4, <1>5, Zenon DEF FastInv
<1>. QED
  BY <1>6, SameSlotsKeep, Zenon DEF BookInv

(* So does information for a block about to be translated. *)
LEMMA TellingKeeps ==
  ASSUME NEW t, NEW v, BookInv(t, {}), SameSlots(t, v), NEW base \in Guest, base \notin t.info,
         v.fast = t.fast, v.unredir = t.unredir, v.info = t.info \cup {base}
  PROVE  BookInv(v, {base})
<1>1. InfoInv(t, {})
  BY DEF BookInv
<1>2. \A a \in Slot : (InUse(v, a) <=> InUse(t, a)) /\ v.tt[a].base = t.tt[a].base
  BY Zenon DEF SameSlots, SameBlock
<1>3. InfoInv(v, {base})
  BY <1>1, <1>2 DEF InfoInv
<1>. QED
  BY <1>3, SameSlotsKeep DEF BookInv

(* So does a translation made past a redirection. *)
LEMMA UnredirKeeps ==
  ASSUME NEW t, NEW v, BookInv(t, {}), SameSlots(t, v), NEW g \in Guest, g \notin t.info,
         g \in Froms, NEW kept \in SUBSET t.unredir,
         v.fast = t.fast, v.unredir = kept \cup {g}, v.info = t.info \cup {g}
  PROVE  BookInv(v, {})
<1>1. InfoInv(t, {})
  BY DEF BookInv
<1>2. \A a \in Slot : (InUse(v, a) <=> InUse(t, a)) /\ v.tt[a].base = t.tt[a].base
  BY Zenon DEF SameSlots, SameBlock
<1>3. InfoInv(v, {})
  BY <1>1, <1>2 DEF InfoInv
<1>. QED
  BY <1>3, SameSlotsKeep, Zenon DEF BookInv

-----------------------------------------------------------------------------
(* Deleting translations and emptying a sector.                             *)

(* The slots of every class are in use after a deletion, and it loses none. *)
LEMMA DeleteKeepsClasses ==
  ASSUME NEW t, TableInv(t), BookInv(t, {}), NEW D \in SUBSET Slot, \A d \in D : InUse(t, d),
         NEW v, Deletes(t, v, D)
  PROVE  ClassInv(v)
<1>a. ClassInv(t) /\ PlaceInv(t)
  BY DEF BookInv
<1>b. \A a \in Slot : SameBlock(t, v, a) /\ (InUse(v, a) <=> InUse(t, a) /\ a \notin D)
  BY Zenon DEF Deletes
<1>1. ASSUME NEW s \in Sector, NEW ec \in EClass, NEW i \in v.ec2tte[s][ec]
      PROVE  i \in TTEno /\ InUse(v, <<s, i>>)
  <2>1. i \in t.ec2tte[s][ec] /\ <<s, i>> \notin D
    BY DEF Deletes
  <2>. QED
    BY <1>a, <1>b, <2>1, Zenon DEF ClassInv, Slot
<1>2. ASSUME NEW a \in Slot, InUse(v, a),
             NEW ec \in vexGuestExtents_to_eclasses(v.tt[a].base)
      PROVE  a[2] \in v.ec2tte[a[1]][ec]
  <2>1. InUse(t, a) /\ a \notin D /\ v.tt[a].base = t.tt[a].base
    BY <1>b, <1>2, Zenon DEF SameBlock
  <2>2. a[2] \in t.ec2tte[a[1]][ec]
    BY <1>a, <1>2, <2>1, Zenon DEF ClassInv
  <2>3. ec \in EClass /\ a[1] \in Sector /\ <<a[1], a[2]>> = a
    <3>1. a[1] \in Sector /\ <<a[1], a[2]>> = a
      BY DEF Slot
    <3>2. t.tt[a].base \in Guest
      BY <1>a, <2>1, Zenon DEF PlaceInv
    <3>. QED
      BY <2>1, <3>1, <3>2, ClassesAreClasses, Zenon
  <2>. QED
    BY <2>1, <2>2, <2>3 DEF Deletes
<1>. QED
  BY <1>1, <1>2 DEF ClassInv

(* A deletion moves no code. *)
LEMMA DeleteKeepsPlaces ==
  ASSUME NEW t, TableInv(t), BookInv(t, {}), NEW D \in SUBSET Slot, \A d \in D : InUse(t, d),
         NEW v, Deletes(t, v, D)
  PROVE  PlaceInv(v)
<1>a. PlaceInv(t)
  BY DEF BookInv
<1>b. \A a \in Slot : SameBlock(t, v, a) /\ (InUse(v, a) <=> InUse(t, a) /\ a \notin D)
  BY DEF Deletes
<1>1. \A a \in Slot : ExtentOf(v, a) = ExtentOf(t, a)
  BY <1>b, Zenon DEF SameBlock, ExtentOf
<1>2. v.hx = t.hx /\ v.tc_next = t.tc_next
  BY DEF Deletes
<1>. QED
  BY <1>a, <1>b, <1>1, <1>2, Zenon DEF PlaceInv, SameBlock, Slot

(* A search that went past a deleted entry still goes past it. *)
LEMMA DeleteKeepsHash ==
  ASSUME NEW t, TableInv(t), BookInv(t, {}), NEW D \in SUBSET Slot, \A d \in D : InUse(t, d),
         NEW v, Deletes(t, v, D)
  PROVE  HashInv(v)
<1>a. PlaceInv(t) /\ HashInv(t)
  BY Zenon DEF BookInv
<1>b. \A a \in Slot : SameBlock(t, v, a) /\ (InUse(v, a) <=> InUse(t, a) /\ a \notin D)
  BY DEF Deletes
<1>1. ASSUME NEW s \in Sector, NEW j \in HttIx
      PROVE  /\ <<s, t.htt[s][j]>> \in D => v.htt[s][j] = DELETED
             /\ <<s, t.htt[s][j]>> \notin D => v.htt[s][j] = t.htt[s][j]
  BY DEF Deletes
<1>2. ASSUME NEW a \in Slot, InUse(v, a)
      PROVE  Reached(v, a)
  <2>1. InUse(t, a) /\ a \notin D /\ v.tt[a].entry = t.tt[a].entry
    BY <1>b, <1>2, Zenon DEF SameBlock
  <2>2. a[1] \in Sector /\ a[2] \in TTEno /\ a = <<a[1], a[2]>> /\ t.tt[a].entry \in Guest
    <3>1. a[1] \in Sector /\ a[2] \in TTEno /\ a = <<a[1], a[2]>>
      BY DEF Slot
    <3>2. t.tt[a].entry \in Guest
      BY <1>a, <2>1, Zenon DEF PlaceInv
    <3>. QED
      BY <3>1, <3>2, Zenon
  <2>3. PICK j \in HttIx :
          /\ t.htt[a[1]][Probe(t.tt[a].entry, j)] = a[2]
          /\ \A l \in 0 .. j - 1 : t.htt[a[1]][Probe(t.tt[a].entry, l)] # EMPTY
    BY <1>a, <2>1, ZenonT(40) DEF HashInv, Reached
  <2>4. j \in Nat /\ Probe(t.tt[a].entry, j) \in HttIx
    <3>1. j \in Nat
      BY SizeAssumption DEF HttIx
    <3>. QED
      BY <2>2, <3>1, ProbeInTable, Zenon
  <2>5. v.htt[a[1]][Probe(t.tt[a].entry, j)] = a[2]
    BY <1>1, <2>1, <2>2, <2>3, <2>4
  <2>6. ASSUME NEW l \in 0 .. j - 1
        PROVE  v.htt[a[1]][Probe(t.tt[a].entry, l)] # EMPTY
    <3>1. Probe(t.tt[a].entry, l) \in HttIx
      BY <2>2, <2>4, ProbeInTable
    <3>2. EMPTY # DELETED
      BY DEF EMPTY, DELETED
    <3>. QED
      BY <1>1, <2>2, <2>3, <3>1, <3>2, Zenon
  <2>. QED
    BY <2>1, <2>5, <2>6, Zenon DEF Reached
<1>3. ASSUME NEW s \in Sector, NEW j \in HttIx, v.htt[s][j] \in TTEno
      PROVE  v.htt[s][j] = t.htt[s][j]
  BY <1>1, <1>3, SizeAssumption, Zenon
<1>4. \A s \in Sector : \A j \in HttIx : v.htt[s][j] \in TTEno \cup {EMPTY, DELETED}
  BY <1>a, <1>1, ZenonT(40) DEF HashInv
<1>5. ASSUME NEW s \in Sector, NEW j \in HttIx, NEW k \in HttIx,
             v.htt[s][j] \in TTEno, v.htt[s][j] = v.htt[s][k]
      PROVE  j = k
  BY <1>a, <1>3, <1>5, Zenon DEF HashInv
<1>6. ASSUME NEW a \in Slot, NEW b \in Slot,
             InUse(v, a), InUse(v, b), v.tt[a].entry = v.tt[b].entry
      PROVE  a = b
  BY <1>a, <1>b, <1>6, Zenon DEF HashInv, SameBlock
<1>. QED
  BY <1>2, <1>4, <1>5, <1>6 DEF HashInv

(* The information goes with the translations it is about. *)
LEMMA DeleteKeepsInfo ==
  ASSUME NEW t, TableInv(t), BookInv(t, {}), NEW D \in SUBSET Slot, \A d \in D : InUse(t, d),
         NEW v, Deletes(t, v, D), v.unredir \subseteq t.unredir
  PROVE  InfoInv(v, {})
<1>a. InfoInv(t, {})
  BY Zenon DEF BookInv
<1>b. \A a \in Slot : SameBlock(t, v, a) /\ (InUse(v, a) <=> InUse(t, a) /\ a \notin D)
  BY Zenon DEF Deletes
<1>1. v.info = t.info \ {t.tt[d].base : d \in D}
  BY Zenon DEF Deletes
<1>2. ASSUME NEW a \in Slot, InUse(v, a)
      PROVE  v.tt[a].base \in v.info /\ v.tt[a].base \notin v.unredir
  <2>1. InUse(t, a) /\ a \notin D /\ v.tt[a].base = t.tt[a].base
    BY <1>b, <1>2, Zenon DEF SameBlock
  <2>2. t.tt[a].base \in t.info /\ t.tt[a].base \notin t.unredir
    BY <1>a, <2>1, Zenon DEF InfoInv
  <2>3. ASSUME NEW d \in D PROVE t.tt[d].base # t.tt[a].base
    <3>1. d \in Slot /\ InUse(t, d) /\ d # a
      BY <2>1, Zenon
    <3>. QED
      BY <1>a, <2>1, <3>1, Zenon DEF InfoInv
  <2>. QED
    BY <1>1, <2>1, <2>2, <2>3, Zenon
<1>3. ASSUME NEW g \in v.unredir
      PROVE  g \in v.info /\ g \in Froms
  <2>1. g \in t.unredir /\ g \in t.info /\ g \in Froms
    BY <1>a, Zenon DEF InfoInv
  <2>2. ASSUME NEW d \in D PROVE t.tt[d].base # g
    <3>1. d \in Slot /\ InUse(t, d)
      BY Zenon
    <3>2. t.tt[d].base \notin t.unredir
      BY <1>a, <3>1, Zenon DEF InfoInv
    <3>. QED
      BY <2>1, <3>2, Zenon
  <2>. QED
    BY <1>1, <2>1, <2>2, Zenon
<1>4. ASSUME NEW g \in v.info
      PROVE  g \in Froms \/ \E a \in Slot : InUse(v, a) /\ v.tt[a].base = g
  <2>. SUFFICES ASSUME g \notin Froms
                PROVE  \E a \in Slot : InUse(v, a) /\ v.tt[a].base = g
    BY Zenon
  <2>1. PICK a \in Slot : InUse(t, a) /\ t.tt[a].base = g
    BY <1>a, <1>1, Zenon DEF InfoInv
  <2>2. a \notin D
    BY <1>1, <2>1, Zenon
  <2>. QED
    BY <1>b, <2>1, <2>2, Zenon DEF SameBlock
<1>5. ASSUME NEW a \in Slot, NEW b \in Slot,
             InUse(v, a), InUse(v, b), v.tt[a].base = v.tt[b].base
      PROVE  a = b
  <2>1. InUse(t, a) /\ InUse(t, b) /\ t.tt[a].base = t.tt[b].base
    BY <1>b, <1>5, Zenon DEF SameBlock
  <2>. QED
    BY <1>a, <2>1, Zenon DEF InfoInv
<1>6. v.info \subseteq Guest
  BY <1>a, <1>1, Zenon DEF InfoInv
<1>. QED
  BY <1>2, <1>3, <1>4, <1>5, <1>6, Zenon DEF InfoInv

(* The fast cache keeps no deleted translation. *)
LEMMA DeleteKeepsFast ==
  ASSUME NEW t, TableInv(t), BookInv(t, {}), NEW D \in SUBSET Slot, \A d \in D : InUse(t, d),
         NEW v, Deletes(t, v, D), v.fast = FastAfter(t, D)
  PROVE  FastInv(v)
<1>a. FastInv(t)
  BY Zenon DEF BookInv
<1>b. \A a \in Slot : SameBlock(t, v, a) /\ (InUse(v, a) <=> InUse(t, a) /\ a \notin D)
  BY Zenon DEF Deletes
<1>1. v.fast \subseteq t.fast
  BY DEF FastAfter
<1>2. ASSUME NEW f \in v.fast, f[1] \notin Froms
      PROVE  \E a \in Slot : InUse(v, a) /\ v.tt[a].entry = f[1] /\ HostOf(v, a) = f[2]
  <2>1. PICK a \in Slot : InUse(t, a) /\ t.tt[a].entry = f[1] /\ HostOf(t, a) = f[2]
    BY <1>a, <1>1, <1>2 DEF FastInv
  <2>2. a \notin D
    <3>1. ~ (Cardinality(D) > 1) /\ f[1] \notin {t.tt[d].base : d \in D}
      BY <1>2, Zenon DEF FastAfter
    <3>2. t.tt[a].base = f[1]
      BY <1>a, <1>2, <2>1, Zenon DEF FastInv
    <3>. QED
      BY <3>1, <3>2, Zenon
  <2>. QED
    BY <1>b, <2>1, <2>2, Zenon DEF SameBlock, HostOf
<1>. QED
  BY <1>a, <1>b, <1>1, <1>2, Zenon DEF FastInv, SameBlock

(* Deleting translations in use keeps the books. *)
LEMMA DeleteKeepsBooks ==
  ASSUME NEW t, TableInv(t), BookInv(t, {}), NEW D \in SUBSET Slot, \A d \in D : InUse(t, d),
         NEW v, Deletes(t, v, D), v.fast = FastAfter(t, D), v.unredir \subseteq t.unredir
  PROVE  BookInv(v, {})
<1>1. BookShape(v)
  BY DEF Deletes
<1>. QED
  BY <1>1, DeleteKeepsClasses, DeleteKeepsPlaces, DeleteKeepsHash, DeleteKeepsInfo,
     DeleteKeepsFast, Zenon DEF BookInv

(* A translation in use after a sector is emptied is one of another sector, *)
(* and what it was.                                                         *)
LEMMA EmptiedSlot ==
  ASSUME NEW t, NEW v, NEW s \in Sector, Empties(t, v, s), NEW a \in Slot, InUse(v, a)
  PROVE  /\ a[1] \in Sector \ {s} /\ InUse(t, a) /\ v.tt[a].entry = t.tt[a].entry
         /\ v.tt[a].base = t.tt[a].base /\ v.tt[a].tcptr = t.tt[a].tcptr
         /\ a = <<a[1], a[2]>>
<1>1. /\ a[1] # s => SameBlock(t, v, a) /\ (InUse(v, a) <=> InUse(t, a))
      /\ a[1] = s => ~ InUse(v, a)
  BY DEF Empties
<1>. QED
  BY <1>1 DEF Slot, SameBlock

(* The classes of the other sectors stay. *)
LEMMA EmptyKeepsClasses ==
  ASSUME NEW t, NEW new, BookInv(t, new), NEW s \in Sector, NEW v, Empties(t, v, s)
  PROVE  ClassInv(v)
<1>a. ClassInv(t)
  BY Zenon DEF BookInv
<1>b. \A a \in Slot :
        /\ a[1] # s => SameBlock(t, v, a) /\ (InUse(v, a) <=> InUse(t, a))
        /\ a[1] = s => ~ InUse(v, a)
  BY Zenon DEF Empties
<1>c. \A r \in Sector \ {s} :
        /\ v.htt[r] = t.htt[r] /\ v.ec2tte[r] = t.ec2tte[r]
        /\ v.hx[r] = t.hx[r] /\ v.tc_next[r] = t.tc_next[r]
  BY Zenon DEF Empties
<1>d. /\ \A j \in HttIx : v.htt[s][j] = EMPTY
      /\ \A ec \in EClass : v.ec2tte[s][ec] = {}
      /\ v.hx[s] = {} /\ v.tc_next[s] = 0
  BY Zenon DEF Empties
<1>1. ASSUME NEW r \in Sector, NEW ec \in EClass, NEW i \in v.ec2tte[r][ec]
      PROVE  i \in TTEno /\ InUse(v, <<r, i>>)
  <2>1. r # s /\ i \in t.ec2tte[r][ec]
    BY <1>c, <1>d
  <2>2. i \in TTEno /\ InUse(t, <<r, i>>) /\ <<r, i>> \in Slot
    BY <1>a, <2>1 DEF ClassInv, Slot
  <2>. QED
    BY <1>b, <2>1, <2>2, Zenon
<1>2. ASSUME NEW a \in Slot, InUse(v, a),
             NEW ec \in vexGuestExtents_to_eclasses(v.tt[a].base)
      PROVE  a[2] \in v.ec2tte[a[1]][ec]
  <2>1. InUse(t, a) /\ v.tt[a].base = t.tt[a].base /\ a[1] \in Sector \ {s}
    BY <1>2, EmptiedSlot
  <2>2. a[2] \in t.ec2tte[a[1]][ec]
    BY <1>a, <1>2, <2>1, Zenon DEF ClassInv
  <2>. QED
    BY <1>c, <2>1, <2>2
<1>. QED
  BY <1>1, <1>2 DEF ClassInv

(* So does their code. *)
LEMMA EmptyKeepsPlaces ==
  ASSUME NEW t, NEW new, BookInv(t, new), NEW s \in Sector, NEW v, Empties(t, v, s)
  PROVE  PlaceInv(v)
<1>a. PlaceInv(t)
  BY Zenon DEF BookInv
<1>c. \A r \in Sector \ {s} :
        /\ v.htt[r] = t.htt[r] /\ v.ec2tte[r] = t.ec2tte[r]
        /\ v.hx[r] = t.hx[r] /\ v.tc_next[r] = t.tc_next[r]
  BY Zenon DEF Empties
<1>d. /\ \A j \in HttIx : v.htt[s][j] = EMPTY
      /\ \A ec \in EClass : v.ec2tte[s][ec] = {}
      /\ v.hx[s] = {} /\ v.tc_next[s] = 0
  BY Zenon DEF Empties
<1>1. \A r \in Sector : v.tc_next[r] \in 0 .. TcSize
  BY <1>a, <1>c, <1>d, SizeAssumption DEF PlaceInv
<1>2. ASSUME NEW a \in Slot, InUse(v, a)
      PROVE  /\ v.tt[a].entry \in Guest /\ v.tt[a].base \in Guest
             /\ v.tt[a].tcptr \in 0 .. TcSize - 1
             /\ ExtentOf(v, a) \in v.hx[a[1]]
  <2>1. /\ InUse(t, a) /\ v.tt[a].entry = t.tt[a].entry /\ v.tt[a].base = t.tt[a].base
        /\ v.tt[a].tcptr = t.tt[a].tcptr /\ v.hx[a[1]] = t.hx[a[1]]
    BY <1>c, <1>2, EmptiedSlot
  <2>. QED
    BY <1>a, <2>1, Zenon DEF PlaceInv, ExtentOf
<1>3. ASSUME NEW r \in Sector, NEW x \in v.hx[r]
      PROVE  /\ x.tteNo \in TTEno /\ x.start \in Nat /\ x.len \in Nat \ {0}
             /\ x.start + x.len <= v.tc_next[r]
             /\ InUse(v, <<r, x.tteNo>>) =>
                  \/ x = ExtentOf(v, <<r, x.tteNo>>)
                  \/ x.start + x.len <= v.tt[<<r, x.tteNo>>].tcptr
  <2>1. r # s /\ x \in t.hx[r] /\ v.tc_next[r] = t.tc_next[r]
    BY <1>c, <1>d, Zenon
  <2>2. x.tteNo \in TTEno /\ <<r, x.tteNo>> \in Slot
    BY <1>a, <2>1, Zenon DEF PlaceInv, Slot
  <2>. QED
    <3>1. /\ x.start \in Nat /\ x.len \in Nat \ {0} /\ x.start + x.len <= v.tc_next[r]
          /\ InUse(t, <<r, x.tteNo>>) =>
               \/ x = ExtentOf(t, <<r, x.tteNo>>)
               \/ x.start + x.len <= t.tt[<<r, x.tteNo>>].tcptr
      BY <1>a, <2>1, Zenon DEF PlaceInv
    <3>2. ASSUME InUse(v, <<r, x.tteNo>>)
          PROVE  /\ InUse(t, <<r, x.tteNo>>)
                 /\ v.tt[<<r, x.tteNo>>].tcptr = t.tt[<<r, x.tteNo>>].tcptr
                 /\ v.tt[<<r, x.tteNo>>].base = t.tt[<<r, x.tteNo>>].base
      BY <2>2, <3>2, EmptiedSlot
    <3>. QED
      BY <2>2, <3>1, <3>2, Zenon DEF ExtentOf
<1>. QED
  BY <1>1, <1>2, <1>3, Zenon DEF PlaceInv

(* So do their hash tables. *)
LEMMA EmptyKeepsHash ==
  ASSUME NEW t, NEW new, BookInv(t, new), NEW s \in Sector, NEW v, Empties(t, v, s)
  PROVE  HashInv(v)
<1>a. HashInv(t)
  BY Zenon DEF BookInv
<1>c. \A r \in Sector \ {s} :
        /\ v.htt[r] = t.htt[r] /\ v.ec2tte[r] = t.ec2tte[r]
        /\ v.hx[r] = t.hx[r] /\ v.tc_next[r] = t.tc_next[r]
  BY DEF Empties
<1>d. /\ \A j \in HttIx : v.htt[s][j] = EMPTY
      /\ \A ec \in EClass : v.ec2tte[s][ec] = {}
      /\ v.hx[s] = {} /\ v.tc_next[s] = 0
  BY DEF Empties
<1>1. ASSUME NEW a \in Slot, InUse(v, a)
      PROVE  Reached(v, a)
  <2>1. Reached(t, a)
    BY <1>a, <1>1, EmptiedSlot DEF HashInv
  <2>2. v.htt[a[1]] = t.htt[a[1]] /\ v.tt[a].entry = t.tt[a].entry
    BY <1>c, <1>1, EmptiedSlot
  <2>. QED
    BY <2>1, <2>2, Zenon DEF Reached
<1>2. ASSUME NEW r \in Sector, NEW j \in HttIx
      PROVE  v.htt[r][j] \in TTEno \cup {EMPTY, DELETED}
  BY <1>a, <1>c, <1>d, Zenon DEF HashInv
<1>3. ASSUME NEW r \in Sector, NEW j \in HttIx, NEW k \in HttIx,
             v.htt[r][j] \in TTEno, v.htt[r][j] = v.htt[r][k]
      PROVE  j = k
  <2>1. r # s
    BY <1>d, <1>3, SizeAssumption
  <2>. QED
    BY <1>a, <1>c, <1>3, <2>1 DEF HashInv
<1>4. ASSUME NEW a \in Slot, NEW b \in Slot,
             InUse(v, a), InUse(v, b), v.tt[a].entry = v.tt[b].entry
      PROVE  a = b
  <2>1. InUse(t, a) /\ InUse(t, b) /\ t.tt[a].entry = t.tt[b].entry
    BY <1>4, EmptiedSlot
  <2>. QED
    BY <1>a, <1>4, <2>1, Zenon DEF HashInv
<1>. QED
  BY <1>1, <1>2, <1>3, <1>4 DEF HashInv

(* The information about the translations of the sector goes. *)
LEMMA EmptyKeepsInfo ==
  ASSUME NEW t, NEW new, BookInv(t, new), NEW s \in Sector, NEW v, Empties(t, v, s)
  PROVE  InfoInv(v, new)
<1>a. InfoInv(t, new)
  BY Zenon DEF BookInv
<1>b. \A a \in Slot :
        /\ a[1] # s => SameBlock(t, v, a) /\ (InUse(v, a) <=> InUse(t, a))
        /\ a[1] = s => ~ InUse(v, a)
  BY Zenon DEF Empties
<1>. DEFINE E == {a \in Slot : a[1] = s /\ InUse(t, a)}
<1>1. v.info = t.info \ {t.tt[d].base : d \in E} /\ v.unredir = t.unredir
  BY DEF Empties
<1>2. ASSUME NEW a \in Slot, InUse(v, a)
      PROVE  v.tt[a].base \in v.info /\ v.tt[a].base \notin v.unredir \cup new
  BY <1>a, <1>1, <1>2, EmptiedSlot DEF InfoInv
<1>3. ASSUME NEW g \in v.unredir
      PROVE  g \in v.info /\ g \in Froms /\ g \notin new
  BY <1>a, <1>1 DEF InfoInv
<1>4. ASSUME NEW g \in v.info
      PROVE  g \in Froms \cup new \/ \E a \in Slot : InUse(v, a) /\ v.tt[a].base = g
  <2>1. CASE \E a \in Slot : InUse(t, a) /\ t.tt[a].base = g
    <3>1. PICK a \in Slot : InUse(t, a) /\ t.tt[a].base = g
      BY <2>1
    <3>2. a \notin E
      BY <1>1, <3>1, Zenon
    <3>. QED
      BY <1>b, <3>1, <3>2, Zenon DEF SameBlock
  <2>. QED
    BY <1>a, <1>1, <2>1 DEF InfoInv
<1>5. new \subseteq v.info /\ v.info \subseteq Guest
  BY <1>a, <1>1 DEF InfoInv
<1>6. ASSUME NEW a \in Slot, NEW b \in Slot,
             InUse(v, a), InUse(v, b), v.tt[a].base = v.tt[b].base
      PROVE  a = b
  BY <1>a, <1>6, EmptiedSlot DEF InfoInv
<1>. QED
  BY <1>2, <1>3, <1>4, <1>5, <1>6, Zenon DEF InfoInv

(* The fast cache is emptied. *)
LEMMA EmptyKeepsFast ==
  ASSUME NEW t, NEW new, BookInv(t, new), NEW s \in Sector, NEW v, Empties(t, v, s)
  PROVE  FastInv(v)
<1>a. FastInv(t)
  BY DEF BookInv
<1>1. v.fast = {}
  BY DEF Empties
<1>. QED
  BY <1>a, <1>1, EmptiedSlot DEF FastInv

(* Emptying a sector keeps the books. *)
LEMMA EmptyKeepsBooks ==
  ASSUME NEW t, TableInv(t), NEW new, BookInv(t, new), NEW s \in Sector,
         NEW v, Empties(t, v, s)
  PROVE  BookInv(v, new)
<1>1. BookShape(v)
  BY DEF Empties
<1>. QED
  BY <1>1, EmptyKeepsClasses, EmptyKeepsPlaces, EmptyKeepsHash, EmptyKeepsInfo,
     EmptyKeepsFast, Zenon DEF BookInv
=============================================================================
