------------------------ MODULE TransTabSteps_proofs ------------------------
(***************************************************************************)
(* The steps of the translation table and the books of the sectors: adding *)
(* a translation, discarding a range, making room, translating and         *)
(* redirecting keep the invariant of the books, and what follows for the   *)
(* properties of TransTab.                                                 *)
(***************************************************************************)
EXTENDS TransTab_proofs, FiniteSetTheorems, WellFoundedInduction

(* Probing a hash table.                                                    *)

(* A nonempty set of naturals has a least element. *)
LEMMA LeastNat ==
  ASSUME NEW S \in SUBSET Nat, S # {}
  PROVE  \E n \in S : \A k \in S : n <= k
<1>. DEFINE less == {ss \in Nat \X Nat : ss[1] < ss[2]}
<1>1. IsWellFoundedOn(less, Nat)
  BY NatLessThanWellFounded DEF OpToRel
<1>2. PICK n \in S : \A k \in S : <<k, n>> \notin less
  <2>. HIDE DEF less
  <2>. QED
    BY <1>1, WFMin, Zenon
<1>3. \A k \in S : k \in Nat /\ n \in Nat /\ ~(k < n)
  BY <1>2, Zenon
<1>. QED
  BY <1>3

(* Every index comes up in a probe. *)
LEMMA ProbeIsOnto ==
  ASSUME NEW g \in Guest, NEW p \in HttIx
  PROVE  \E j \in HttIx : Probe(g, j) = p
<1>1. Hash[g] \in HttIx /\ NHttes \in Nat
  BY CodeAssumption, SizeAssumption
<1>. DEFINE h == Hash[g]
            N == NHttes
<1>2. h \in Nat /\ p \in Nat /\ h < N /\ p < N /\ N \in Nat
  BY <1>1 DEF HttIx
<1>. HIDE DEF h, N
<1>3. CASE h <= p
  <2>1. p - h \in 0 .. N - 1 /\ (h + (p - h)) % N = p
    BY <1>2, <1>3
  <2>. QED
    BY <2>1 DEF Probe, HttIx, h, N
<1>4. CASE h > p
  <2>1. p + N - h \in 0 .. N - 1
    BY <1>2, <1>4
  <2>2. (h + (p + N - h)) % N = (p + N) % N
    BY <1>2
  <2>3. (p + N) % N = p
    BY <1>2
  <2>. QED
    BY <2>1, <2>2, <2>3 DEF Probe, HttIx, h, N
<1>. QED
  BY <1>2, <1>3, <1>4

(* A hash table is never full: it has more indices than the sector slots.   *)
LEMMA SomeIndexIsFree ==
  ASSUME NEW t, ShapeInv(t), HashInv(t), NEW s \in Sector
  PROVE  \E p \in HttIx : t.htt[s][p] \in {EMPTY, DELETED}
<1>. SUFFICES ASSUME \A p \in HttIx : t.htt[s][p] \notin {EMPTY, DELETED}
              PROVE  FALSE
  OBVIOUS
<1>. DEFINE f == [p \in HttIx |-> t.htt[s][p]]
<1>1. f \in [HttIx -> TTEno]
  BY DEF HashInv
<1>2. Cardinality(TTEno) \in Nat
  BY SizeAssumption, FS_CardinalityType
<1>3. IsFiniteSet(HttIx) /\ Cardinality(HttIx) = NHttes
  <2>1. 0 \in Int /\ NHttes - 1 \in Int /\ NHttes \in Nat /\ NHttes > 0
    BY <1>2, SizeAssumption
  <2>. QED
    BY <2>1, FS_Interval DEF HttIx
<1>4. Cardinality(TTEno) < Cardinality(HttIx)
  BY <1>2, <1>3, SizeAssumption
<1>. HIDE DEF f
<1>5. PICK x, y \in HttIx : x # y /\ f[x] = f[y]
  BY <1>1, <1>3, <1>4, SizeAssumption, FS_PigeonHole
<1>. QED
  BY <1>1, <1>5 DEF HashInv, f

(* add_to_transtab puts the slot at the first free index of the probe. *)
LEMMA FreeHttIsFirst ==
  ASSUME NEW t, ShapeInv(t), HashInv(t), NEW s \in Sector, NEW g \in Guest
  PROVE  \E j \in HttIx :
           /\ FreeHtt(t.htt[s], g) = Probe(g, j)
           /\ t.htt[s][Probe(g, j)] \in {EMPTY, DELETED}
           /\ \A l \in 0 .. j - 1 : t.htt[s][Probe(g, l)] \notin {EMPTY, DELETED}
<1>. DEFINE h == t.htt[s]
            free(j) == h[Probe(g, j)] \in {EMPTY, DELETED}
            S == {j \in HttIx : free(j)}
            first == CHOOSE j \in HttIx : free(j) /\ \A l \in 0 .. j - 1 : ~ free(l)
<1>1. PICK p \in HttIx : h[p] \in {EMPTY, DELETED}
  BY SomeIndexIsFree
<1>2. S # {}
  <2>1. PICK j \in HttIx : Probe(g, j) = p
    BY ProbeIsOnto
  <2>. QED
    BY <1>1, <2>1
<1>3. S \in SUBSET Nat
  BY DEF HttIx
<1>4. PICK j \in S : \A k \in S : j <= k
  <2>. HIDE DEF S
  <2>. QED
    BY <1>2, <1>3, LeastNat
<1>5. \A l \in 0 .. j - 1 : l \in HttIx /\ ~ (j <= l)
  BY <1>4, SizeAssumption DEF HttIx
<1>6. j \in HttIx /\ free(j) /\ \A l \in 0 .. j - 1 : ~ free(l)
  BY <1>4, <1>5
<1>. HIDE DEF free
<1>7. first \in HttIx /\ free(first) /\ \A l \in 0 .. first - 1 : ~ free(l)
  BY <1>6
<1>8. FreeHtt(t.htt[s], g) = Probe(g, first)
  BY DEF FreeHtt, Probe, first, free, h
<1>. HIDE DEF first
<1>. QED
  BY <1>7, <1>8 DEF free

-----------------------------------------------------------------------------
(* Adding a translation, and searching for one.                             *)

(* Adding a translation puts it in its classes... *)
LEMMA AddKeepsClasses ==
  ASSUME NEW t, ShapeInv(t), NEW g \in Guest, NEW base \in Guest, NEW i \in FreeSlots(t),
         NEW v, Adds(t, v, g, base, i),
         ClassInv(t), PlaceInv(t)
  PROVE  ClassInv(v)
<1>. DEFINE y == t.youngest
            n == <<y, i>>
            ecs == vexGuestExtents_to_eclasses(base)
<1>1. y \in Sector /\ i \in TTEno /\ n \in Slot /\ ~ InUse(t, n) /\ n[1] = y /\ n[2] = i
  BY DEF ShapeInv, FreeSlots, Slot
<1>2. /\ \A a \in Slot \ {n} : SameBlock(t, v, a) /\ (InUse(v, a) <=> InUse(t, a))
      /\ InUse(v, n) /\ v.tt[n].entry = g /\ v.tt[n].base = base
  BY Zenon DEF Adds
<1>3. \A s \in Sector \ {y} : v.ec2tte[s] = t.ec2tte[s]
  BY Zenon DEF Adds
<1>4. \A ec \in EClass :
        v.ec2tte[y][ec] = IF ec \in ecs THEN t.ec2tte[y][ec] \cup {i} ELSE t.ec2tte[y][ec]
  BY Zenon DEF Adds
<1>5. ASSUME NEW a \in Slot, InUse(v, a), a # n
      PROVE  /\ InUse(t, a) /\ v.tt[a].entry = t.tt[a].entry
             /\ v.tt[a].base = t.tt[a].base /\ v.tt[a].tcptr = t.tt[a].tcptr
  BY <1>2, <1>5 DEF SameBlock
<1>6. \A a \in Slot : a[1] \in Sector /\ a[2] \in TTEno /\ a = <<a[1], a[2]>>
  BY DEF Slot
<1>. HIDE DEF n, y, ecs
<1>7. ASSUME NEW s \in Sector, NEW ec \in EClass, NEW k \in v.ec2tte[s][ec]
      PROVE  k \in TTEno /\ InUse(v, <<s, k>>)
  <2>1. k \in t.ec2tte[s][ec] \/ (s = y /\ k = i)
    <3>1. CASE s = y
      BY <1>4, <3>1, ZenonT(40)
    <3>2. CASE s # y
      BY <1>3, <3>2
    <3>. QED
      BY <3>1, <3>2
  <2>2. CASE k \in t.ec2tte[s][ec]
    <3>1. k \in TTEno /\ InUse(t, <<s, k>>) /\ <<s, k>> \in Slot
      BY <2>2 DEF ClassInv, Slot
    <3>. QED
      BY <1>1, <1>2, <3>1, Zenon
  <2>3. CASE s = y /\ k = i
    BY <1>1, <1>2, <2>3, Zenon DEF n
  <2>. QED
    BY <2>1, <2>2, <2>3, Zenon
<1>8. ASSUME NEW a \in Slot, InUse(v, a),
             NEW ec \in vexGuestExtents_to_eclasses(v.tt[a].base)
      PROVE  a[2] \in v.ec2tte[a[1]][ec]
  <2>1. CASE a = n
    <3>1. ec \in ecs /\ ec \in EClass
      BY <1>2, <1>8, <2>1, ClassesAreClasses, Zenon DEF ecs
    <3>. QED
      BY <1>1, <1>4, <2>1, <3>1, ZenonT(40)
  <2>2. CASE a # n
    <3>1. InUse(t, a) /\ v.tt[a].base = t.tt[a].base
      BY <1>5, <1>8, <2>2
    <3>2. a[2] \in t.ec2tte[a[1]][ec] /\ ec \in EClass
      BY <1>8, <3>1, ClassesAreClasses, Zenon DEF ClassInv, PlaceInv
    <3>. QED
      BY <1>3, <1>4, <1>6, <3>2, ZenonT(40)
  <2>. QED
    BY <2>1, <2>2
<1>. QED
  BY <1>7, <1>8 DEF ClassInv

(* There is room for the host code of the block at base after the code of y. *)
LEMMA RoomIsLeft ==
  ASSUME NEW t, PlaceInv(t), NEW y \in Sector, NEW base \in Guest,
         TcSize - t.tc_next[y] >= Code[base].len
  PROVE  /\ t.tc_next[y] \in 0 .. TcSize - 1 /\ t.tc_next[y] \in Nat
         /\ Code[base].len \in Nat \ {0}
         /\ t.tc_next[y] + Code[base].len \in 0 .. TcSize
<1>1. t.tc_next[y] \in 0 .. TcSize /\ Code[base].len \in 1 .. TcSize /\ TcSize \in Nat
  BY CodeAssumption, SizeAssumption DEF PlaceInv
<1>. QED
  BY <1>1

(* ... after all the host code of its sector... *)
LEMMA AddKeepsPlaces ==
  ASSUME NEW t, ShapeInv(t), NEW g \in Guest, NEW base \in Guest, NEW i \in FreeSlots(t),
         NEW v, Adds(t, v, g, base, i),
         PlaceInv(t), TcSize - t.tc_next[t.youngest] >= Code[base].len
  PROVE  PlaceInv(v)
<1>. DEFINE y == t.youngest
            n == <<y, i>>
            at == t.tc_next[y]
            x == [start |-> at, len |-> Code[base].len, tteNo |-> i]
<1>1. y \in Sector /\ i \in TTEno /\ n \in Slot /\ ~ InUse(t, n) /\ n[1] = y /\ n[2] = i
  BY DEF ShapeInv, FreeSlots, Slot
<1>2. /\ \A a \in Slot \ {n} : SameBlock(t, v, a) /\ (InUse(v, a) <=> InUse(t, a))
      /\ InUse(v, n) /\ v.tt[n].entry = g /\ v.tt[n].base = base /\ v.tt[n].tcptr = at
  BY Zenon DEF Adds
<1>3. \A s \in Sector \ {y} : v.hx[s] = t.hx[s] /\ v.tc_next[s] = t.tc_next[s]
  BY Zenon DEF Adds
<1>4. v.hx[y] = t.hx[y] \cup {x} /\ v.tc_next[y] = at + Code[base].len
  BY Zenon DEF Adds
<1>5. ASSUME NEW a \in Slot, InUse(v, a), a # n
      PROVE  /\ InUse(t, a) /\ v.tt[a].entry = t.tt[a].entry
             /\ v.tt[a].base = t.tt[a].base /\ v.tt[a].tcptr = t.tt[a].tcptr
  BY <1>2, <1>5, ZenonT(40) DEF SameBlock
<1>6. \A a \in Slot : a[1] \in Sector /\ a[2] \in TTEno /\ a = <<a[1], a[2]>>
  BY DEF Slot
<1>7. /\ at \in 0 .. TcSize - 1 /\ at \in Nat /\ Code[base].len \in Nat \ {0}
      /\ at + Code[base].len \in 0 .. TcSize
  BY <1>1, RoomIsLeft, Zenon
<1>. HIDE DEF n, at, y
<1>8. \A s \in Sector : v.tc_next[s] \in 0 .. TcSize
  <2>1. v.tc_next[y] \in 0 .. TcSize
    BY <1>4, <1>7, Zenon
  <2>. QED
    BY <1>3, <2>1 DEF PlaceInv
<1>9. ASSUME NEW a \in Slot, InUse(v, a)
      PROVE  /\ v.tt[a].entry \in Guest /\ v.tt[a].base \in Guest
             /\ v.tt[a].tcptr \in 0 .. TcSize - 1
             /\ ExtentOf(v, a) \in v.hx[a[1]]
  <2>1. CASE a = n
    <3>1. ExtentOf(v, a) = x
      BY <1>1, <1>2, <2>1, Zenon DEF ExtentOf
    <3>. QED
      BY <1>1, <1>2, <1>4, <1>7, <2>1, <3>1, ZenonT(40)
  <2>2. CASE a # n
    <3>1. /\ InUse(t, a) /\ v.tt[a].entry = t.tt[a].entry
          /\ v.tt[a].base = t.tt[a].base /\ v.tt[a].tcptr = t.tt[a].tcptr
      BY <1>5, <1>9, <2>2, Zenon
    <3>2. ExtentOf(v, a) = ExtentOf(t, a)
      BY <3>1 DEF ExtentOf
    <3>3. t.hx[a[1]] \subseteq v.hx[a[1]]
      BY <1>3, <1>4, <1>6, Zenon
    <3>. QED
      BY <3>1, <3>2, <3>3, Zenon DEF PlaceInv
  <2>. QED
    BY <2>1, <2>2
<1>10. ASSUME NEW s \in Sector, NEW z \in v.hx[s]
      PROVE  /\ z.tteNo \in TTEno /\ z.start \in Nat /\ z.len \in Nat \ {0}
             /\ z.start + z.len <= v.tc_next[s]
             /\ InUse(v, <<s, z.tteNo>>) =>
                  \/ z = ExtentOf(v, <<s, z.tteNo>>)
                  \/ z.start + z.len <= v.tt[<<s, z.tteNo>>].tcptr
  <2>1. CASE s = y /\ z = x
    <3>1. z.tteNo = i /\ z.start = at /\ z.len = Code[base].len /\ <<s, z.tteNo>> = n
      BY <2>1 DEF n
    <3>2. z = ExtentOf(v, n)
      BY <1>1, <1>2, <2>1, Zenon DEF ExtentOf
    <3>3. at \in Nat /\ Code[base].len \in Nat \ {0}
      BY <1>7, Zenon
    <3>. QED
      BY <1>1, <1>4, <1>7, <2>1, <3>1, <3>2, <3>3, SMTT(30)
  <2>2. CASE z \in t.hx[s]
    <3>1. /\ z.tteNo \in TTEno /\ z.start \in Nat /\ z.len \in Nat \ {0}
          /\ z.start + z.len <= t.tc_next[s]
          /\ InUse(t, <<s, z.tteNo>>) =>
               \/ z = ExtentOf(t, <<s, z.tteNo>>)
               \/ z.start + z.len <= t.tt[<<s, z.tteNo>>].tcptr
      BY <2>2 DEF PlaceInv
    <3>2. t.tc_next[s] \in Nat /\ v.tc_next[s] \in Nat /\ t.tc_next[s] <= v.tc_next[s]
      <4>1. CASE s = y
        BY <1>4, <1>7, <4>1 DEF at
      <4>2. CASE s # y
        <5>1. v.tc_next[s] = t.tc_next[s] /\ t.tc_next[s] \in 0 .. TcSize
          BY <1>3, <4>2, Zenon DEF PlaceInv
        <5>. QED
          BY <5>1, <1>7
      <4>. QED
        BY <4>1, <4>2, Zenon
    <3>3. z.start + z.len <= v.tc_next[s]
      BY <3>1, <3>2
    <3>4. CASE <<s, z.tteNo>> = n
      <4>1. s = y
        BY <3>4, Zenon DEF n
      <4>. QED
        BY <1>2, <3>1, <3>3, <3>4, <4>1, Zenon DEF at
    <3>5. CASE <<s, z.tteNo>> # n
      <4>1. <<s, z.tteNo>> \in Slot
        BY <3>1, Zenon DEF Slot
      <4>2. InUse(v, <<s, z.tteNo>>) =>
              /\ InUse(t, <<s, z.tteNo>>)
              /\ ExtentOf(v, <<s, z.tteNo>>) = ExtentOf(t, <<s, z.tteNo>>)
              /\ v.tt[<<s, z.tteNo>>].tcptr = t.tt[<<s, z.tteNo>>].tcptr
        BY <1>5, <3>5, <4>1, Zenon DEF ExtentOf
      <4>. QED
        BY <3>1, <3>3, <4>2, Zenon
    <3>. QED
      BY <3>4, <3>5, Zenon
  <2>. QED
    BY <1>3, <1>4, <2>1, <2>2, ZenonT(40)
<1>. QED
  BY <1>8, <1>9, <1>10, ZenonT(40) DEF PlaceInv

(* ... in its hash table, where the probe comes to it... *)
LEMMA AddKeepsHash ==
  ASSUME NEW t, ShapeInv(t), NEW g \in Guest, NEW base \in Guest, NEW i \in FreeSlots(t),
         NEW v, Adds(t, v, g, base, i),
         PlaceInv(t), HashInv(t), UseInv(t),
         \A a \in Slot : InUse(t, a) => t.tt[a].entry # g
  PROVE  HashInv(v)
<1>. DEFINE y == t.youngest
            n == <<y, i>>
<1>1. y \in Sector /\ i \in TTEno /\ n \in Slot /\ ~ InUse(t, n) /\ n[1] = y /\ n[2] = i
  BY DEF ShapeInv, FreeSlots, Slot
<1>2. /\ \A a \in Slot \ {n} : SameBlock(t, v, a) /\ (InUse(v, a) <=> InUse(t, a))
      /\ InUse(v, n) /\ v.tt[n].entry = g /\ v.tt[n].base = base
  BY Zenon DEF Adds
<1>3. \A s \in Sector \ {y} : v.htt[s] = t.htt[s]
  BY Zenon DEF Adds
<1>4. v.htt[y] = [t.htt[y] EXCEPT ![FreeHtt(t.htt[y], g)] = i]
  BY Zenon DEF Adds
<1>5. ASSUME NEW a \in Slot, InUse(v, a), a # n
      PROVE  /\ InUse(t, a) /\ v.tt[a].entry = t.tt[a].entry
             /\ v.tt[a].base = t.tt[a].base /\ v.tt[a].tcptr = t.tt[a].tcptr
  BY <1>2, <1>5, ZenonT(40) DEF SameBlock
<1>6. \A a \in Slot : a[1] \in Sector /\ a[2] \in TTEno /\ a = <<a[1], a[2]>>
  BY DEF Slot
<1>. HIDE DEF n, y
<1>7. PICK j \in HttIx :
        /\ FreeHtt(t.htt[y], g) = Probe(g, j)
        /\ t.htt[y][Probe(g, j)] \in {EMPTY, DELETED}
        /\ \A l \in 0 .. j - 1 : t.htt[y][Probe(g, l)] \notin {EMPTY, DELETED}
  BY <1>1, FreeHttIsFirst
<1>. DEFINE p == Probe(g, j)
<1>8. j \in Nat /\ p \in HttIx
  BY ProbeInTable, SizeAssumption DEF HttIx
<1>9. /\ v.htt[y][p] = i
      /\ \A q \in HttIx \ {p} : v.htt[y][q] = t.htt[y][q]
  <2>1. DOMAIN t.htt[y] = HttIx
    BY <1>1 DEF ShapeInv
  <2>. QED
    BY <1>4, <1>7, <1>8, <2>1, Zenon
<1>10. t.htt[y][p] \notin TTEno
  BY <1>7, SizeAssumption, Zenon
<1>11. \A q \in HttIx : t.htt[y][q] # i
  BY <1>1 DEF UseInv, n
<1>. HIDE DEF p
<1>12. ASSUME NEW s \in Sector, NEW q \in HttIx
      PROVE  /\ s = y /\ q = p => v.htt[s][q] = i
             /\ ~ (s = y /\ q = p) => v.htt[s][q] = t.htt[s][q]
  BY <1>3, <1>9, Zenon
<1>13. \A s \in Sector : \A q \in HttIx : v.htt[s][q] \in TTEno \cup {EMPTY, DELETED}
  BY <1>1, <1>12, ZenonT(40) DEF HashInv
<1>14. ASSUME NEW s \in Sector, NEW q \in HttIx, NEW r \in HttIx,
             v.htt[s][q] \in TTEno, v.htt[s][q] = v.htt[s][r]
      PROVE  q = r
  <2>1. CASE s = y
    BY <1>1, <1>9, <1>11, <1>14, <2>1 DEF HashInv
  <2>2. CASE s # y
    BY <1>12, <1>14, <2>2 DEF HashInv
  <2>. QED
    BY <2>1, <2>2, Zenon
<1>15. i # EMPTY /\ i # DELETED
  BY <1>1, SizeAssumption
<1>16. ASSUME NEW a \in Slot, InUse(v, a)
       PROVE  Reached(v, a)
  <2>1. CASE a = n
    <3>1. a[1] = y /\ a[2] = i /\ v.tt[a].entry = g
      BY <1>1, <1>2, <2>1, Zenon
    <3>2. \A l \in 0 .. j - 1 : v.htt[y][Probe(g, l)] # EMPTY
      <4>. TAKE l \in 0 .. j - 1
      <4>1. Probe(g, l) \in HttIx
        BY <1>8, ProbeInTable
      <4>. QED
        BY <1>1, <1>7, <1>9, <1>15, <4>1, Zenon
    <3>. QED
      BY <1>9, <3>1, <3>2, Zenon DEF Reached, p
  <2>2. CASE a # n
    <3>1. InUse(t, a) /\ v.tt[a].entry = t.tt[a].entry
      BY <1>5, <1>16, <2>2, Zenon
    <3>. DEFINE e == t.tt[a].entry
                s == a[1]
    <3>2. e \in Guest /\ s \in Sector /\ a[2] \in TTEno
      BY <1>6, <3>1 DEF PlaceInv
    <3>3. PICK k \in HttIx :
            /\ t.htt[s][Probe(e, k)] = a[2]
            /\ \A l \in 0 .. k - 1 : t.htt[s][Probe(e, l)] # EMPTY
      BY <3>1, ZenonT(40) DEF HashInv, Reached
    <3>. HIDE DEF e, s
    <3>4. k \in Nat /\ Probe(e, k) \in HttIx
      BY <3>2, ProbeInTable, SizeAssumption DEF HttIx
    <3>5. v.htt[s][Probe(e, k)] = a[2]
      BY <1>10, <1>12, <3>2, <3>3, <3>4, ZenonT(40)
    <3>6. \A l \in 0 .. k - 1 : v.htt[s][Probe(e, l)] # EMPTY
      <4>. TAKE l \in 0 .. k - 1
      <4>1. Probe(e, l) \in HttIx
        BY <3>2, <3>4, ProbeInTable
      <4>. QED
        BY <1>12, <1>15, <3>2, <3>3, <4>1, Zenon
    <3>. QED
      BY <3>1, <3>5, <3>6, Zenon DEF Reached, e, s
  <2>. QED
    BY <2>1, <2>2, Zenon
<1>17. ASSUME NEW a \in Slot, NEW b \in Slot,
              InUse(v, a), InUse(v, b), v.tt[a].entry = v.tt[b].entry
       PROVE  a = b
  BY <1>2, <1>5, <1>17, ZenonT(40) DEF HashInv
<1>. QED
  BY <1>13, <1>14, <1>16, <1>17, Zenon DEF HashInv

(* ... its information to the tool's... *)
LEMMA AddKeepsInfo ==
  ASSUME NEW t, ShapeInv(t), NEW g \in Guest, NEW base \in Guest, NEW i \in FreeSlots(t),
         NEW v, Adds(t, v, g, base, i),
         InfoInv(t, {base})
  PROVE  InfoInv(v, {})
<1>. DEFINE y == t.youngest
            n == <<y, i>>
<1>1. y \in Sector /\ i \in TTEno /\ n \in Slot /\ ~ InUse(t, n) /\ n[1] = y /\ n[2] = i
  BY DEF ShapeInv, FreeSlots, Slot
<1>2. /\ \A a \in Slot \ {n} : SameBlock(t, v, a) /\ (InUse(v, a) <=> InUse(t, a))
      /\ InUse(v, n) /\ v.tt[n].entry = g /\ v.tt[n].base = base
  BY Zenon DEF Adds
<1>3. v.unredir = t.unredir /\ v.info = t.info
  BY Zenon DEF Adds
<1>4. ASSUME NEW a \in Slot, InUse(v, a), a # n
      PROVE  /\ InUse(t, a) /\ v.tt[a].entry = t.tt[a].entry
             /\ v.tt[a].base = t.tt[a].base /\ v.tt[a].tcptr = t.tt[a].tcptr
  BY <1>2, <1>4, Zenon DEF SameBlock
<1>. HIDE DEF n, y
<1>5. ASSUME NEW a \in Slot, InUse(v, a)
      PROVE  v.tt[a].base \in v.info /\ v.tt[a].base \notin v.unredir
  BY <1>2, <1>3, <1>4, <1>5, Zenon DEF InfoInv
<1>6. ASSUME NEW a \in Slot, NEW b \in Slot,
             InUse(v, a), InUse(v, b), v.tt[a].base = v.tt[b].base
      PROVE  a = b
  BY <1>2, <1>4, <1>6 DEF InfoInv
<1>7. ASSUME NEW q \in v.info
      PROVE  q \in Froms \/ \E a \in Slot : InUse(v, a) /\ v.tt[a].base = q
  <2>1. CASE q = base
    BY <1>1, <1>2, <2>1, Zenon
  <2>2. CASE \E a \in Slot : InUse(t, a) /\ t.tt[a].base = q
    BY <1>1, <1>2, <2>2, Zenon DEF SameBlock
  <2>. QED
    BY <1>3, <2>1, <2>2, Zenon DEF InfoInv
<1>. QED
  BY <1>3, <1>5, <1>6, <1>7, ZenonT(40) DEF InfoInv

(* ... and its host code in the fast cache. *)
LEMMA AddKeepsFast ==
  ASSUME NEW t, ShapeInv(t), NEW g \in Guest, NEW base \in Guest, NEW i \in FreeSlots(t),
         NEW v, Adds(t, v, g, base, i),
         FastInv(t), PlaceInv(t), TcSize - t.tc_next[t.youngest] >= Code[base].len,
         g \in Froms \/ base = g
  PROVE  FastInv(v)
<1>. DEFINE y == t.youngest
            n == <<y, i>>
            at == t.tc_next[y]
<1>1. y \in Sector /\ i \in TTEno /\ n \in Slot /\ ~ InUse(t, n) /\ n[1] = y /\ n[2] = i
  BY DEF ShapeInv, FreeSlots, Slot
<1>2. /\ \A a \in Slot \ {n} : SameBlock(t, v, a) /\ (InUse(v, a) <=> InUse(t, a))
      /\ InUse(v, n) /\ v.tt[n].entry = g /\ v.tt[n].base = base /\ v.tt[n].tcptr = at
  BY Zenon DEF Adds
<1>3. v.fast = t.fast \cup {<<g, <<y, at>>>>}
  BY Zenon DEF Adds
<1>4. ASSUME NEW a \in Slot, InUse(v, a), a # n
      PROVE  /\ InUse(t, a) /\ v.tt[a].entry = t.tt[a].entry
             /\ v.tt[a].base = t.tt[a].base /\ v.tt[a].tcptr = t.tt[a].tcptr
  BY <1>2, <1>4, ZenonT(40) DEF SameBlock
<1>5. /\ at \in 0 .. TcSize - 1 /\ at \in Nat /\ Code[base].len \in Nat \ {0}
      /\ at + Code[base].len \in 0 .. TcSize
  BY <1>1, RoomIsLeft, Zenon
<1>. HIDE DEF n, at, y
<1>6. <<g, <<y, at>>>> \in Guest \X Host
  BY <1>1, <1>5, Zenon DEF Host
<1>7. ASSUME NEW a \in Slot, InUse(v, a), v.tt[a].entry \notin Froms
      PROVE  v.tt[a].base = v.tt[a].entry
  BY <1>2, <1>4, <1>7, ZenonT(40) DEF FastInv
<1>8. ASSUME NEW f \in v.fast, f[1] \notin Froms
      PROVE  \E a \in Slot : InUse(v, a) /\ v.tt[a].entry = f[1] /\ HostOf(v, a) = f[2]
  <2>1. CASE f = <<g, <<y, at>>>>
    BY <1>1, <1>2, <2>1, ZenonT(40) DEF HostOf
  <2>2. CASE f \in t.fast
    <3>1. PICK a \in Slot : InUse(t, a) /\ t.tt[a].entry = f[1] /\ HostOf(t, a) = f[2]
      BY <1>8, <2>2, ZenonT(40) DEF FastInv
    <3>. QED
      BY <1>1, <1>2, <3>1, Zenon DEF SameBlock, HostOf
  <2>. QED
    BY <1>3, <2>1, <2>2, Zenon
<1>. QED
  BY <1>3, <1>6, <1>7, <1>8, ZenonT(40) DEF FastInv

(* Adding a translation of an entry that has none keeps the books. *)
LEMMA AddKeepsBooks ==
  ASSUME NEW t, TableInv(t), NEW g \in Guest, NEW base \in Guest, BookInv(t, {base}),
         NEW i \in FreeSlots(t), TcSize - t.tc_next[t.youngest] >= Code[base].len,
         \A a \in Slot : InUse(t, a) => t.tt[a].entry # g,
         g \in Froms \/ base = g,
         NEW v, Adds(t, v, g, base, i)
  PROVE  BookInv(v, {})
<1>1. /\ BookShape(t) /\ ClassInv(t) /\ PlaceInv(t) /\ HashInv(t) /\ InfoInv(t, {base})
      /\ FastInv(t) /\ UseInv(t) /\ ShapeInv(t)
  BY DEF BookInv, TableInv
<1>2. BookShape(v)
  BY Zenon DEF Adds
<1>3. ClassInv(v) /\ PlaceInv(v)
  BY <1>1, AddKeepsClasses, AddKeepsPlaces, ZenonT(40)
<1>4. HashInv(v)
  BY <1>1, AddKeepsHash, ZenonT(40)
<1>5. InfoInv(v, {}) /\ FastInv(v)
  BY <1>1, AddKeepsInfo, AddKeepsFast, Zenon
<1>. QED
  BY <1>2, <1>3, <1>4, <1>5, ZenonT(40) DEF BookInv

(* The search finds the translations in use of an address, never two. *)
LEMMA SearchFindsAll ==
  ASSUME NEW t, TableInv(t), PlaceInv(t), HashInv(t), NEW g \in Guest
  PROVE  /\ search_transtab(t, g) = {a \in Slot : InUse(t, a) /\ t.tt[a].entry = g}
         /\ Cardinality(search_transtab(t, g)) <= 1
<1>. DEFINE S == {a \in Slot : InUse(t, a) /\ t.tt[a].entry = g}
<1>1. \A a \in search_transtab(t, g) : a \in S
  BY SearchFindsInUse DEF search_transtab
<1>2. ASSUME NEW a \in S
      PROVE  a \in search_transtab(t, g)
  <2>1. a \in Slot /\ t.tt[a].entry = g /\ Reached(t, a)
    BY DEF HashInv
  <2>2. \E j \in HttIx :
          /\ t.htt[a[1]][(Hash[g] + j) % NHttes] = a[2]
          /\ \A l \in 0 .. j - 1 : t.htt[a[1]][(Hash[g] + l) % NHttes] # EMPTY
    BY <2>1, Zenon DEF Reached, Probe
  <2>. QED
    BY <2>1, <2>2, Zenon DEF search_transtab
<1>3. search_transtab(t, g) = S
  <2>. HIDE DEF S
  <2>. QED
    BY <1>1, <1>2, Zenon
<1>4. \A a, b \in S : a = b
  BY DEF HashInv
<1>5. Cardinality(S) <= 1
  <2>. HIDE DEF S
  <2>1. CASE S = {}
    BY <2>1, FS_EmptySet
  <2>2. CASE S # {}
    <3>1. PICK a : a \in S
      BY <2>2
    <3>2. S = {a}
      BY <1>4, <3>1, Zenon
    <3>. QED
      BY <3>2, FS_Singleton
  <2>. QED
    BY <2>1, <2>2, Zenon
<1>. QED
  BY <1>3, <1>5, ZenonT(40)

-----------------------------------------------------------------------------
(* Discarding the translations of a range.                                  *)

(* The translations discard_translations deletes. *)
Discarded(t, start, range) ==
  LET ec == IF range <= ClassSize THEN range_to_eclass(start, range) ELSE MISC
      seen == IF ec # MISC
              THEN {a \in Slot : a[2] \in t.ec2tte[a[1]][ec] \cup t.ec2tte[a[1]][MISC]}
              ELSE {a \in Slot : InUse(t, a)}
  IN  {a \in seen : overlaps(start, range, t.tt[a].base)}

(* What discard_translations does. *)
LEMMA DiscardEffect ==
  ASSUME NEW t, ShapeInv(t), BookShape(t), NEW start, NEW range
  PROVE  LET v == discard_translations(t, start, range)
             D == Discarded(t, start, range)
         IN  /\ D \in SUBSET Slot
             /\ Deletes(t, v, D) /\ v.fast = FastAfter(t, D)
             /\ v.unredir = {g \in t.unredir : ~ overlaps(start, range, g)}
<1>. DEFINE v == discard_translations(t, start, range)
            D == Discarded(t, start, range)
            d == delete_tte(t, D)
<1>1. D \in SUBSET Slot
  BY DEF Discarded
<1>2. v = [d EXCEPT !.fast = FastAfter(t, D),
                    !.unredir = {g \in @ : ~ overlaps(start, range, g)}]
  BY Zenon DEF discard_translations, Discarded
<1>. HIDE DEF D, v
<1>3. IsTable(d) /\ Deletes(t, d, D) /\ d.fast = t.fast /\ d.unredir = t.unredir
  BY <1>1, DeleteEffect, Zenon
<1>. HIDE DEF d
<1>4. /\ v.fast = FastAfter(t, D) /\ v.unredir = {g \in t.unredir : ~ overlaps(start, range, g)}
      /\ v.tt = d.tt /\ v.htt = d.htt /\ v.ec2tte = d.ec2tte /\ v.hx = d.hx
      /\ v.tc_next = d.tc_next /\ v.info = d.info
  BY <1>2, <1>3, ZenonT(40) DEF IsTable
<1>5. Deletes(t, v, D)
  BY <1>3, <1>4, SMTT(30) DEF Deletes, BookShape, SameBlock, InUse
<1>. QED
  BY <1>1, <1>4, <1>5, Zenon DEF v, D

(* A class is a class. *)
LEMMA ClassIsClass ==
  ASSUME NEW start \in Int, NEW range \in Int
  PROVE  range_to_eclass(start, range) \in EClass /\ MISC \in EClass
<1>1. ClassSize \in Nat /\ ClassSize > 0 /\ NClasses \in Nat /\ NClasses > 0
  BY SizeAssumption
<1>. DEFINE p == start \div ClassSize
<1>2. p \in Int
  BY <1>1
<1>3. range_to_eclass(start, range) \in {p % NClasses, NClasses}
  BY DEF range_to_eclass, MISC
<1>. HIDE DEF p
<1>4. p % NClasses \in 0 .. NClasses - 1
  BY <1>1, <1>2
<1>. QED
  BY <1>1, <1>3, <1>4 DEF EClass, MISC

(* It deletes the translations in use that meet the range, and no others. *)
LEMMA DiscardedIsExact ==
  ASSUME NEW t, ClassInv(t), PlaceInv(t), NEW start \in Nat, NEW range \in Nat \ {0}
  PROVE  Discarded(t, start, range) =
           {a \in Slot : InUse(t, a) /\ overlaps(start, range, t.tt[a].base)}
<1>. DEFINE ec == IF range <= ClassSize THEN range_to_eclass(start, range) ELSE MISC
            seen == IF ec # MISC
                    THEN {a \in Slot : a[2] \in t.ec2tte[a[1]][ec] \cup t.ec2tte[a[1]][MISC]}
                    ELSE {a \in Slot : InUse(t, a)}
            D == Discarded(t, start, range)
<1>1. D = {a \in seen : overlaps(start, range, t.tt[a].base)}
  BY DEF Discarded
<1>2. ec \in EClass /\ MISC \in EClass
  BY ClassIsClass
<1>. HIDE DEF D
<1>3. CASE ec = MISC
  BY <1>1, <1>3, Zenon DEF D
<1>4. CASE ec # MISC
  <2>1. range <= ClassSize /\ ec = range_to_eclass(start, range)
    BY <1>4, Zenon
  <2>. HIDE DEF ec
  <2>2. seen = {a \in Slot : a[2] \in t.ec2tte[a[1]][ec] \cup t.ec2tte[a[1]][MISC]}
    BY <1>4, Zenon
  <2>. HIDE DEF seen
  <2>3. ASSUME NEW a \in seen
        PROVE  a \in Slot /\ InUse(t, a)
    <3>1. a \in Slot /\ a[1] \in Sector /\ a = <<a[1], a[2]>>
      BY <2>2 DEF Slot
    <3>. QED
      BY <1>2, <2>2, <3>1, Zenon DEF ClassInv
  <2>4. ASSUME NEW a \in Slot, InUse(t, a), overlaps(start, range, t.tt[a].base)
        PROVE  a \in seen
    <3>. DEFINE b == t.tt[a].base
                ecs == {range_to_eclass(e[1], e[2]) : e \in Code[b].extents}
    <3>1. b \in Guest /\ a[1] \in Sector
      BY <2>4 DEF PlaceInv, Slot
    <3>2. \A c \in vexGuestExtents_to_eclasses(b) : a[2] \in t.ec2tte[a[1]][c]
      BY <2>4, Zenon DEF ClassInv
    <3>3. vexGuestExtents_to_eclasses(b) = IF MISC \in ecs THEN {MISC} ELSE ecs
      BY Zenon DEF vexGuestExtents_to_eclasses
    <3>4. PICK e \in Code[b].extents : overlap1(start, range, e[1], e[2])
      BY <2>4, Zenon DEF overlaps
    <3>5. e[1] \in Nat /\ e[2] \in 0 .. ClassSize * (NClasses - 1)
      BY <3>1, <3>4, ExtentAssumption, Zenon
    <3>6. CASE MISC \in ecs
      BY <2>2, <3>2, <3>3, <3>6, Zenon
    <3>7. CASE MISC \notin ecs
      <4>1. range_to_eclass(e[1], e[2]) \in ecs
        BY Zenon
      <4>2. range_to_eclass(e[1], e[2]) = ec
        BY <1>4, <2>1, <3>4, <3>5, <3>7, <4>1, SameClass
      <4>. HIDE DEF ecs
      <4>. QED
        BY <2>2, <3>2, <3>3, <3>7, <4>1, <4>2, Zenon
    <3>. QED
      BY <3>6, <3>7, Zenon
  <2>. QED
    BY <1>1, <2>3, <2>4, Zenon DEF D
<1>. QED
  BY <1>3, <1>4, Zenon

(* Discarding a range keeps the books. *)
LEMMA DiscardKeepsBooks ==
  ASSUME NEW t, TableInv(t), BookInv(t, {}), NEW start \in Nat, NEW range \in Nat \ {0}
  PROVE  BookInv(discard_translations(t, start, range), {})
<1>. DEFINE v == discard_translations(t, start, range)
            D == Discarded(t, start, range)
<1>1. ShapeInv(t) /\ BookShape(t) /\ ClassInv(t) /\ PlaceInv(t)
  BY Zenon DEF TableInv, BookInv
<1>2. /\ D \in SUBSET Slot /\ Deletes(t, v, D) /\ v.fast = FastAfter(t, D)
      /\ v.unredir = {g \in t.unredir : ~ overlaps(start, range, g)}
  BY <1>1, DiscardEffect, Zenon
<1>3. \A a \in D : InUse(t, a)
  BY <1>1, DiscardedIsExact
<1>. HIDE DEF v, D
<1>4. v.unredir \subseteq t.unredir
  BY <1>2
<1>5. BookInv(v, {})
  BY <1>2, <1>3, <1>4, DeleteKeepsBooks, Zenon
<1>. QED
  BY <1>5 DEF v

(* Discarding a range leaves nothing made of it, and what it leaves was in  *)
(* use before.                                                              *)
LEMMA DiscardLeaves ==
  ASSUME NEW t, TableInv(t), BookInv(t, {}), NEW start \in Nat, NEW range \in Nat \ {0}
  PROVE  LET v == discard_translations(t, start, range)
         IN  /\ \A a \in Slot : InUse(v, a) =>
                  /\ InUse(t, a) /\ ~ overlaps(start, range, v.tt[a].base)
                  /\ v.tt[a].entry = t.tt[a].entry /\ v.tt[a].base = t.tt[a].base
             /\ \A g \in v.unredir : ~ overlaps(start, range, g)
<1>. DEFINE v == discard_translations(t, start, range)
            D == Discarded(t, start, range)
<1>1. ShapeInv(t) /\ BookShape(t) /\ ClassInv(t) /\ PlaceInv(t)
  BY DEF TableInv, BookInv
<1>2. /\ Deletes(t, v, D)
      /\ v.unredir = {g \in t.unredir : ~ overlaps(start, range, g)}
  BY <1>1, DiscardEffect, Zenon
<1>3. D = {a \in Slot : InUse(t, a) /\ overlaps(start, range, t.tt[a].base)}
  BY <1>1, DiscardedIsExact
<1>. HIDE DEF v, D
<1>4. ASSUME NEW a \in Slot, InUse(v, a)
      PROVE  /\ InUse(t, a) /\ ~ overlaps(start, range, v.tt[a].base)
             /\ v.tt[a].entry = t.tt[a].entry /\ v.tt[a].base = t.tt[a].base
  BY <1>2, <1>3, <1>4, Zenon DEF Deletes, SameBlock
<1>. QED
  BY <1>2, <1>4, Zenon DEF v

-----------------------------------------------------------------------------
(* Making room and translating.                                             *)

(* Where the bindings of A send g. *)
LookupIn(A, g) ==
  IF \E a \in A : a.from = g THEN (CHOOSE a \in A : a.from = g).to ELSE g

(* An address that no redirection is about is not redirected. *)
LEMMA LookupKeeps ==
  ASSUME IInv, NEW g
  PROVE  g \in Froms \/ redir_do_lookup(g) = g
  BY Zenon DEF IInv, Froms, redir_do_lookup

(* Making room keeps the books, leaves room for the block, and deletes only. *)
LEMMA RoomKeepsBooks ==
  ASSUME NEW t, TableInv(t), NEW base \in Guest, BookInv(t, {base})
  PROVE  LET r == RoomFor(t, base)
         IN  /\ BookInv(r, {base}) /\ TcSize - r.tc_next[r.youngest] >= Code[base].len
             /\ \A a \in Slot : InUse(r, a) =>
                  /\ InUse(t, a) /\ r.tt[a].entry = t.tt[a].entry
                  /\ r.tt[a].base = t.tt[a].base
<1>. DEFINE y == t.youngest
            next == (y + 1) % NSectors
            u == initialiseSector(t, next)
            v == [u EXCEPT !.youngest = next]
            full == \/ TcSize - t.tc_next[y] < Code[base].len
                    \/ NInUse(t, y) >= Cardinality(TTEno)
<1>1. RoomFor(t, base) = IF full THEN v ELSE t
  BY DEF RoomFor
<1>2. ShapeInv(t) /\ BookShape(t) /\ PlaceInv(t) /\ y \in Sector
  BY Zenon DEF TableInv, BookInv, ShapeInv
<1>3. next \in Sector
  <2>1. y \in Int /\ NSectors \in Nat /\ NSectors > 0
    BY <1>2, SizeAssumption DEF Sector
  <2>. QED
    BY <2>1 DEF Sector
<1>4. Code[base].len \in 1 .. TcSize /\ TcSize \in Nat /\ t.tc_next[y] \in 0 .. TcSize
  BY <1>2, CodeAssumption, SizeAssumption, Zenon DEF PlaceInv
<1>. HIDE DEF next, y
<1>5. CASE ~ full
  <2>1. ~ (TcSize - t.tc_next[y] < Code[base].len)
    BY <1>5
  <2>2. TcSize - t.tc_next[y] >= Code[base].len
    BY <1>4, <2>1
  <2>. QED
    BY <1>1, <1>5, <2>2, Zenon DEF y
<1>6. CASE full
  <2>1. IsTable(u) /\ Empties(t, u, next)
    BY <1>2, <1>3, EmptyEffect, Zenon
  <2>2. BookInv(u, {base})
    BY <1>3, <2>1, EmptyKeepsBooks, Zenon
  <2>. HIDE DEF u, full
  <2>3. /\ v.youngest = next /\ v.tt = u.tt /\ v.htt = u.htt /\ v.ec2tte = u.ec2tte
        /\ v.hx = u.hx /\ v.tc_next = u.tc_next /\ v.fast = u.fast
        /\ v.unredir = u.unredir /\ v.info = u.info
    BY <2>1 DEF IsTable
  <2>. HIDE DEF v
  <2>4. SameBook(u, v)
    BY <2>3 DEF SameBook, SameSlots, SameBlock, InUse
  <2>5. BookInv(v, {base})
    BY <2>2, <2>4, SameBookKeeps, Zenon
  <2>6. v.tc_next[v.youngest] = 0
    BY <2>1, <2>3, Zenon DEF Empties
  <2>7. ASSUME NEW a \in Slot, InUse(v, a)
        PROVE  /\ InUse(t, a) /\ v.tt[a].entry = t.tt[a].entry
               /\ v.tt[a].base = t.tt[a].base
    <3>1. InUse(u, a) /\ v.tt[a] = u.tt[a]
      BY <2>3, <2>7, Zenon DEF InUse
    <3>. QED
      BY <2>1, <3>1 DEF Empties, SameBlock
  <2>8. TcSize - v.tc_next[v.youngest] >= Code[base].len
    BY <1>4, <2>6
  <2>. QED
    BY <1>1, <1>6, <2>5, <2>7, <2>8, Zenon
<1>. QED
  BY <1>5, <1>6

(* What a translation adds, and that nothing else is new. *)
Translated(t, u, g, base) ==
  /\ \E n \in Slot : InUse(u, n) /\ u.tt[n].entry = g
  /\ \A a \in Slot : InUse(u, a) =>
       \/ u.tt[a].entry = g /\ u.tt[a].base = base
       \/ InUse(t, a) /\ u.tt[a].entry = t.tt[a].entry /\ u.tt[a].base = t.tt[a].base

(* Translating a block that has no information keeps the books. *)
LEMMA TranslateKeepsBooks ==
  ASSUME IInv, BookInv(tab, {}), NEW g \in Guest, search_transtab(tab, g) = {},
         ~ get_SB_info_fails(redir_do_lookup(g)), NEW t \in Translations(g)
  PROVE  BookInv(t, {}) /\ Translated(tab, t, g, redir_do_lookup(g))
<1>. DEFINE base == redir_do_lookup(g)
            new == [tab EXCEPT !.info = @ \cup {base}]
            room == RoomFor(new, base)
<1>1. base \in Guest /\ base \notin tab.info /\ (g \in Froms \/ base = g)
  BY RedirInGuest, LookupKeeps DEF get_SB_info_fails
<1>2. PICK i \in FreeSlots(room) : t = AddAt(room, g, base, i)
  BY DEF Translations
<1>. HIDE DEF base
<1>3. TableInv(tab) /\ ShapeInv(tab) /\ PlaceInv(tab) /\ HashInv(tab)
  BY DEF IInv, TableInv, BookInv
<1>4. /\ IsTable(new) /\ new.tt = tab.tt /\ new.htt = tab.htt /\ new.ec2tte = tab.ec2tte
      /\ new.hx = tab.hx /\ new.tc_next = tab.tc_next /\ new.fast = tab.fast
      /\ new.unredir = tab.unredir /\ new.info = tab.info \cup {base}
      /\ new.youngest = tab.youngest
  BY <1>3 DEF ShapeInv, IsTable
<1>. HIDE DEF new
<1>5. TableInv(new)
  <2>1. Alike(tab, new)
    BY <1>3, <1>4, Zenon DEF Alike, ShapeInv
  <2>. QED
    BY <1>3, <2>1, AlikeKeeps, Zenon
<1>6. BookInv(new, {base})
  <2>1. SameSlots(tab, new)
    BY <1>4 DEF SameSlots, SameBlock, InUse
  <2>. QED
    BY <1>1, <1>4, <2>1, TellingKeeps, Zenon
<1>7. /\ BookInv(room, {base}) /\ TcSize - room.tc_next[room.youngest] >= Code[base].len
      /\ \A a \in Slot : InUse(room, a) =>
           /\ InUse(new, a) /\ room.tt[a].entry = new.tt[a].entry
           /\ room.tt[a].base = new.tt[a].base
  BY <1>1, <1>5, <1>6, RoomKeepsBooks, Zenon
<1>8. TableInv(room)
  BY <1>5, RoomKeeps
<1>. HIDE DEF room
<1>9. ShapeInv(room) /\ BookShape(room) /\ i \in TTEno
  BY <1>7, <1>8, Zenon DEF TableInv, BookInv, FreeSlots
<1>10. Adds(room, t, g, base, i)
  BY <1>2, <1>9, AddEffect, Zenon
<1>11. ASSUME NEW a \in Slot, InUse(room, a)
       PROVE  /\ InUse(tab, a) /\ room.tt[a].entry = tab.tt[a].entry
              /\ room.tt[a].base = tab.tt[a].base
  BY <1>4, <1>7, <1>11, Zenon DEF InUse
<1>12. \A a \in Slot : InUse(tab, a) => tab.tt[a].entry # g
  <2>1. search_transtab(tab, g) = {a \in Slot : InUse(tab, a) /\ tab.tt[a].entry = g}
    BY <1>3, SearchFindsAll, ZenonT(40)
  <2>. QED
    BY <2>1, Zenon
<1>13. BookInv(t, {})
  BY <1>1, <1>2, <1>7, <1>8, <1>10, <1>11, <1>12, AddKeepsBooks, Zenon
<1>14. Translated(tab, t, g, base)
  <2>. DEFINE n == <<room.youngest, i>>
  <2>1. n \in Slot
    BY <1>9 DEF ShapeInv, Slot
  <2>2. /\ \A a \in Slot \ {n} : SameBlock(room, t, a) /\ (InUse(t, a) <=> InUse(room, a))
        /\ InUse(t, n) /\ t.tt[n].entry = g /\ t.tt[n].base = base
    BY <1>10, Zenon DEF Adds
  <2>. HIDE DEF n
  <2>. QED
    BY <1>11, <2>1, <2>2, ZenonT(40) DEF Translated, SameBlock
<1>. QED
  BY <1>13, <1>14, Zenon DEF base

(* The whole invariant. *)
FullInv ==
  /\ IInv /\ BookInv(tab, {})
  /\ panic \in {"no", "get_SB_info", "LibVEX_Chain"}

(* The books start empty. *)
LEMMA InitBooks == Init => FullInv
<1>. SUFFICES ASSUME Init PROVE FullInv
  OBVIOUS
<1>1. /\ tab.tt = [a \in Slot |-> EmptyTTE]
      /\ tab.htt = [s \in Sector |-> [j \in HttIx |-> EMPTY]]
      /\ tab.ec2tte = [s \in Sector |-> [ec \in EClass |-> {}]]
      /\ tab.hx = [s \in Sector |-> {}] /\ tab.tc_next = [s \in Sector |-> 0]
      /\ tab.fast = {} /\ tab.unredir = {} /\ tab.info = {}
  BY Zenon DEF Init
<1>2. \A a \in Slot : ~ InUse(tab, a)
  BY <1>1 DEF InUse, EmptyTTE
<1>3. BookShape(tab) /\ ClassInv(tab)
  <2>1. IsFunctionOn(tab.tc_next, Sector) /\ IsFunctionOn(tab.htt, Sector)
    BY <1>1, Zenon DEF IsFunctionOn
  <2>2. ASSUME NEW s \in Sector PROVE IsFunctionOn(tab.htt[s], HttIx)
    <3>1. tab.htt[s] = [j \in HttIx |-> EMPTY]
      BY <1>1, Zenon
    <3>. QED
      BY <3>1, Zenon DEF IsFunctionOn
  <2>. QED
    BY <1>1, <1>2, <2>1, <2>2 DEF BookShape, ClassInv
<1>4. PlaceInv(tab)
  <2>1. \A s \in Sector : tab.tc_next[s] \in 0 .. TcSize /\ tab.hx[s] = {}
    BY <1>1, SizeAssumption
  <2>. QED
    BY <1>2, <2>1, ZenonT(40) DEF PlaceInv
<1>5. HashInv(tab)
  BY <1>1, <1>2, SizeAssumption DEF HashInv
<1>6. InfoInv(tab, {}) /\ FastInv(tab)
  BY <1>1, <1>2, Zenon DEF InfoInv, FastInv
<1>. QED
  BY <1>3, <1>4, <1>5, <1>6, InitTables, Zenon DEF FullInv, BookInv, Init

-----------------------------------------------------------------------------
(* The steps.                                                               *)

(* The translations of u are those of t, or made as the bindings say.       *)
OldOrInForce(t, u) ==
  \A a \in Slot : InUse(u, a) =>
    \/ InUse(t, a) /\ u.tt[a].entry = t.tt[a].entry /\ u.tt[a].base = t.tt[a].base
    \/ u.tt[a].base = redir_do_lookup(u.tt[a].entry)

(* Looking up an address, or translating it, keeps the books. *)
LEMMA MissKeepsBooks ==
  ASSUME FullInv, NEW g \in Entries, handle_tt_miss(g)
  PROVE  BookInv(tab', {}) /\ panic' \in {"no", "get_SB_info", "LibVEX_Chain"}
         /\ OldOrInForce(tab, tab') /\ active' = active
<1>0. IInv /\ TableInv(tab) /\ ShapeInv(tab) /\ BookInv(tab, {}) /\ g \in Guest
      /\ PlaceInv(tab) /\ HashInv(tab) /\ FastInv(tab)
      /\ panic \in {"no", "get_SB_info", "LibVEX_Chain"}
  BY CodeAssumption DEF FullInv, IInv, TableInv, BookInv
<1>. DEFINE found == search_transtab(tab, g)
            c == CHOOSE a \in found : TRUE
<1>1. \/ /\ found # {} /\ tab' = [tab EXCEPT !.fast = @ \cup {<<g, HostOf(tab, c)>>}]
         /\ UNCHANGED <<active, panic>>
      \/ found = {} /\ Stop("get_SB_info")
      \/ /\ found = {} /\ ~ get_SB_info_fails(redir_do_lookup(g))
         /\ tab' \in Translations(g) /\ UNCHANGED <<active, panic>>
  BY DEF handle_tt_miss
<1>2. CASE /\ found # {} /\ tab' = [tab EXCEPT !.fast = @ \cup {<<g, HostOf(tab, c)>>}]
           /\ UNCHANGED <<active, panic>>
  <2>1. c \in found
    BY <1>2
  <2>2. c \in Slot /\ InUse(tab, c) /\ tab.tt[c].entry = g
    BY <1>0, <2>1, SearchFindsAll
  <2>. HIDE DEF c, found
  <2>3. /\ tab'.tt = tab.tt /\ tab'.htt = tab.htt /\ tab'.ec2tte = tab.ec2tte
        /\ tab'.hx = tab.hx /\ tab'.tc_next = tab.tc_next
        /\ tab'.fast = tab.fast \cup {<<g, HostOf(tab, c)>>}
        /\ tab'.unredir = tab.unredir /\ tab'.info = tab.info
    BY <1>0, <1>2 DEF ShapeInv, IsTable
  <2>4. SameSlots(tab, tab') /\ OldOrInForce(tab, tab')
    BY <2>3, Zenon DEF SameSlots, SameBlock, InUse, OldOrInForce
  <2>5. BookInv(tab', {})
    BY <1>0, <2>2, <2>3, <2>4, CachingKeeps, Zenon
  <2>. QED
    BY <1>0, <1>2, <2>4, <2>5, Zenon
<1>3. CASE found = {} /\ Stop("get_SB_info")
  BY <1>0, <1>3 DEF Stop, OldOrInForce
<1>4. CASE /\ found = {} /\ ~ get_SB_info_fails(redir_do_lookup(g))
           /\ tab' \in Translations(g) /\ UNCHANGED <<active, panic>>
  <2>1. BookInv(tab', {}) /\ Translated(tab, tab', g, redir_do_lookup(g))
    BY <1>0, <1>4, TranslateKeepsBooks, Zenon
  <2>2. OldOrInForce(tab, tab')
    BY <2>1 DEF Translated, OldOrInForce
  <2>. QED
    BY <1>0, <1>4, <2>1, <2>2, Zenon
<1>. QED
  BY <1>1, <1>2, <1>3, <1>4, Zenon

(* A jump past a redirection keeps the books. *)
LEMMA NoredirKeepsBooks ==
  ASSUME FullInv, NEW g \in Entries, handle_noredir_jump(g)
  PROVE  BookInv(tab', {}) /\ panic' \in {"no", "get_SB_info", "LibVEX_Chain"}
         /\ OldOrInForce(tab, tab') /\ active' = active
<1>0. IInv /\ ShapeInv(tab) /\ BookInv(tab, {}) /\ g \in Guest /\ InfoInv(tab, {})
      /\ panic \in {"no", "get_SB_info", "LibVEX_Chain"}
  BY CodeAssumption, Zenon DEF FullInv, IInv, TableInv, BookInv
<1>1. g \in Froms
  BY <1>0, LookupKeeps DEF handle_noredir_jump
<1>2. CASE Stop("get_SB_info")
  BY <1>0, <1>2 DEF Stop, OldOrInForce
<1>3. ASSUME NEW kept \in {tab.unredir, {}}, g \notin tab.info,
             tab' = [tab EXCEPT !.unredir = kept \cup {g}, !.info = @ \cup {g}],
             UNCHANGED <<active, panic>>
      PROVE  BookInv(tab', {}) /\ panic' \in {"no", "get_SB_info", "LibVEX_Chain"}
             /\ OldOrInForce(tab, tab') /\ active' = active
  <2>1. /\ tab'.tt = tab.tt /\ tab'.htt = tab.htt /\ tab'.ec2tte = tab.ec2tte
        /\ tab'.hx = tab.hx /\ tab'.tc_next = tab.tc_next /\ tab'.fast = tab.fast
        /\ tab'.unredir = kept \cup {g} /\ tab'.info = tab.info \cup {g}
    BY <1>0, <1>3, Zenon DEF ShapeInv, IsTable
  <2>2. SameSlots(tab, tab') /\ OldOrInForce(tab, tab')
    BY <2>1 DEF SameSlots, SameBlock, InUse, OldOrInForce
  <2>3. kept \in SUBSET tab.unredir
    BY <1>3
  <2>4. BookInv(tab', {})
    BY <1>0, <1>1, <1>3, <2>1, <2>2, <2>3, UnredirKeeps, Zenon
  <2>. QED
    BY <1>0, <1>3, <2>2, <2>4
<1>. QED
  BY <1>2, <1>3 DEF handle_noredir_jump, get_SB_info_fails

(* Chaining, with the translation it may need, keeps the books, and finds   *)
(* the translation it asked for.                                            *)
LEMMA ChainKeepsBooks ==
  ASSUME FullInv, NEW a \in Slot, NEW k \in DOMAIN tab.tt[a].jumps, handle_chain_me(a, k)
  PROVE  BookInv(tab', {}) /\ panic' \in {"no", "get_SB_info", "LibVEX_Chain"}
         /\ OldOrInForce(tab, tab') /\ active' = active
<1>0. IInv /\ TableInv(tab) /\ BookInv(tab, {}) /\ panic \in {"no", "get_SB_info", "LibVEX_Chain"}
  BY Zenon DEF FullInv, IInv
<1>. DEFINE e == tab.tt[a]
            ip == Code[e.base].exits[k]
            place == <<a[1], e.tcptr + k>>
            found == search_transtab(tab, ip)
            after == IF found # {} THEN {tab} ELSE Translations(ip)
<1>1. ip \in Guest
  BY <1>0, Zenon DEF TableInv, UseInv
<1>2. \/ Stop("get_SB_info")
      \/ /\ found = {} => ~ get_SB_info_fails(redir_do_lookup(ip))
         /\ \E t \in after :
              IF search_transtab(t, ip) = {} THEN Stop("search_transtab")
              ELSE IF ~ MayChain(t, place) THEN Stop("LibVEX_Chain")
              ELSE /\ tab' = tt_tc_do_chaining(t, place, CHOOSE b \in search_transtab(t, ip) : TRUE)
                   /\ UNCHANGED <<active, panic>>
  BY Zenon DEF handle_chain_me
<1>. HIDE DEF ip, place
<1>3. CASE Stop("get_SB_info") \/ Stop("LibVEX_Chain")
  BY <1>0, <1>3 DEF Stop, OldOrInForce
<1>4. ASSUME NEW t \in after, found = {} => ~ get_SB_info_fails(redir_do_lookup(ip))
      PROVE  /\ TableInv(t) /\ BookInv(t, {}) /\ search_transtab(t, ip) # {}
             /\ OldOrInForce(tab, t)
  <2>1. CASE found # {}
    BY <1>0, <1>4, <2>1, Zenon DEF OldOrInForce
  <2>2. CASE found = {}
    <3>1. TableInv(t)
      BY <1>0, <1>1, <2>2, TranslateKeeps, Zenon
    <3>2. BookInv(t, {}) /\ Translated(tab, t, ip, redir_do_lookup(ip))
      BY <1>0, <1>1, <1>4, <2>2, TranslateKeepsBooks, Zenon
    <3>3. search_transtab(t, ip) # {}
      <4>1. search_transtab(t, ip) = {b \in Slot : InUse(t, b) /\ t.tt[b].entry = ip}
        BY <1>1, <3>1, <3>2, SearchFindsAll, Zenon DEF BookInv
      <4>. QED
        BY <3>2, <4>1, Zenon DEF Translated
    <3>. QED
      BY <3>1, <3>2, <3>3 DEF Translated, OldOrInForce
  <2>. QED
    BY <2>1, <2>2
<1>. HIDE DEF after, found
<1>5. ASSUME NEW t \in after, found = {} => ~ get_SB_info_fails(redir_do_lookup(ip)),
             MayChain(t, place),
             tab' = tt_tc_do_chaining(t, place, CHOOSE b \in search_transtab(t, ip) : TRUE),
             UNCHANGED <<active, panic>>
      PROVE  BookInv(tab', {}) /\ panic' \in {"no", "get_SB_info", "LibVEX_Chain"}
             /\ OldOrInForce(tab, tab') /\ active' = active
  <2>. DEFINE to == CHOOSE b \in search_transtab(t, ip) : TRUE
              u == tt_tc_do_chaining(t, place, to)
  <2>1. /\ TableInv(t) /\ BookInv(t, {}) /\ search_transtab(t, ip) # {}
        /\ OldOrInForce(tab, t)
    BY <1>4, <1>5
  <2>2. to \in search_transtab(t, ip)
    BY <2>1, Zenon
  <2>. HIDE DEF to
  <2>3. to \in Slot
    BY <2>2 DEF search_transtab
  <2>4. SameBook(t, u)
    BY <1>5, <2>1, <2>3, ChainEffect, Zenon
  <2>. HIDE DEF u
  <2>5. BookInv(u, {})
    BY <2>1, <2>4, SameBookKeeps, Zenon
  <2>6. OldOrInForce(tab, u)
    BY <2>1, <2>4 DEF OldOrInForce, SameBook, SameSlots, SameBlock
  <2>7. tab' = u
    BY <1>5 DEF u, to
  <2>. QED
    BY <1>0, <1>5, <2>5, <2>6, <2>7, Zenon
<1>. QED
  BY <1>2, <1>3, <1>4, <1>5

(* Discarding a range of the program keeps the books. *)
LEMMA DiscardStepKeepsBooks ==
  ASSUME FullInv, NEW start \in Nat, NEW range \in Nat \ {0}
  PROVE  LET u == discard_translations(tab, start, range)
         IN  TableInv(u) /\ BookInv(u, {}) /\ OldOrInForce(tab, u)
<1>0. TableInv(tab) /\ BookInv(tab, {})
  BY DEF FullInv, IInv
<1>. DEFINE u == discard_translations(tab, start, range)
<1>1. TableInv(u) /\ BookInv(u, {})
  BY <1>0, DiscardKeeps, DiscardKeepsBooks, Zenon
<1>2. OldOrInForce(tab, u)
  BY <1>0, DiscardLeaves DEF OldOrInForce
<1>. QED
  BY <1>1, <1>2

(* The two discards of a binding that comes or goes. *)
LEMMA BindingKeepsBooks ==
  ASSUME FullInv, NEW act \in Specs
  PROVE  LET u == discard_translations(discard_translations(tab, act.from, 1), act.to, 1)
         IN  /\ BookInv(u, {})
             /\ \A a \in Slot : InUse(u, a) =>
                  /\ InUse(tab, a)
                  /\ u.tt[a].entry = tab.tt[a].entry /\ u.tt[a].base = tab.tt[a].base
                  /\ ~ overlaps(act.from, 1, u.tt[a].base) /\ ~ overlaps(act.to, 1, u.tt[a].base)
<1>0. TableInv(tab) /\ BookInv(tab, {}) /\ act.from \in Nat /\ act.to \in Nat
  BY CodeAssumption, Zenon DEF FullInv, IInv
<1>a. 1 \in Nat \ {0}
  OBVIOUS
<1>. DEFINE s == discard_translations(tab, act.from, 1)
            u == discard_translations(s, act.to, 1)
<1>1. /\ TableInv(s) /\ BookInv(s, {})
      /\ \A a \in Slot : InUse(s, a) =>
           /\ InUse(tab, a) /\ ~ overlaps(act.from, 1, s.tt[a].base)
           /\ s.tt[a].entry = tab.tt[a].entry /\ s.tt[a].base = tab.tt[a].base
  <2>1. TableInv(s)
    BY <1>0, DiscardKeeps
  <2>2. BookInv(s, {})
    BY <1>0, <1>a, DiscardKeepsBooks, Zenon
  <2>. QED
    BY <1>0, <1>a, <2>1, <2>2, DiscardLeaves, Zenon
<1>. HIDE DEF s
<1>2. /\ BookInv(u, {})
      /\ \A a \in Slot : InUse(u, a) =>
           /\ InUse(s, a) /\ ~ overlaps(act.to, 1, u.tt[a].base)
           /\ u.tt[a].entry = s.tt[a].entry /\ u.tt[a].base = s.tt[a].base
  <2>1. BookInv(u, {})
    BY <1>0, <1>1, <1>a, DiscardKeepsBooks, Zenon
  <2>. QED
    BY <1>0, <1>1, <1>a, <2>1, DiscardLeaves, Zenon
<1>. HIDE DEF u
<1>. QED
  BY <1>1, <1>2, ZenonT(40) DEF s, u

-----------------------------------------------------------------------------
(* The results.                                                             *)

(* Every step keeps the whole invariant. *)
LEMMA NextBooks == FullInv /\ [Next]_vars => FullInv'
<1>. SUFFICES ASSUME FullInv, [Next]_vars PROVE FullInv'
  OBVIOUS
<1>0. IInv' /\ panic \in {"no", "get_SB_info", "LibVEX_Chain"} /\ BookInv(tab, {})
  BY StepKeeps DEF FullInv
<1>. SUFFICES BookInv(tab', {}) /\ panic' \in {"no", "get_SB_info", "LibVEX_Chain"}
  BY <1>0 DEF FullInv
<1>1. ASSUME NEW g \in Entries, handle_tt_miss(g) \/ handle_noredir_jump(g)
      PROVE  BookInv(tab', {}) /\ panic' \in {"no", "get_SB_info", "LibVEX_Chain"}
  BY <1>1, MissKeepsBooks, NoredirKeepsBooks
<1>2. ASSUME NEW a \in Slot, NEW k \in DOMAIN tab.tt[a].jumps, handle_chain_me(a, k)
      PROVE  BookInv(tab', {}) /\ panic' \in {"no", "get_SB_info", "LibVEX_Chain"}
  BY <1>2, ChainKeepsBooks
<1>3. ASSUME NEW r \in Ranges, Discard(r)
      PROVE  BookInv(tab', {}) /\ panic' \in {"no", "get_SB_info", "LibVEX_Chain"}
  <2>1. r[1] \in Nat /\ r[2] \in Nat \ {0}
    BY ExtentAssumption, Zenon
  <2>. QED
    BY <1>0, <1>3, <2>1, DiscardStepKeepsBooks, Zenon DEF Discard
<1>4. ASSUME NEW act \in Specs, maybe_add_active(act) \/ redir_notify_delete_DebugInfo(act)
      PROVE  BookInv(tab', {}) /\ panic' \in {"no", "get_SB_info", "LibVEX_Chain"}
  <2>1. /\ tab' = discard_translations(discard_translations(tab, act.from, 1), act.to, 1)
        /\ panic' = panic
    BY <1>4 DEF maybe_add_active, redir_notify_delete_DebugInfo
  <2>. QED
    BY <1>0, <2>1, BindingKeepsBooks, Zenon
<1>5. CASE UNCHANGED vars
  BY <1>0, <1>5 DEF vars
<1>. QED
  BY <1>1, <1>2, <1>3, <1>4, <1>5, Zenon DEF Next

(* The whole invariant holds. *)
LEMMA BooksAreKept == Spec => []FullInv
  BY InitBooks, NextBooks, PTL DEF Spec

(* Slots, hash tables and host code stay within a sector, and chaining      *)
(* always finds the translation it has just asked for, for every program    *)
(* and every size of the tables.                                            *)
THEOREM TablesStayInBounds == Spec => []TypeOK
<1>1. FullInv => TypeOK
  <2>. SUFFICES ASSUME FullInv PROVE TypeOK
    OBVIOUS
  <2>1. /\ active \subseteq Specs /\ ShapeInv(tab) /\ UseInv(tab) /\ BookShape(tab)
        /\ PlaceInv(tab) /\ HashInv(tab) /\ InfoInv(tab, {}) /\ FastInv(tab)
        /\ panic \in {"no", "get_SB_info", "LibVEX_Chain"}
    BY DEF FullInv, IInv, TableInv, BookInv
  <2>2. tab.htt \in [Sector -> [HttIx -> TTEno \cup {EMPTY, DELETED}]]
    <3>1. ASSUME NEW s \in Sector
          PROVE  tab.htt[s] \in [HttIx -> TTEno \cup {EMPTY, DELETED}]
      <4>1. \A j \in HttIx : tab.htt[s][j] \in TTEno \cup {EMPTY, DELETED}
        BY <2>1, Zenon DEF HashInv
      <4>2. tab.htt[s] = [j \in HttIx |-> tab.htt[s][j]]
        BY <2>1 DEF BookShape, IsFunctionOn
      <4>. QED
        BY <4>1, <4>2
    <3>2. tab.htt = [s \in Sector |-> tab.htt[s]]
      BY <2>1 DEF BookShape, IsFunctionOn
    <3>. QED
      BY <3>1, <3>2
  <2>3. tab.tc_next \in [Sector -> 0 .. TcSize]
    <3>1. \A s \in Sector : tab.tc_next[s] \in 0 .. TcSize
      BY <2>1, Zenon DEF PlaceInv
    <3>2. tab.tc_next = [s \in Sector |-> tab.tc_next[s]]
      BY <2>1 DEF BookShape, IsFunctionOn
    <3>. QED
      BY <3>1, <3>2, Zenon
  <2>4. tab.unredir \subseteq Guest /\ tab.info \subseteq Guest
    BY <2>1 DEF InfoInv
  <2>. QED
    BY <2>1, <2>2, <2>3, <2>4 DEF TypeOK, UseInv, FastInv
<1>. QED
  BY BooksAreKept, <1>1, PTL

(* The search of the hash tables is exact, for every hash function and      *)
(* every order of the deletions.                                            *)
THEOREM SearchStaysExact == Spec => []SearchIsExact
<1>1. FullInv => SearchIsExact
  BY SearchFindsAll, ZenonT(40) DEF FullInv, IInv, BookInv, SearchIsExact
<1>. QED
  BY BooksAreKept, <1>1, PTL

(* Cachegrind has the information of every translation, and of nothing else *)
(* but blocks that are redirected.                                          *)
THEOREM InfoIsKept == Spec => []InfoFollowsTranslations
<1>1. FullInv => InfoFollowsTranslations
  BY DEF FullInv, BookInv, InfoInv, InfoFollowsTranslations, Froms
<1>. QED
  BY BooksAreKept, <1>1, PTL

(* The host extents that are not dead are those of the translations in use, *)
(* one each.                                                                *)
THEOREM ExtentsAreKept == Spec => []LiveExtentsAreInUse
<1>1. FullInv => LiveExtentsAreInUse
  <2>. SUFFICES ASSUME FullInv, NEW s \in Sector
                PROVE  Cardinality({x \in tab.hx[s] : ~ HostExtent__is_dead(tab, s, x)})
                         = NInUse(tab, s)
    BY DEF LiveExtentsAreInUse
  <2>. DEFINE I == {i \in TTEno : InUse(tab, <<s, i>>)}
              X == {x \in tab.hx[s] : ~ HostExtent__is_dead(tab, s, x)}
              f == [i \in I |-> ExtentOf(tab, <<s, i>>)]
  <2>1. PlaceInv(tab) /\ UseInv(tab)
    BY DEF FullInv, IInv, TableInv, BookInv
  <2>2. \A i \in I : <<s, i>> \in Slot /\ <<s, i>>[1] = s /\ <<s, i>>[2] = i
    BY DEF Slot
  <2>3. ASSUME NEW i \in I
        PROVE  ExtentOf(tab, <<s, i>>) \in X
    <3>. DEFINE a == <<s, i>>
                x == ExtentOf(tab, a)
    <3>1. a \in Slot /\ a[1] = s /\ a[2] = i /\ InUse(tab, a)
      BY <2>2, Zenon
    <3>2. /\ tab.tt[a].base \in Guest /\ tab.tt[a].tcptr \in Nat /\ x \in tab.hx[s]
      BY <2>1, <3>1 DEF PlaceInv
    <3>3. x.tteNo = i /\ x.start = tab.tt[a].tcptr /\ x.len = Code[tab.tt[a].base].len
      BY <3>1 DEF ExtentOf
    <3>. HIDE DEF x
    <3>4. x.len \in Nat /\ x.len > 0
      <4>1. \A z \in tab.hx[s] : z.len \in Nat \ {0}
        BY <2>1, Zenon DEF PlaceInv
      <4>2. x.len \in Nat \ {0}
        BY <3>2, <4>1
      <4>. QED
        BY <4>2
    <3>5. tab.tt[a].status = "InUse"
      BY <3>1 DEF InUse
    <3>6. ~ (tab.tt[a].tcptr >= x.start + x.len)
      BY <3>2, <3>3, <3>4
    <3>7. <<s, x.tteNo>> = a
      BY <3>3
    <3>. HIDE DEF a
    <3>8. ~ HostExtent__is_dead(tab, s, x)
      BY <3>5, <3>6, <3>7 DEF HostExtent__is_dead
    <3>. QED
      BY <3>2, <3>8 DEF x, a
  <2>4. ASSUME NEW x \in X
        PROVE  x.tteNo \in I /\ x = ExtentOf(tab, <<s, x.tteNo>>)
    <3>. DEFINE a == <<s, x.tteNo>>
    <3>1. x.tteNo \in TTEno /\ a \in Slot
      BY <2>1 DEF PlaceInv, Slot
    <3>2. tab.tt[a].status # "Deleted" /\ ~ (tab.tt[a].tcptr >= x.start + x.len)
      BY DEF HostExtent__is_dead
    <3>3. InUse(tab, a)
      BY <2>1, <3>1, <3>2, Zenon DEF UseInv, InUse
    <3>4. x = ExtentOf(tab, a) \/ x.start + x.len <= tab.tt[a].tcptr
      BY <2>1, <3>3, Zenon DEF PlaceInv
    <3>5. x.start \in Nat /\ x.len \in Nat /\ tab.tt[a].tcptr \in Nat
      BY <2>1, <3>1, <3>3 DEF PlaceInv
    <3>6. x = ExtentOf(tab, a)
      BY <3>2, <3>4, <3>5, Zenon
    <3>. QED
      BY <3>1, <3>3, <3>6, ZenonT(40)
  <2>5. \A i, j \in I : ExtentOf(tab, <<s, i>>) = ExtentOf(tab, <<s, j>>) => i = j
    <3>. TAKE i, j \in I
    <3>1. ExtentOf(tab, <<s, i>>).tteNo = i /\ ExtentOf(tab, <<s, j>>).tteNo = j
      BY DEF ExtentOf
    <3>. QED
      BY <3>1
  <2>6. IsFiniteSet(I)
    BY SizeAssumption, FS_Subset, Zenon
  <2>. HIDE DEF I, X
  <2>7. f \in Bijection(I, X)
    <3>1. f \in [I -> X]
      BY <2>3
    <3>2. \A i, j \in I : f[i] = f[j] => i = j
      BY <2>5
    <3>3. \A x \in X : \E i \in I : f[i] = x
      BY <2>4, Zenon
    <3>. HIDE DEF f
    <3>. QED
      BY <3>1, <3>2, <3>3, Zenon DEF Bijection, Injection, Surjection, IsInjective
  <2>8. Cardinality(X) = Cardinality(I)
    BY <2>6, <2>7, FS_Bijection, ZenonT(40) DEF ExistsBijection
  <2>. QED
    BY <2>8 DEF NInUse, X, I
<1>. QED
  BY BooksAreKept, <1>1, PTL

(* Discarding a range leaves no translation made of it, whatever the        *)
(* extents, the classes and the range.                                      *)
THEOREM DiscardsAreComplete == Spec => []DiscardsCover
<1>1. FullInv => DiscardsCover
  <2>. SUFFICES ASSUME FullInv, NEW r \in Ranges
                PROVE  LET t == discard_translations(tab, r[1], r[2])
                       IN  /\ \A a \in Slot : InUse(t, a) => ~ overlaps(r[1], r[2], t.tt[a].base)
                           /\ \A g \in t.unredir : ~ overlaps(r[1], r[2], g)
    BY DEF DiscardsCover
  <2>0. r[1] \in Nat /\ r[2] \in Nat \ {0}
    BY ExtentAssumption
  <2>1. r[1] \in Nat /\ r[2] \in Nat \ {0} /\ TableInv(tab) /\ BookInv(tab, {})
    BY <2>0, Zenon DEF FullInv, IInv
  <2>. QED
    BY <2>1, DiscardLeaves, Zenon
<1>. QED
  BY BooksAreKept, <1>1, PTL

(* What the fast cache holds for an address no redirection is about is in   *)
(* use.                                                                     *)
THEOREM FastCacheStaysLive == Spec => []FastIsLive
<1>1. FullInv => FastIsLive
  BY DEF FullInv, BookInv, FastInv, FastIsLive, Froms
<1>. QED
  BY BooksAreKept, <1>1, PTL

-----------------------------------------------------------------------------

(* No binding is replaced by one of higher priority. *)
NoReplacement ==
  \A s, r \in Specs : s.from = r.from /\ s.to # r.to => s.tag = 0 \/ s.tag # r.tag

(* The blocks at both ends of a redirection begin with an instruction VEX   *)
(* knows.                                                                   *)
EndsHaveCode == \A s \in Specs : overlaps(s.from, 1, s.from) /\ overlaps(s.to, 1, s.to)

(* An address has one binding at most, and every translation is made of     *)
(* what its entry is bound to.                                              *)
RedirInv ==
  /\ \A r, s \in active : r.from = s.from => r = s
  /\ \A a \in Slot : InUse(tab, a) => tab.tt[a].base = LookupIn(active, tab.tt[a].entry)

(* Where a binding sends its address, and that others do not matter. *)
LEMMA LookupIsBound ==
  ASSUME NEW A, \A r, s \in A : r.from = s.from => r = s, NEW g
  PROVE  /\ \A r \in A : r.from = g => LookupIn(A, g) = r.to
         /\ (\A r \in A : r.from # g) => LookupIn(A, g) = g
  BY DEF LookupIn

(* Every step keeps the translations as the bindings say. *)
LEMMA NextRedir ==
  ASSUME NoReplacement, EndsHaveCode
  PROVE  FullInv /\ RedirInv /\ [Next]_vars => RedirInv'
<1>. SUFFICES ASSUME FullInv, RedirInv, [Next]_vars PROVE RedirInv'
  OBVIOUS
<1>0. /\ \A r, s \in active : r.from = s.from => r = s
      /\ \A a \in Slot : InUse(tab, a) => tab.tt[a].base = LookupIn(active, tab.tt[a].entry)
      /\ active \subseteq Specs
  BY Zenon DEF RedirInv, FullInv, IInv
<1>1. ASSUME active' = active, OldOrInForce(tab, tab')
      PROVE  RedirInv'
  BY <1>0, <1>1, ZenonT(40) DEF RedirInv, OldOrInForce, redir_do_lookup, LookupIn, InUse
<1>2. ASSUME NEW g \in Entries, handle_tt_miss(g) \/ handle_noredir_jump(g)
      PROVE  RedirInv'
  BY <1>1, <1>2, MissKeepsBooks, NoredirKeepsBooks, Zenon
<1>3. ASSUME NEW a \in Slot, NEW k \in DOMAIN tab.tt[a].jumps, handle_chain_me(a, k)
      PROVE  RedirInv'
  BY <1>1, <1>3, ChainKeepsBooks, Zenon
<1>4. ASSUME NEW r \in Ranges, Discard(r)
      PROVE  RedirInv'
  <2>1. r[1] \in Nat /\ r[2] \in Nat \ {0}
    BY ExtentAssumption, Zenon
  <2>. QED
    BY <1>1, <1>4, <2>1, DiscardStepKeepsBooks, Zenon DEF Discard
<1>5. ASSUME NEW act \in Specs,
             tab' = discard_translations(discard_translations(tab, act.from, 1), act.to, 1),
             \A r, s \in active' : r.from = s.from => r = s,
             \A r : r.from # act.from => (r \in active' <=> r \in active),
             (\A r \in active : r.from # act.from) \/ act \in active
      PROVE  RedirInv'
  <2>1. ASSUME NEW a \in Slot, InUse(tab', a)
        PROVE  tab'.tt[a].base = LookupIn(active', tab'.tt[a].entry)
    <3>. DEFINE e == tab.tt[a].entry
                b == tab.tt[a].base
    <3>1. /\ InUse(tab, a) /\ tab'.tt[a].entry = e /\ tab'.tt[a].base = b
          /\ ~ overlaps(act.from, 1, b) /\ ~ overlaps(act.to, 1, b)
      BY <1>5, <2>1, BindingKeepsBooks, Zenon
    <3>2. b = LookupIn(active, e)
      BY <1>0, <3>1, Zenon
    <3>. HIDE DEF e, b
    <3>3. e # act.from
      <4>. SUFFICES ASSUME e = act.from PROVE FALSE
        OBVIOUS
      <4>1. b = act.from \/ b = act.to
        BY <1>0, <1>5, <3>2, LookupIsBound, ZenonT(40)
      <4>. QED
        BY <3>1, <4>1 DEF EndsHaveCode
    <3>4. LookupIn(active', e) = LookupIn(active, e)
      <4>1. CASE \E r \in active : r.from = e
        <5>1. PICK r \in active : r.from = e
          BY <4>1
        <5>2. r \in active'
          BY <1>5, <3>3, <5>1, ZenonT(40)
        <5>. QED
          BY <1>0, <1>5, <5>1, <5>2, LookupIsBound
      <4>2. CASE \A r \in active : r.from # e
        <5>1. \A r \in active' : r.from # e
          BY <1>5, <3>3, <4>2, Zenon
        <5>. QED
          BY <1>0, <1>5, <4>2, <5>1, LookupIsBound
      <4>. QED
        BY <4>1, <4>2, Zenon
    <3>. QED
      BY <3>1, <3>2, <3>4, ZenonT(40)
  <2>. QED
    BY <1>5, <2>1 DEF RedirInv, InUse
<1>6. ASSUME NEW act \in Specs, maybe_add_active(act)
      PROVE  RedirInv'
  <2>. DEFINE old == {a \in active : a.from = act.from}
  <2>1. /\ \A a \in old : a.to # act.to /\ a.tag = act.tag /\ a.tag # 0
        /\ active' = (active \ old) \cup {act}
        /\ tab' = discard_translations(discard_translations(tab, act.from, 1), act.to, 1)
    BY <1>6, Zenon DEF maybe_add_active
  <2>2. \A r \in active : r.from # act.from
    BY <1>0, <2>1, Zenon DEF NoReplacement
  <2>3. active' = active \cup {act}
    BY <2>1, <2>2, Zenon
  <2>4. \A r, s \in active' : r.from = s.from => r = s
    BY <1>0, <2>2, <2>3, Zenon
  <2>5. \A r : r.from # act.from => (r \in active' <=> r \in active)
    BY <2>3, Zenon
  <2>. QED
    BY <1>5, <2>1, <2>2, <2>4, <2>5, Zenon
<1>7. ASSUME NEW act \in Specs, redir_notify_delete_DebugInfo(act)
      PROVE  RedirInv'
  <2>1. /\ act \in active /\ active' = active \ {act}
        /\ tab' = discard_translations(discard_translations(tab, act.from, 1), act.to, 1)
    BY <1>7, Zenon DEF redir_notify_delete_DebugInfo
  <2>2. \A r, s \in active' : r.from = s.from => r = s
    BY <1>0, <2>1, Zenon
  <2>3. \A r : r.from # act.from => (r \in active' <=> r \in active)
    BY <2>1, Zenon
  <2>. QED
    BY <1>5, <2>1, <2>2, <2>3, Zenon
<1>8. CASE UNCHANGED vars
  BY <1>0, <1>8 DEF vars, RedirInv, InUse
<1>. QED
  BY <1>2, <1>3, <1>4, <1>6, <1>7, <1>8, Zenon DEF Next

(* Every translation was made of the code its entry is redirected to now,   *)
(* as long as no binding is replaced by one of higher priority and the      *)
(* blocks at both ends of a redirection are not empty: maybe_add_active and *)
(* redir_notify_delete_DebugInfo discard what they must.                    *)
THEOREM RedirectionsTakeEffect ==
  ASSUME NoReplacement, EndsHaveCode
  PROVE  Spec => []RedirectionsInForce
<1>1. Init => RedirInv
  BY DEF Init, RedirInv, InUse, EmptyTTE
<1>2. FullInv /\ RedirInv /\ [Next]_vars => RedirInv'
  BY NextRedir, Zenon
<1>3. RedirInv => RedirectionsInForce
  BY DEF RedirInv, RedirectionsInForce, redir_do_lookup, LookupIn
<1>. QED
  BY InitBooks, NextBooks, <1>1, <1>2, <1>3, PTL DEF Spec
=============================================================================
