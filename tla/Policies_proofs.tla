-------------------------- MODULE Policies_proofs ---------------------------
(***************************************************************************)
(* Proofs about the replacement policies: what one set keeps under each,   *)
(* that the miss history of one is the window it is meant to be, and how   *)
(* the adaptive policies choose by these histories.  They are for every    *)
(* associativity, set of tags, number of policies, window and threshold.   *)
(***************************************************************************)
EXTENDS SetReplacement, MissWindow, PolicySelection, Operators_proofs

-----------------------------------------------------------------------------
(* One set under a policy.                                                 *)

(***************************************************************************)
(* The inductive invariant.  Besides the properties of the policies it     *)
(* says that resident blocks were referenced and that reused blocks are    *)
(* resident.                                                               *)
(***************************************************************************)
SetInv ==
  /\ SetTypeOK
  /\ NoDuplicateBlocks
  /\ Blocks(set) \subseteq used
  /\ reused \subseteq Blocks(set)
  /\ LruHoldsMostRecent
  /\ FifoHoldsLastInstalled
  /\ LipConfinesUnreused

(* An empty set satisfies the invariant. *)
LEMMA InitSet == SetInit => SetInv
<1> SUFFICES ASSUME SetInit PROVE SetInv
  OBVIOUS
<1> USE AssocAssumption DEF SetInit, EmptySet
<1>1. SetTypeOK /\ NoDuplicateBlocks /\ LipConfinesUnreused
  BY DEF SetTypeOK, NoDuplicateBlocks, LipConfinesUnreused
<1>2. Blocks(set) = {}
  BY DEF Blocks
<1>3. HoldsLast(set, used, newer) /\ HoldsLast(set, used, later)
  BY <1>2 DEF HoldsLast
<1> QED
  BY <1>1, <1>2, <1>3 DEF SetInv, LruHoldsMostRecent, FifoHoldsLastInstalled

(* A miss that installs at the MRU end keeps the last blocks of an order in *)
(* which the new block comes last: LRU and FIFO alike.                      *)
LEMMA InstallHoldsLast ==
  ASSUME NEW s \in Contents(Tag), NEW tag \in Tag, NEW refs, NEW order \in SUBSET (Tag \X Tag),
         Blocks(s) \subseteq refs, HoldsLast(s, refs, order), ~Hit(s, tag)
  PROVE  HoldsLast(InstallAtMRU(s, tag), refs \cup {tag}, MakeLast(order, refs, tag))
<1> DEFINE t == InstallAtMRU(s, tag)
           refs2 == refs \cup {tag}
           order2 == MakeLast(order, refs, tag)
<1> USE AssocAssumption, TagAssumption
<1>1. /\ t[0] = tag
      /\ \A i \in Ways : i # 0 => i - 1 \in Ways /\ t[i] = s[i - 1]
      /\ 0 \in Ways /\ Assoc - 1 \in Ways
  BY DEF InstallAtMRU, Ways
<1>2. \A i \in Ways : s[i] # tag
  BY DEF Hit
<1>3. \A b, c : b # tag /\ c # tag /\ <<b, c>> \in order => <<b, c>> \in order2
  BY DEF MakeLast
<1>4. \A c \in refs : c # tag => <<tag, c>> \in order2
  BY DEF MakeLast
<1> HIDE DEF t, order2
<1>5. \A b : b \in Blocks(t) <=> b = tag \/ \E i \in Ways : i # Assoc - 1 /\ b = s[i] /\ b # Free
  <2>1. ASSUME NEW i \in Ways, i # Assoc - 1
        PROVE  i + 1 \in Ways /\ t[i + 1] = s[i]
    BY <1>1, <2>1 DEF Ways
  <2>2. ASSUME NEW i \in Ways, i # 0
        PROVE  i - 1 # Assoc - 1
    BY <2>2 DEF Ways
  <2>3. ASSUME NEW b \in Blocks(t), b # tag
        PROVE  \E i \in Ways : i # Assoc - 1 /\ b = s[i] /\ b # Free
    <3>1. PICK k \in Ways : b = t[k] /\ b # Free
      BY <2>3 DEF Blocks
    <3>2. k # 0
      BY <1>1, <2>3, <3>1
    <3> QED
      BY <1>1, <2>2, <3>1, <3>2
  <2>4. tag \in Blocks(t)
    BY <1>1 DEF Blocks
  <2>5. ASSUME NEW i \in Ways, i # Assoc - 1, s[i] # Free
        PROVE  s[i] \in Blocks(t)
    BY <2>1, <2>5 DEF Blocks
  <2> QED
    BY <2>3, <2>4, <2>5
<1>6. ASSUME NEW i \in Ways, NEW j \in Ways, i < j, t[j] # Free
      PROVE  <<t[i], t[j]>> \in order2
  <2>1. j # 0 /\ j - 1 \in Ways /\ t[j] = s[j - 1]
    BY <1>1, <1>6 DEF Ways
  <2>2. CASE i = 0
    BY <1>1, <1>2, <1>4, <1>6, <2>1, <2>2 DEF Blocks
  <2>3. CASE i # 0
    <3>1. i - 1 \in Ways /\ t[i] = s[i - 1] /\ i - 1 < j - 1
      BY <1>1, <1>6, <2>3 DEF Ways
    <3>2. <<s[i - 1], s[j - 1]>> \in order
      BY <1>6, <2>1, <3>1, Zenon DEF HoldsLast
    <3> QED
      BY <1>2, <1>3, <2>1, <3>1, <3>2
  <2> QED
    BY <2>2, <2>3
<1>7. ASSUME NEW b \in Blocks(t), NEW c \in refs2 \ Blocks(t)
      PROVE  <<b, c>> \in order2
  <2>1. c # tag /\ c \in refs
    BY <1>5
  <2>2. CASE b = tag
    BY <1>4, <2>1, <2>2
  <2>3. CASE b # tag
    <3>1. PICK i \in Ways : i # Assoc - 1 /\ b = s[i] /\ b # Free
      BY <1>5, <2>3
    <3>2. b \in Blocks(s)
      BY <3>1 DEF Blocks
    <3>3. CASE c \notin Blocks(s)
      BY <1>3, <2>1, <2>3, <3>2, <3>3 DEF HoldsLast
    <3>4. CASE c \in Blocks(s)
      <4>1. PICK k \in Ways : c = s[k] /\ c # Free
        BY <3>4 DEF Blocks
      <4>2. k = Assoc - 1
        BY <1>5, <4>1
      <4>3. i < k
        BY <3>1, <4>2 DEF Ways
      <4>4. <<b, c>> \in order
        BY <3>1, <4>1, <4>3 DEF HoldsLast
      <4> QED
        BY <1>3, <2>1, <2>3, <4>4
    <3> QED
      BY <3>3, <3>4
  <2> QED
    BY <2>2, <2>3
<1>8. ASSUME NEW j \in Ways, t[j] = Free
      PROVE  refs2 = Blocks(t)
  <2>1. j # 0 /\ j - 1 \in Ways /\ s[j - 1] = Free /\ j - 1 < Assoc - 1
    BY <1>1, <1>8 DEF Ways
  <2>2. refs = Blocks(s)
    BY <2>1 DEF HoldsLast
  <2>3. s[Assoc - 1] = Free
    <3> SUFFICES ASSUME s[Assoc - 1] # Free PROVE FALSE
      OBVIOUS
    <3>1. <<s[j - 1], s[Assoc - 1]>> \in Tag \X Tag
      BY <1>1, <2>1 DEF HoldsLast
    <3> QED
      BY <2>1, <3>1
  <2>4. \A b : b \in Blocks(t) <=> b = tag \/ b \in Blocks(s)
    BY <1>5, <2>3 DEF Blocks
  <2> QED
    BY <2>2, <2>4
<1>9. HoldsLast(t, refs2, order2)
  <2> HIDE DEF refs2
  <2> QED  BY <1>6, <1>7, <1>8 DEF HoldsLast
<1> QED
  BY <1>9 DEF t, order2

(* A hit under LRU makes the block the last one used and the first way. *)
LEMMA MoveHoldsLast ==
  ASSUME NEW s \in Contents(Tag), NEW tag \in Tag, NEW refs, NEW order \in SUBSET (Tag \X Tag),
         Distinct(s), Blocks(s) \subseteq refs, HoldsLast(s, refs, order), Hit(s, tag)
  PROVE  HoldsLast(MoveToFront(s, HitWay(s, tag)), refs \cup {tag}, MakeLast(order, refs, tag))
<1> DEFINE w == HitWay(s, tag)
           t == MoveToFront(s, w)
           order2 == MakeLast(order, refs, tag)
           from(i) == IF i = 0 THEN w ELSE IF i <= w THEN i - 1 ELSE i
<1> USE AssocAssumption, TagAssumption
<1>1. w \in Ways /\ s[w] = tag
  BY HitWayIsHit
<1>2. tag \in Blocks(s) /\ refs \cup {tag} = refs
  BY <1>1 DEF Blocks
<1>3. Blocks(t) = Blocks(s)
  BY <1>1, MoveToFrontKeeps
<1>4. \A b, c : b # tag /\ c # tag /\ <<b, c>> \in order => <<b, c>> \in order2
  BY DEF MakeLast
<1>5. \A c \in refs : c # tag => <<tag, c>> \in order2
  BY DEF MakeLast
<1> HIDE DEF w, order2
<1>6. /\ \A i \in Ways : from(i) \in Ways /\ t[i] = s[from(i)]
      /\ \A i \in Ways : i # 0 => from(i) # w
      /\ \A i, j \in Ways : 0 < i /\ i < j => from(i) < from(j)
      /\ from(0) = w
  BY <1>1 DEF MoveToFront, Ways
<1>7. \A i \in Ways : i # 0 => t[i] # tag
  BY <1>1, <1>6 DEF Distinct
<1> HIDE DEF t, from
<1>8. ASSUME NEW i \in Ways, NEW j \in Ways, i < j, t[j] # Free
      PROVE  <<t[i], t[j]>> \in order2
  <2>1. j # 0 /\ t[j] # tag /\ t[j] \in refs
    BY <1>3, <1>7, <1>8 DEF Blocks, Ways
  <2>2. CASE i = 0
    BY <1>1, <1>5, <1>6, <2>1, <2>2
  <2>3. CASE i # 0
    <3>1. from(i) < from(j) /\ t[i] # tag
      BY <1>6, <1>7, <1>8, <2>3 DEF Ways
    <3>2. <<t[i], t[j]>> \in order
      BY <1>6, <1>8, <3>1 DEF HoldsLast
    <3> QED
      BY <1>4, <2>1, <3>1, <3>2
  <2> QED
    BY <2>2, <2>3
<1>9. ASSUME NEW b \in Blocks(t), NEW c \in refs \ Blocks(t)
      PROVE  <<b, c>> \in order2
  <2>1. c # tag /\ b \in Blocks(s) /\ c \in refs \ Blocks(s)
    BY <1>2, <1>3
  <2>2. <<b, c>> \in order
    BY <2>1 DEF HoldsLast
  <2> QED
    BY <1>4, <1>5, <2>1, <2>2
<1>10. ASSUME NEW j \in Ways, t[j] = Free
       PROVE  refs = Blocks(t)
  BY <1>3, <1>6, <1>10 DEF HoldsLast
<1>11. HoldsLast(t, refs, order2)
  BY <1>8, <1>9, <1>10 DEF HoldsLast
<1> QED
  BY <1>2, <1>11 DEF t, w, order2

(* A reference under LIP keeps the ways before the last one to blocks that  *)
(* are in the new set of reused blocks.                                     *)
LEMMA LipConfines ==
  ASSUME NEW s \in Contents(Tag), NEW tag \in Tag, NEW r, NEW r2,
         \A i \in Ways : i < Assoc - 1 => s[i] \in r \cup {Free},
         r2 = IF Hit(s, tag) THEN r \cup {tag} ELSE r \cap Blocks(setref_lip(s, tag))
  PROVE  \A i \in Ways : i < Assoc - 1 => setref_lip(s, tag)[i] \in r2 \cup {Free}
<1> USE AssocAssumption
<1>1. CASE Hit(s, tag)
  <2> DEFINE w == HitWay(s, tag)
  <2>1. w \in Ways /\ s[w] = tag
    BY <1>1, HitWayIsHit
  <2>2. setref_lip(s, tag) = MoveToFront(s, w) /\ r2 = r \cup {tag}
    BY <1>1 DEF setref_lip
  <2> HIDE DEF w
  <2>3. ASSUME NEW i \in Ways, i < Assoc - 1
        PROVE  \/ setref_lip(s, tag)[i] = tag
               \/ \E k \in Ways : k < Assoc - 1 /\ setref_lip(s, tag)[i] = s[k]
    <3>1. CASE i = 0
      BY <2>1, <2>2, <3>1 DEF MoveToFront
    <3>2. CASE i # 0 /\ i <= w
      <4>1. i - 1 \in Ways /\ i - 1 < Assoc - 1
        BY <2>3, <3>2 DEF Ways
      <4>2. setref_lip(s, tag)[i] = s[i - 1]
        BY <2>2, <3>2 DEF MoveToFront
      <4> QED
        BY <4>1, <4>2
    <3>3. CASE i # 0 /\ ~(i <= w)
      BY <2>2, <2>3, <3>3 DEF MoveToFront
    <3> QED
      BY <3>1, <3>2, <3>3
  <2> QED
    BY <2>2, <2>3
<1>2. CASE ~Hit(s, tag)
  <2> DEFINE t == InstallAt(s, tag, Assoc - 1)
  <2>1. setref_lip(s, tag) = t /\ r2 = r \cap Blocks(t)
    BY <1>2 DEF setref_lip
  <2>2. \A i \in Ways : i < Assoc - 1 => t[i] = s[i]
    BY DEF InstallAt, Contents, Ways
  <2> HIDE DEF t
  <2>3. \A i \in Ways : t[i] # Free => t[i] \in Blocks(t)
    BY DEF Blocks
  <2> QED
    BY <2>1, <2>2, <2>3
<1> QED
  BY <1>1, <1>2

(* Every reference preserves the inductive invariant. *)
LEMMA NextSet == SetInv /\ [SetNext]_setVars => SetInv'
<1> SUFFICES ASSUME SetInv, [SetNext]_setVars PROVE SetInv'
  OBVIOUS
<1>1. CASE UNCHANGED setVars
  BY <1>1 DEF setVars, SetInv, SetTypeOK, NoDuplicateBlocks, Blocks, LruHoldsMostRecent,
     FifoHoldsLastInstalled, LipConfinesUnreused, HoldsLast
<1>2. ASSUME NEW tag \in Tag, Ref(tag)
      PROVE  SetInv'
  <2>0. /\ set \in Contents(Tag) /\ Distinct(set) /\ policy \in Policies
        /\ newer \in SUBSET (Tag \X Tag) /\ later \in SUBSET (Tag \X Tag)
        /\ policy' = policy /\ set' \in Setref(policy, set, tag)
    BY <1>2 DEF SetInv, SetTypeOK, Contents, NoDuplicateBlocks, Distinct, Ref
  <2>1. /\ set' \in Contents(Tag) /\ Distinct(set') /\ tag \in Blocks(set')
        /\ Hit(set, tag) => Blocks(set') = Blocks(set)
        /\ Exchange(Tag, set, set', tag)
    BY <2>0, SetrefKeeps, TagAssumption, StudyAssumption
  <2>2. SetTypeOK'
    <3>1. newer' \subseteq Tag \X Tag /\ later' \subseteq Tag \X Tag
      BY <1>2, <2>0 DEF Ref, SetInv, SetTypeOK, MakeLast
    <3> QED
      BY <1>2, <2>0, <2>1, <3>1, Zenon DEF Ref, SetInv, SetTypeOK, Contents
  <2>3. NoDuplicateBlocks'
    BY <2>1 DEF NoDuplicateBlocks, Distinct
  <2>4. Blocks(set') \subseteq used'
    BY <1>2, <2>1 DEF Exchange, Ref, SetInv
  <2>5. reused' \subseteq Blocks(set')
    BY <1>2, <2>1 DEF Ref, SetInv
  <2>6. LruHoldsMostRecent'
    <3> SUFFICES ASSUME policy = "LRU" PROVE HoldsLast(set', used', newer')
      BY <2>0 DEF LruHoldsMostRecent
    <3>1. set' = setref_lru(set, tag)
      BY <2>0 DEF Setref
    <3>2. used' = used \cup {tag} /\ newer' = MakeLast(newer, used, tag)
      BY <1>2 DEF Ref
    <3>3. HoldsLast(set, used, newer) /\ Blocks(set) \subseteq used
      BY DEF SetInv, LruHoldsMostRecent
    <3>4. CASE Hit(set, tag)
      BY <2>0, <3>1, <3>2, <3>3, <3>4, MoveHoldsLast DEF setref_lru
    <3>5. CASE ~Hit(set, tag)
      BY <2>0, <3>1, <3>2, <3>3, <3>5, InstallHoldsLast DEF setref_lru
    <3> QED
      BY <3>4, <3>5
  <2>7. FifoHoldsLastInstalled'
    <3> SUFFICES ASSUME policy = "FIFO" PROVE HoldsLast(set', used', later')
      BY <2>0 DEF FifoHoldsLastInstalled
    <3>1. set' = setref_fifo(set, tag)
      BY <2>0 DEF Setref
    <3>2. used' = used \cup {tag} /\ HoldsLast(set, used, later) /\ Blocks(set) \subseteq used
      BY <1>2 DEF Ref, SetInv, FifoHoldsLastInstalled
    <3>3. CASE Hit(set, tag)
      <4>1. set' = set /\ later' = later
        BY <1>2, <3>1, <3>3 DEF Ref, setref_fifo
      <4>2. tag \in used
        BY <2>1, <3>2, <3>3
      <4> QED
        BY <3>2, <4>1, <4>2 DEF HoldsLast, Blocks
    <3>4. CASE ~Hit(set, tag)
      BY <1>2, <2>0, <3>1, <3>2, <3>4, InstallHoldsLast DEF setref_fifo, Ref
    <3> QED
      BY <3>3, <3>4
  <2>8. LipConfinesUnreused'
    <3> SUFFICES ASSUME policy = "LIP"
                 PROVE  \A i \in Ways : i < Assoc - 1 => set'[i] \in reused' \cup {Free}
      BY <2>0 DEF LipConfinesUnreused
    <3>1. set' = setref_lip(set, tag)
      BY <2>0 DEF Setref
    <3>2. reused' = IF Hit(set, tag) THEN reused \cup {tag} ELSE reused \cap Blocks(set')
      BY <1>2 DEF Ref
    <3>3. \A i \in Ways : i < Assoc - 1 => set[i] \in reused \cup {Free}
      BY DEF SetInv, LipConfinesUnreused
    <3>4. reused' = IF Hit(set, tag) THEN reused \cup {tag}
                    ELSE reused \cap Blocks(setref_lip(set, tag))
      BY <3>1, <3>2, Zenon
    <3>5. set \in Contents(Tag) /\ tag \in Tag
      BY <2>0
    <3>6. \A i \in Ways : i < Assoc - 1 => setref_lip(set, tag)[i] \in reused' \cup {Free}
      BY <3>3, <3>4, <3>5, LipConfines, Zenon
    <3> QED
      BY <3>1, <3>6, Zenon
  <2> QED
    BY <2>2, <2>3, <2>4, <2>5, <2>6, <2>7, <2>8 DEF SetInv, Blocks
<1> QED
  BY <1>1, <1>2 DEF SetNext

(* The replacement functions store nothing but tags of their set. *)
THEOREM SetTypeCorrect == SetSpec => []SetTypeOK
<1>1. SetInv => SetTypeOK
  BY DEF SetInv
<1> QED
  BY InitSet, NextSet, <1>1, PTL DEF SetSpec

(* No policy ever holds a block twice. *)
THEOREM NoDuplicates == SetSpec => []NoDuplicateBlocks
<1>1. SetInv => NoDuplicateBlocks
  BY DEF SetInv
<1> QED
  BY InitSet, NextSet, <1>1, PTL DEF SetSpec

(* LRU really is least recently used: it keeps the blocks used last. *)
THEOREM LruIsLru == SetSpec => []LruHoldsMostRecent
<1>1. SetInv => LruHoldsMostRecent
  BY DEF SetInv
<1> QED
  BY InitSet, NextSet, <1>1, PTL DEF SetSpec

(* FIFO really is first in, first out: it keeps the blocks installed last. *)
THEOREM FifoIsFifo == SetSpec => []FifoHoldsLastInstalled
<1>1. SetInv => FifoHoldsLastInstalled
  BY DEF SetInv
<1> QED
  BY InitSet, NextSet, <1>1, PTL DEF SetSpec

(* LIP protects the reused blocks: the others only get the LRU way. *)
THEOREM LipIsLip == SetSpec => []LipConfinesUnreused
<1>1. SetInv => LipConfinesUnreused
  BY DEF SetInv
<1> QED
  BY InitSet, NextSet, <1>1, PTL DEF SetSpec

(* A reference brings its block in and takes at most one block out. *)
THEOREM WriteAllocate == SetSpec => ReferenceKeepsOthers
<1> DEFINE Keeps == \A tag \in Tag : Ref(tag) =>
              /\ tag \in Blocks(set')
              /\ Hit(set, tag) => Blocks(set') = Blocks(set)
              /\ \E victim \in Tag : Blocks(set) \ {victim} \subseteq Blocks(set')
<1>1. SetInv => Keeps
  <2> SUFFICES ASSUME SetInv, NEW tag \in Tag, Ref(tag)
               PROVE  /\ tag \in Blocks(set')
                      /\ Hit(set, tag) => Blocks(set') = Blocks(set)
                      /\ \E victim \in Tag : Blocks(set) \ {victim} \subseteq Blocks(set')
    OBVIOUS
  <2>1. /\ set \in Contents(Tag) /\ Distinct(set) /\ policy \in Policies
        /\ set' \in Setref(policy, set, tag)
    BY DEF SetInv, SetTypeOK, Contents, NoDuplicateBlocks, Distinct, Ref
  <2> QED
    BY <2>1, SetrefKeeps, TagAssumption, StudyAssumption DEF Exchange
<1> HIDE DEF Keeps
<1>2. SetInv /\ [SetNext]_setVars => [Keeps]_setVars
  BY <1>1
<1>3. SetSpec => [][Keeps]_setVars
  BY InitSet, NextSet, <1>2, PTL DEF SetSpec
<1> QED
  BY <1>3 DEF ReferenceKeepsOthers, Keeps

(* BIP may install a missing block as MRU for every throttle from 0.02 on.  *)
(* The throw is from 1 to 100 and must fall below the hundredths, so that   *)
(* at 0.01 it never does, and the invariant fails there.                    *)
THEOREM BipIsBimodal == ASSUME Throttle # 1 PROVE SetSpec => []BipMayInsertAtHead
<1>1. BipMayInsertAtHead
  <2> SUFFICES ASSUME policy = "BIP", Throttle > 0, NEW tag \in Tag, ~Hit(set, tag)
               PROVE  \E t \in Setref(policy, set, tag) : t[0] = tag
    BY DEF BipMayInsertAtHead
  <2>1. TRUE \in BipThrows
    <3>1. CASE Throttle = 100
      BY <3>1, Zenon DEF BipThrows
    <3>2. CASE Throttle # 100
      <4>1. Throttle \in 2 .. 99
        BY <3>2, ThrottleAssumption
      <4>2. 1 \in 1 .. 100 /\ TRUE = (1 < Throttle) /\ Throttle \notin {0, 100}
        BY <4>1
      <4> QED
        BY <4>2, Zenon DEF BipThrows
    <3> QED
      BY <3>1, <3>2, Zenon
  <2>2. setref_bip(set, tag, TRUE) \in Setref(policy, set, tag)
    BY <2>1, Zenon DEF Setref
  <2>3. setref_bip(set, tag, TRUE)[0] = tag
    BY AssocAssumption DEF setref_bip, setref_lru, InstallAtMRU, Ways
  <2> QED
    BY <2>2, <2>3, Zenon
<1> QED
  BY <1>1, PTL DEF SetSpec

-----------------------------------------------------------------------------
(* One miss history.                                                       *)

(* The array holds the last outcomes, and both the kept count and the value *)
(* returned last count them.                                                *)
WindowInv ==
  /\ WindowTypeOK
  /\ ArrayIsRecent
  /\ history.historic = MissesIn(history.array)
  /\ result = history.historic

(* An empty history satisfies the invariant. *)
LEMMA InitWindow == WindowInit => WindowInv
<1> SUFFICES ASSUME WindowInit PROVE WindowInv
  OBVIOUS
<1>1. history \in History /\ history.historic = MissesIn(history.array)
  BY NewHistoryCounts DEF WindowInit
<1>2. WindowTypeOK /\ result = history.historic
  BY <1>1, WindowAssumption DEF WindowInit, WindowTypeOK, NewHistory, Outcomes
<1>3. ArrayIsRecent
  BY WindowAssumption DEF WindowInit, ArrayIsRecent, NewHistory, SlotOf, Slots
<1> QED
  BY <1>1, <1>2, <1>3 DEF WindowInv

(* Storing an outcome keeps the invariant, unless the window is of one. *)
LEMMA NextWindow == ASSUME Window # 1 PROVE WindowInv /\ [WindowNext]_windowVars => WindowInv'
<1> SUFFICES ASSUME WindowInv, [WindowNext]_windowVars PROVE WindowInv'
  OBVIOUS
<1>1. CASE UNCHANGED windowVars
  BY <1>1 DEF windowVars, WindowInv, WindowTypeOK, ArrayIsRecent, SlotOf
<1>2. ASSUME NEW v \in Outcomes, Store(v)
      PROVE  WindowInv'
  <2>1. /\ history \in History /\ history.historic = MissesIn(history.array)
        /\ history' = store_misses_history(history, v)
    BY <1>2 DEF WindowInv, WindowTypeOK, Store
  <2>2. history' \in History /\ history'.historic = MissesIn(history'.array)
    BY <2>1, StoreCounts
  <2>3. /\ history'.array = [history.array EXCEPT ![history.counter] = v]
        /\ history'.counter = NextSlot(history.counter)
        /\ history'.historic = NewHistoric(history, v)
    BY <2>1 DEF store_misses_history
  <2>4. result' = history'.historic
    BY <1>2, <2>3 DEF Store, store_misses_history_result
  <2>5. WindowTypeOK'
    <3>1. recent' \in [Slots -> Outcomes]
      BY <1>2, WindowAssumption DEF Store, WindowInv, WindowTypeOK, Slots
    <3>2. result' \in 0 .. Window
      BY <2>2, <2>4 DEF History
    <3> QED
      BY <2>2, <3>1, <3>2 DEF WindowTypeOK
  <2>6. ArrayIsRecent'
    <3> DEFINE c == history.counter
               d == history'.counter
    <3>1. c \in Slots /\ history.array \in [Slots -> Outcomes]
      BY <2>1 DEF History
    <3>2. d = IF c + 1 >= Window THEN 0 ELSE c + 1
      BY <2>3 DEF NextSlot
    <3>3. ASSUME NEW a \in Slots
          PROVE  history'.array[SlotOf(a)'] = recent'[a]
      <4>1. recent'[a] = IF a = 0 THEN v ELSE recent[a - 1]
        BY <1>2 DEF Store
      <4>2. CASE a = 0
        <5>1. SlotOf(a)' = c
          BY <3>1, <3>2, <4>2, WindowAssumption DEF SlotOf, Slots
        <5> QED
          BY <2>3, <3>1, <4>1, <4>2, <5>1
      <4>3. CASE a # 0
        <5>1. a - 1 \in Slots
          BY <3>3, <4>3, WindowAssumption DEF Slots
        <5>2. SlotOf(a)' = SlotOf(a - 1) /\ SlotOf(a - 1) # c /\ SlotOf(a - 1) \in Slots
          <6>1. /\ SlotOf(a)' = IF a < d THEN d - 1 - a ELSE Window + d - 1 - a
                /\ SlotOf(a - 1) = IF a - 1 < c THEN c - 1 - (a - 1) ELSE Window + c - 1 - (a - 1)
            BY DEF SlotOf
          <6>2. c \in 0 .. Window - 1 /\ a \in 0 .. Window - 1
            BY <3>1 DEF Slots
          <6> HIDE DEF c, d
          <6>3. SlotOf(a)' = SlotOf(a - 1) /\ SlotOf(a - 1) # c
            BY <3>2, <4>3, <6>1, <6>2, WindowAssumption
          <6>4. SlotOf(a - 1) \in Slots
            BY <4>3, <6>1, <6>2, WindowAssumption DEF Slots
          <6> QED
            BY <6>3, <6>4
        <5>3. history.array[SlotOf(a - 1)] = recent[a - 1]
          BY <5>1 DEF WindowInv, ArrayIsRecent
        <5> QED
          BY <2>3, <3>1, <4>1, <4>3, <5>2, <5>3, Zenon
      <4> QED
        BY <4>2, <4>3
    <3> QED
      BY <3>3 DEF ArrayIsRecent
  <2> QED
    BY <2>2, <2>4, <2>5, <2>6 DEF WindowInv
<1> QED
  BY <1>1, <1>2 DEF WindowNext

(* Every field of the record stays within its bounds. *)
THEOREM WindowTypeCorrect == ASSUME Window # 1 PROVE WindowSpec => []WindowTypeOK
<1>1. WindowInv => WindowTypeOK
  BY DEF WindowInv
<1> QED
  BY InitWindow, NextWindow, <1>1, PTL DEF WindowSpec

(* The circular array is the window of the last outcomes, in order. *)
THEOREM WindowIsRecent == ASSUME Window # 1 PROVE WindowSpec => []ArrayIsRecent
<1>1. WindowInv => ArrayIsRecent
  BY DEF WindowInv
<1> QED
  BY InitWindow, NextWindow, <1>1, PTL DEF WindowSpec

(* What store_misses_history returns is the number of misses in the array. *)
THEOREM ResultIsExact == ASSUME Window # 1 PROVE WindowSpec => []ReturnsMissesInArray
<1>1. WindowInv => ReturnsMissesInArray
  BY DEF WindowInv, ReturnsMissesInArray
<1> QED
  BY InitWindow, NextWindow, <1>1, PTL DEF WindowSpec

-----------------------------------------------------------------------------

(* The misses among the last k outcomes. *)
MissesAmong(k) == Cardinality({a \in Slots : a < k /\ recent[a] = 1})

(* The saturating counter against every suffix of the window: its value k   *)
(* references ago was from 0 to Window, and the hits and the misses since   *)
(* have moved it by at most one each.  The whole window alone would not be  *)
(* inductive: the outcome that leaves it may be a miss while the counter    *)
(* goes down by one only.                                                   *)
OnlineTracksSuffixes ==
  \A k \in 0 .. Window : /\ history.online <= Window - k + 2 * MissesAmong(k)
                         /\ history.online >= 2 * MissesAmong(k) - k

(* There are from 0 to k misses among the last k outcomes. *)
LEMMA MissesAmongRange ==
  ASSUME NEW k \in 0 .. Window
  PROVE  /\ IsFiniteSet({a \in Slots : a < k /\ recent[a] = 1})
         /\ MissesAmong(k) \in 0 .. k
<1> DEFINE M == {a \in Slots : a < k /\ recent[a] = 1}
<1>1. M \subseteq 0 .. k - 1
  BY WindowAssumption DEF Slots
<1>2. IsFiniteSet(0 .. k - 1) /\ Cardinality(0 .. k - 1) = k
  BY FS_Interval, WindowAssumption
<1>3. IsFiniteSet(M) /\ Cardinality(M) <= k /\ Cardinality(M) \in Nat
  BY <1>1, <1>2, FS_Subset, FS_CardinalityType
<1> QED
  BY <1>3 DEF MissesAmong

(* A new outcome joins the suffixes, each of which then ends one earlier. *)
LEMMA SuffixShifts ==
  ASSUME NEW v \in Outcomes, Store(v), NEW k \in 1 .. Window
  PROVE  MissesAmong(k)' = MissesAmong(k - 1) + v
<1> DEFINE A == {a \in Slots : a < k - 1 /\ recent[a] = 1}
           B == {a \in Slots : a < k /\ recent'[a] = 1}
           S == {a + 1 : a \in A}
           f == [a \in A |-> a + 1]
<1>1. IsFiniteSet(A) /\ Cardinality(A) \in Nat
  <2>1. k - 1 \in 0 .. Window
    BY WindowAssumption
  <2> QED
    BY <2>1, MissesAmongRange, FS_CardinalityType
<1>2. f \in Bijection(A, S)
  <2>1. \A a \in A : a \in Nat
    BY DEF Slots
  <2>2. f \in [A -> S]
    OBVIOUS
  <2>3. \A a, b \in A : f[a] = f[b] => a = b
    BY <2>1
  <2>4. \A t \in S : \E a \in A : f[a] = t
    OBVIOUS
  <2> QED
    BY <2>2, <2>3, <2>4, Zenon DEF Bijection, Injection, Surjection, IsInjective
<1>3. IsFiniteSet(S) /\ Cardinality(S) = Cardinality(A)
  <2>1. ExistsBijection(A, S)
    BY <1>2 DEF ExistsBijection
  <2> QED
    BY <1>1, <2>1, FS_Bijection
<1>4. \A a \in Slots : recent'[a] = IF a = 0 THEN v ELSE recent[a - 1]
  BY DEF Store
<1>5. 0 \notin S /\ 0 \in Slots /\ v \in {0, 1}
  BY WindowAssumption DEF Slots, Outcomes
<1>6. B \ {0} = S
  <2>1. ASSUME NEW a \in B \ {0}
        PROVE  a \in S
    <3>1. a - 1 \in A /\ a = (a - 1) + 1
      BY <1>4, WindowAssumption DEF Slots
    <3> QED
      BY <3>1
  <2>2. ASSUME NEW a \in A
        PROVE  a + 1 \in B \ {0}
    BY <1>4, WindowAssumption DEF Slots
  <2> QED
    BY <2>1, <2>2
<1>7. 0 \in B <=> v = 1
  BY <1>4, <1>5
<1>8. CASE v = 1
  <2>1. B = S \cup {0}
    BY <1>6, <1>7, <1>8
  <2>2. Cardinality(B) = Cardinality(S) + 1
    BY <1>3, <1>5, <2>1, FS_AddElement
  <2> QED
    BY <1>1, <1>3, <1>8, <2>2 DEF MissesAmong
<1>9. CASE v = 0
  <2>1. B = S
    BY <1>6, <1>7, <1>9
  <2>2. Cardinality(B) = Cardinality(A)
    BY <1>3, <2>1
  <2>3. MissesAmong(k)' = Cardinality(B) /\ MissesAmong(k - 1) = Cardinality(A)
    BY DEF MissesAmong
  <2> HIDE DEF A, B
  <2> QED
    BY <1>1, <1>9, <2>2, <2>3
<1> QED
  BY <1>5, <1>8, <1>9

(* Storing an outcome keeps the counter close to every suffix. *)
LEMMA NextOnline ==
  ASSUME Window # 1
  PROVE  WindowInv /\ OnlineTracksSuffixes /\ [WindowNext]_windowVars => OnlineTracksSuffixes'
<1> SUFFICES ASSUME WindowInv, OnlineTracksSuffixes, [WindowNext]_windowVars PROVE OnlineTracksSuffixes'
  OBVIOUS
<1>1. CASE UNCHANGED windowVars
  BY <1>1 DEF windowVars, OnlineTracksSuffixes, MissesAmong
<1>2. ASSUME NEW v \in Outcomes, Store(v)
      PROVE  OnlineTracksSuffixes'
  <2>1. history.online \in 0 .. Window /\ v \in {0, 1}
    BY DEF WindowInv, WindowTypeOK, History, Outcomes
  <2>2. history'.online = Clamp(history.online + (IF v = 1 THEN 1 ELSE -1))
    BY <1>2 DEF Store, store_misses_history, NewOnline
  <2>3. history'.online \in 0 .. Window
    BY <2>1, <2>2, WindowAssumption DEF Clamp
  <2>4. ASSUME NEW k \in 0 .. Window
        PROVE  /\ history'.online <= Window - k + 2 * MissesAmong(k)'
               /\ history'.online >= 2 * MissesAmong(k)' - k
    <3>1. CASE k = 0
      <4>1. {a \in Slots : a < 0 /\ recent'[a] = 1} = {}
        BY DEF Slots
      <4>2. MissesAmong(k)' = 0
        BY <3>1, <4>1, FS_EmptySet DEF MissesAmong
      <4> QED
        BY <2>3, <3>1, <4>2, WindowAssumption
    <3>2. CASE k # 0
      <4>1. k \in 1 .. Window /\ k - 1 \in 0 .. Window
        BY <3>2, WindowAssumption
      <4>2. MissesAmong(k)' = MissesAmong(k - 1) + v
        BY <1>2, <4>1, SuffixShifts
      <4>3. MissesAmong(k - 1) \in 0 .. k - 1
        BY <4>1, MissesAmongRange, Zenon
      <4>4. /\ history.online <= Window - (k - 1) + 2 * MissesAmong(k - 1)
            /\ history.online >= 2 * MissesAmong(k - 1) - (k - 1)
        BY <4>1 DEF OnlineTracksSuffixes
      <4> QED
        BY <2>1, <2>2, <4>1, <4>2, <4>3, <4>4, WindowAssumption DEF Clamp
    <3> QED
      BY <3>1, <3>2
  <2> QED
    BY <2>4 DEF OnlineTracksSuffixes
<1> QED
  BY <1>1, <1>2 DEF WindowNext

(* The counter of the ONLINE approach stays as close to the window of the   *)
(* SLIDING one as the hits and the misses of the window allow.              *)
THEOREM OnlineIsClose == ASSUME Window # 1 PROVE WindowSpec => []OnlineTracksWindow
<1>1. WindowInit => OnlineTracksSuffixes
  <2> SUFFICES ASSUME WindowInit, NEW k \in 0 .. Window
               PROVE  /\ history.online <= Window - k + 2 * MissesAmong(k)
                      /\ history.online >= 2 * MissesAmong(k) - k
    BY DEF OnlineTracksSuffixes
  <2>1. {a \in Slots : a < k /\ recent[a] = 1} = {}
    BY DEF WindowInit
  <2>2. MissesAmong(k) = 0 /\ history.online = 0
    BY <2>1, FS_EmptySet DEF MissesAmong, WindowInit, NewHistory
  <2> QED
    BY <2>2, WindowAssumption
<1>2. WindowInv /\ OnlineTracksSuffixes => OnlineTracksWindow
  <2> SUFFICES ASSUME WindowInv, OnlineTracksSuffixes PROVE OnlineTracksWindow
    OBVIOUS
  <2>1. {a \in Slots : a < Window /\ recent[a] = 1} = {k \in Slots : recent[k] = 1}
    BY WindowAssumption DEF Slots
  <2>2. MissesAmong(Window) = MissesIn(recent) /\ MissesIn(recent) \in 0 .. Window
    BY <2>1, MissesInRange DEF MissesAmong, MissesIn
  <2>3. /\ history.online <= Window - Window + 2 * MissesAmong(Window)
        /\ history.online >= 2 * MissesAmong(Window) - Window
    BY WindowAssumption DEF OnlineTracksSuffixes
  <2>4. history.online \in 0 .. Window
    BY DEF WindowInv, WindowTypeOK, History
  <2> QED
    BY <2>2, <2>3, <2>4, WindowAssumption DEF OnlineTracksWindow
<1> QED
  BY InitWindow, NextWindow, NextOnline, <1>1, <1>2, PTL DEF WindowSpec

-----------------------------------------------------------------------------
(* The choice among policies.                                              *)

(* The loop over the policies ends at a policy with the fewest misses. *)
LEMMA MinIsMin ==
  ASSUME NEW app, NEW hs \in [Policy -> History]
  PROVE  /\ MinMissesPolicy(app, hs) \in Policy
         /\ \A j \in Policy : Score(app, hs[MinMissesPolicy(app, hs)]) <= Score(app, hs[j])
<1> DEFINE sc == [i \in Policy |-> Score(app, hs[i])]
<1>1. sc \in [Policy -> Nat]
  BY WindowAssumption DEF Score, History
<1> HIDE DEF sc
<1>2. \E i \in Policy : \A j \in Policy : sc[i] <= sc[j] /\ (j < i => sc[i] < sc[j])
  BY <1>1, FirstLeast, PoliciesAssumption, Zenon DEF Policy
<1> QED
  BY <1>2 DEF MinMissesPolicy, sc

(* A count of misses moves by at most one a reference. *)
LEMMA ScoreMoves ==
  ASSUME NEW app, NEW h \in History, NEW v \in Outcomes, h.historic = MissesIn(h.array)
  PROVE  LET n == store_misses_history(h, v)
         IN  /\ Score(app, h) \in 0 .. Window
             /\ Score(app, n) \in 0 .. Window
             /\ Score(app, n) <= Score(app, h) + 1
             /\ Score(app, n) >= Score(app, h) - 1
<1> DEFINE n == store_misses_history(h, v)
<1>1. n \in History /\ (Window # 1 => n.historic = h.historic + v - h.array[h.counter])
  BY StoreCounts
<1>2. /\ h.historic \in 0 .. Window /\ h.online \in 0 .. Window
      /\ n.historic \in 0 .. Window /\ n.online \in 0 .. Window
      /\ h.array[h.counter] \in {0, 1} /\ v \in {0, 1}
  BY <1>1 DEF History, Outcomes
<1>3. CASE Window = 1
  <2>1. n = h
    BY <1>3, Zenon DEF store_misses_history
  <2> HIDE DEF n
  <2> QED
    BY <1>2, <2>1, WindowAssumption DEF Score, n
<1>4. CASE Window # 1
  <2>1. n.online = Clamp(h.online + (IF v = 1 THEN 1 ELSE -1))
    BY <1>4 DEF store_misses_history, NewOnline
  <2>2. n.online <= h.online + 1 /\ n.online >= h.online - 1
    BY <1>2, <2>1, WindowAssumption DEF Clamp
  <2>3. n.historic <= h.historic + 1 /\ n.historic >= h.historic - 1
    BY <1>1, <1>2, <1>4
  <2> HIDE DEF n
  <2> QED
    BY <1>2, <2>2, <2>3, WindowAssumption, Zenon DEF Score, n
<1> QED
  BY <1>3, <1>4

-----------------------------------------------------------------------------

(* Every count is exact. *)
Exact == \A i \in Policy : histories[i].historic = MissesIn(histories[i].array)

(* The lead of any policy over the one in use grows by at most two a        *)
(* reference, from nothing at the last switch.                              *)
LeadIsEarned ==
  Switching => \A i \in Policy :
    Score(approach, histories[selected]) <= Score(approach, histories[i]) + 2 * since

(* Under FIXED_WINDOW the slots of the references to come are still clean.  *)
RestIsClean ==
  approach = "FIXED_WINDOW" =>
    \A i \in Policy, k \in Slots : k >= blocks => histories[i].array[k] = 0

IInv ==
  /\ TypeOK
  /\ Exact
  /\ NeverMuchWorse
  /\ LeadIsEarned
  /\ HighThresholdPins
  /\ FixedCountsWindow
  /\ RestIsClean

(* The empty histories satisfy the invariant. *)
LEMMA InitIInv == Init => IInv
<1> SUFFICES ASSUME Init PROVE IInv
  OBVIOUS
<1> USE WindowAssumption, PoliciesAssumption, ThresholdAssumption, ULongAssumption DEF Init
<1>1. Exact
  BY NewHistoryCounts DEF Exact
<1>2. TypeOK
  BY NewHistoryCounts DEF TypeOK, Policy, Counter, Slots
<1>3. NeverMuchWorse /\ LeadIsEarned
  <2>1. 0 \in Policy /\ \A i \in Policy : Score(approach, histories[i]) = 0
    BY DEF Score, NewHistory, Policy
  <2> QED
    BY <2>1 DEF NeverMuchWorse, LeadIsEarned
<1>4. HighThresholdPins
  BY DEF HighThresholdPins
<1>5. FixedCountsWindow
  BY <1>1 DEF FixedCountsWindow, Exact, NewHistory
<1>6. RestIsClean
  BY DEF RestIsClean, NewHistory
<1> QED
  BY <1>1, <1>2, <1>3, <1>4, <1>5, <1>6, Zenon DEF IInv

(* What the policies' histories look like once a reference is stored. *)
LEMMA StoredKeeps ==
  ASSUME IInv, NEW missed \in [Policy -> Outcomes]
  PROVE  /\ Stored(missed) \in [Policy -> History]
         /\ \A i \in Policy :
              /\ Stored(missed)[i] = store_misses_history(histories[i], missed[i])
              /\ Stored(missed)[i].historic = MissesIn(Stored(missed)[i].array)
<1>1. ASSUME NEW i \in Policy
      PROVE  /\ store_misses_history(histories[i], missed[i]) \in History
             /\ store_misses_history(histories[i], missed[i]).historic
                  = MissesIn(store_misses_history(histories[i], missed[i]).array)
  <2>1. /\ histories[i] \in History /\ missed[i] \in Outcomes
        /\ histories[i].historic = MissesIn(histories[i].array)
    BY <1>1, Zenon DEF IInv, TypeOK, Exact
  <2> QED
    BY <2>1, StoreCounts, Zenon
<1> QED
  BY <1>1, Zenon DEF Stored

(* A window of FIXED_WINDOW that goes on: the slot written was clean, so    *)
(* the misses charged and the misses counted grow alike.                    *)
LEMMA FillKeeps ==
  ASSUME IInv, approach = "FIXED_WINDOW", Window # 1,
         NEW missed \in [Policy -> Outcomes], NEW i \in Policy
  PROVE  LET n == Stored(missed)[i]
         IN  /\ n.counter = NextSlot(blocks)
             /\ n.misses = n.historic
             /\ \A k \in Slots : k >= blocks + 1 => n.array[k] = 0
<1> DEFINE h == histories[i]
           v == missed[i]
           n == Stored(missed)[i]
<1>1. /\ h \in History /\ v \in {0, 1} /\ blocks \in Slots
      /\ h.historic = MissesIn(h.array) /\ h.counter = blocks /\ h.misses = h.historic
      /\ \A k \in Slots : k >= blocks => h.array[k] = 0
  BY DEF IInv, TypeOK, Exact, FixedCountsWindow, RestIsClean, Outcomes
<1>2. n = store_misses_history(h, v)
  BY StoredKeeps, Zenon
<1>3. /\ n.array = [h.array EXCEPT ![blocks] = v] /\ n.counter = NextSlot(blocks)
      /\ n.misses = (h.misses + v) % ULongSize
  BY <1>1, <1>2 DEF store_misses_history
<1>4. n.historic = h.historic + v - h.array[h.counter] /\ n \in History
  <2>1. v \in Outcomes
    BY <1>1, Zenon DEF Outcomes
  <2> HIDE DEF h, v, n
  <2> QED
    BY <1>1, <1>2, <2>1, StoreCounts, Zenon
<1>5. h.array[h.counter] = 0 /\ h.array \in [Slots -> Outcomes] /\ h.historic \in 0 .. Window
  BY <1>1 DEF Slots, History
<1>6. n.historic \in 0 .. Window
  BY <1>4 DEF History
<1> HIDE DEF n, h, v
<1>7. h.misses + v = n.historic
  BY <1>1, <1>4, <1>5
<1>8. n.misses = n.historic
  BY <1>3, <1>6, <1>7, ULongAssumption, WindowAssumption
<1>9. \A k \in Slots : k >= blocks + 1 => n.array[k] = 0
  BY <1>1, <1>3, <1>5 DEF Slots
<1> QED
  BY <1>3, <1>8, <1>9, Zenon DEF n

(* Counting a use keeps the counters. *)
LEMMA UsedKeeps ==
  ASSUME NEW u \in [Policy -> Counter], NEW i \in Policy
  PROVE  Used(u, i) \in [Policy -> Counter]
<1>1. (u[i] + 1) % ULongSize \in Counter
  BY ULongAssumption, WindowAssumption DEF Counter
<1> QED
  BY <1>1 DEF Used

(* A restarted history is a clean one. *)
LEMMA RestartedIsClean ==
  ASSUME NEW h \in History
  PROVE  LET r == Restarted(h)
         IN  /\ r \in History
             /\ r.historic = 0 /\ r.misses = 0 /\ r.counter = h.counter
             /\ \A k \in Slots : r.array[k] = 0
             /\ r.historic = MissesIn(r.array)
<1> DEFINE r == Restarted(h)
<1>1. /\ r \in History
      /\ r.historic = 0 /\ r.misses = 0 /\ r.counter = h.counter
      /\ r.array = [k \in Slots |-> 0]
  BY WindowAssumption, ULongAssumption DEF Restarted, History, Outcomes
<1> HIDE DEF r
<1>2. {k \in Slots : r.array[k] = 1} = {}
  BY <1>1
<1>3. MissesIn(r.array) = 0
  BY <1>2, FS_EmptySet DEF MissesIn
<1> QED
  BY <1>1, <1>3, Zenon DEF r

(* A reference within a window keeps the invariant. *)
LEMMA FillWindowIInv ==
  ASSUME IInv, NEW missed \in [Policy -> Outcomes], FillWindow(missed)
  PROVE  IInv'
<1>1. /\ histories' = Stored(missed) /\ approach = "FIXED_WINDOW" /\ approach' = approach
      /\ blocks' = blocks + 1 /\ blocks + 1 < Window /\ blocks \in Slots
      /\ UNCHANGED <<selected, uses, data_blocks, since>>
  BY DEF FillWindow, IInv, TypeOK
<1>2. Window # 1
  BY <1>1 DEF Slots
<1>3. TypeOK' /\ Exact'
  BY <1>1, StoredKeeps, WindowAssumption DEF IInv, TypeOK, Exact, Slots
<1>4. NeverMuchWorse' /\ LeadIsEarned' /\ HighThresholdPins'
  BY <1>1, Zenon DEF NeverMuchWorse, LeadIsEarned, HighThresholdPins, Switching, IInv
<1>5. FixedCountsWindow' /\ RestIsClean'
  <2>1. blocks' = NextSlot(blocks)
    BY <1>1, WindowAssumption DEF NextSlot, Slots
  <2>2. \A i \in Policy : /\ histories'[i].counter = blocks'
                          /\ histories'[i].misses = histories'[i].historic
                          /\ \A k \in Slots : k >= blocks' => histories'[i].array[k] = 0
    BY <1>1, <1>2, <2>1, FillKeeps
  <2> QED
    BY <1>1, <1>3, <2>2 DEF FixedCountsWindow, RestIsClean, Exact
<1> QED
  BY <1>3, <1>4, <1>5 DEF IInv

(* The end of a window keeps the invariant. *)
LEMMA CloseWindowIInv ==
  ASSUME IInv, NEW missed \in [Policy -> Outcomes], CloseWindow(missed)
  PROVE  IInv'
<1>1. /\ histories' = [i \in Policy |-> Restarted(Stored(missed)[i])]
      /\ approach = "FIXED_WINDOW" /\ approach' = approach
      /\ blocks' = 0 /\ blocks + 1 >= Window /\ blocks \in Slots
      /\ uses' = Used(uses, MinMissesPolicy(approach, Stored(missed)))
      /\ data_blocks' = (data_blocks + 1) % ULongSize
      /\ UNCHANGED <<selected, since>>
  BY Zenon DEF CloseWindow, IInv, TypeOK
<1>2. \A i \in Policy : /\ histories'[i] = Restarted(Stored(missed)[i])
                        /\ Stored(missed)[i] \in History
  BY <1>1, StoredKeeps, Zenon
<1>3. \A i \in Policy :
        /\ histories'[i] \in History
        /\ histories'[i].historic = 0 /\ histories'[i].misses = 0
        /\ histories'[i].counter = Stored(missed)[i].counter
        /\ \A k \in Slots : histories'[i].array[k] = 0
        /\ histories'[i].historic = MissesIn(histories'[i].array)
  BY <1>2, RestartedIsClean
<1>4. TypeOK'
  <2>1. histories' \in [Policy -> History]
    BY <1>1, <1>2, <1>3, Zenon
  <2>2. uses' \in [Policy -> Counter]
    <3>1. MinMissesPolicy(approach, Stored(missed)) \in Policy
      BY StoredKeeps, MinIsMin, Zenon
    <3> QED
      BY <1>1, <3>1, UsedKeeps, Zenon DEF IInv, TypeOK
  <2>3. data_blocks' \in Counter
    BY <1>1, ULongAssumption DEF IInv, TypeOK, Counter
  <2>4. blocks' \in Slots
    BY <1>1, WindowAssumption DEF Slots
  <2> QED
    BY <1>1, <2>1, <2>2, <2>3, <2>4, ZenonT(40) DEF IInv, TypeOK
<1>5. NeverMuchWorse' /\ LeadIsEarned' /\ HighThresholdPins'
  BY <1>1, Zenon DEF NeverMuchWorse, LeadIsEarned, HighThresholdPins, Switching, IInv
<1>6. Exact' /\ RestIsClean'
  BY <1>3, Zenon DEF Exact, RestIsClean
<1>7. FixedCountsWindow'
  <2>1. NextSlot(blocks) = 0
    BY <1>1, WindowAssumption, Zenon DEF NextSlot, Slots
  <2>2. \A i \in Policy : Window # 1 => histories'[i].counter = 0
    BY <1>1, <1>3, <2>1, FillKeeps, Zenon
  <2> QED
    BY <1>1, <1>3, <2>2, Zenon DEF FixedCountsWindow
<1> QED
  BY <1>4, <1>5, <1>6, <1>7, Zenon DEF IInv

(* The switching rule: what it selects is a policy, at most a threshold     *)
(* worse than any; when it selects another policy, that one is best and was *)
(* ahead by more than the threshold.                                        *)
LEMMA SelectionKeeps ==
  ASSUME NEW app, NEW hs \in [Policy -> History], NEW sel \in Policy
  PROVE  LET new == Selection(app, hs, sel)
         IN  /\ new \in Policy
             /\ \A i \in Policy : Score(app, hs[new]) <= Score(app, hs[i]) + Threshold
             /\ new # sel => /\ \A i \in Policy : Score(app, hs[new]) <= Score(app, hs[i])
                             /\ Score(app, hs[new]) < Score(app, hs[sel]) - Threshold
<1> DEFINE best == MinMissesPolicy(app, hs)
           new == Selection(app, hs, sel)
           sc(i) == Score(app, hs[i])
<1>1. best \in Policy /\ \A j \in Policy : sc(best) <= sc(j)
  BY MinIsMin
<1>2. \A i \in Policy : sc(i) \in 0 .. Window
  BY DEF Score, History
<1>3. new = IF sc(best) < sc(sel) - Threshold THEN best ELSE sel
  BY DEF Selection
<1> HIDE DEF best, new, sc
<1>4. CASE sc(best) < sc(sel) - Threshold
  <2>1. new = best
    BY <1>3, <1>4
  <2>2. \A i \in Policy : sc(new) <= sc(i) + Threshold
    BY <1>1, <1>2, <2>1, ThresholdAssumption, WindowAssumption
  <2> QED
    BY <1>1, <1>4, <2>1, <2>2 DEF sc, new
<1>5. CASE ~(sc(best) < sc(sel) - Threshold)
  <2>1. new = sel
    BY <1>3, <1>5
  <2>2. \A i \in Policy : sc(new) <= sc(i) + Threshold
    BY <1>1, <1>2, <1>5, <2>1, ThresholdAssumption, WindowAssumption
  <2> QED
    BY <2>1, <2>2 DEF sc, new
<1> QED
  BY <1>4, <1>5

(* The lead of a policy over the one in use, once a reference is stored.    *)
LEMMA LeadGrowsByTwo ==
  ASSUME IInv, NEW missed \in [Policy -> Outcomes], NEW i \in Policy, Switching
  PROVE  /\ Score(approach, Stored(missed)[selected]) \in 0 .. Window
         /\ Score(approach, Stored(missed)[i]) \in 0 .. Window
         /\ Score(approach, Stored(missed)[selected])
               <= Score(approach, Stored(missed)[i]) + 2 * (since + 1)
<1> DEFINE s == Score(approach, histories[selected])
           o == Score(approach, histories[i])
           s2 == Score(approach, Stored(missed)[selected])
           o2 == Score(approach, Stored(missed)[i])
<1>1. selected \in Policy /\ since \in 0 .. Threshold
  BY DEF IInv, TypeOK
<1>2. \A k \in Policy : /\ histories[k] \in History /\ missed[k] \in Outcomes
                        /\ histories[k].historic = MissesIn(histories[k].array)
                        /\ Stored(missed)[k] = store_misses_history(histories[k], missed[k])
  BY StoredKeeps, Zenon DEF IInv, TypeOK, Exact
<1>3. s \in 0 .. Window /\ s2 \in 0 .. Window /\ s2 <= s + 1
  BY <1>1, <1>2, ScoreMoves, Zenon
<1>4. o \in 0 .. Window /\ o2 \in 0 .. Window /\ o2 >= o - 1
  BY <1>2, ScoreMoves
<1>5. s <= o + 2 * since
  BY DEF IInv, LeadIsEarned
<1> HIDE DEF s, o, s2, o2
<1>6. s2 <= o2 + 2 * (since + 1)
  BY <1>1, <1>3, <1>4, <1>5, ThresholdAssumption, WindowAssumption
<1> QED
  BY <1>3, <1>4, <1>6 DEF s2, o2

(* A reference under the switching approaches keeps the invariant. *)
LEMMA ReselectIInv ==
  ASSUME IInv, NEW missed \in [Policy -> Outcomes], Reselect(missed)
  PROVE  IInv'
<1> DEFINE hs == Stored(missed)
<1>1. /\ histories' = hs /\ Switching /\ approach' = approach /\ approach # "FIXED_WINDOW"
      /\ selected' = Selection(approach, hs, selected)
      /\ uses' = UsesAfter(approach, uses, selected, selected')
      /\ data_blocks' = (data_blocks + 1) % ULongSize
      /\ since' = IF selected' # selected THEN 0
                  ELSE IF since < Threshold THEN since + 1 ELSE since
      /\ blocks' = blocks
  BY DEF Reselect, Switching
<1>2. hs \in [Policy -> History] /\ selected \in Policy
  BY StoredKeeps, Zenon DEF IInv, TypeOK
<1>3. /\ selected' \in Policy
      /\ \A i \in Policy : Score(approach, hs[selected']) <= Score(approach, hs[i]) + Threshold
      /\ selected' # selected =>
           /\ \A i \in Policy : Score(approach, hs[selected']) <= Score(approach, hs[i])
           /\ Score(approach, hs[selected']) < Score(approach, hs[selected]) - Threshold
  BY <1>1, <1>2, SelectionKeeps, Zenon
<1>4. TypeOK'
  <2>1. uses' \in [Policy -> Counter]
    <3>1. uses \in [Policy -> Counter]
      BY DEF IInv, TypeOK
    <3>2. Used(uses, selected) \in [Policy -> Counter] /\ Used(uses, selected') \in [Policy -> Counter]
      BY <1>2, <1>3, <3>1, UsedKeeps, Zenon
    <3>3. Used(Used(uses, selected), selected') \in [Policy -> Counter]
      BY <1>3, <3>2, UsedKeeps, Zenon
    <3> QED
      BY <1>1, <3>2, <3>3, Zenon DEF UsesAfter
  <2>2. data_blocks' \in Counter
    BY <1>1, ULongAssumption, WindowAssumption DEF IInv, TypeOK, Counter
  <2>3. since' \in 0 .. Threshold
    BY <1>1, ThresholdAssumption DEF IInv, TypeOK
  <2> QED
    BY <1>1, <1>2, <1>3, <2>1, <2>2, <2>3 DEF IInv, TypeOK
<1>5. Exact'
  BY <1>1, StoredKeeps, Zenon DEF Exact
<1>6. NeverMuchWorse'
  BY <1>1, <1>3 DEF NeverMuchWorse
<1>7. LeadIsEarned'
  <2> SUFFICES ASSUME NEW i \in Policy
               PROVE  Score(approach, hs[selected']) <= Score(approach, hs[i]) + 2 * since'
    BY <1>1 DEF LeadIsEarned
  <2>1. \A k \in Policy : Score(approach, hs[k]) \in 0 .. Window
    BY <1>2 DEF Score, History
  <2>2. since \in 0 .. Threshold
    BY DEF IInv, TypeOK
  <2>3. CASE selected' # selected
    <3>1. since' = 0
      BY <1>1, <2>3, Zenon
    <3> QED
      BY <1>3, <2>1, <2>3, <3>1, WindowAssumption
  <2>4. CASE selected' = selected /\ since < Threshold
    <3>1. since' = since + 1
      BY <1>1, <2>4, Zenon
    <3> QED
      BY <1>1, <2>4, <3>1, LeadGrowsByTwo, Zenon
  <2>5. CASE selected' = selected /\ ~(since < Threshold)
    <3>1. since' = Threshold
      BY <1>1, <2>2, <2>5, ThresholdAssumption
    <3>2. Score(approach, hs[selected']) <= Score(approach, hs[i]) + Threshold
      BY <1>3, Zenon
    <3> QED
      BY <1>3, <2>1, <3>1, <3>2, ThresholdAssumption, WindowAssumption
  <2> QED
    BY <2>3, <2>4, <2>5, Zenon
<1>8. HighThresholdPins'
  <2> SUFFICES ASSUME Threshold >= Window PROVE selected' = 0
    BY DEF HighThresholdPins
  <2>1. selected = 0
    BY DEF IInv, HighThresholdPins
  <2>2. Score(approach, hs[selected']) \in 0 .. Window /\ Score(approach, hs[selected]) \in 0 .. Window
    BY <1>2, <1>3, Zenon DEF Score, History
  <2> QED
    BY <1>3, <2>1, <2>2, ThresholdAssumption, WindowAssumption
<1>9. FixedCountsWindow' /\ RestIsClean'
  BY <1>1 DEF FixedCountsWindow, RestIsClean
<1> QED
  BY <1>4, <1>5, <1>6, <1>7, <1>8, <1>9, Zenon DEF IInv

(* Every step keeps the invariant. *)
LEMMA NextIInv == IInv /\ [Next]_selectionVars => IInv'
<1> SUFFICES ASSUME IInv, [Next]_selectionVars PROVE IInv'
  OBVIOUS
<1>1. CASE UNCHANGED selectionVars
  BY <1>1 DEF selectionVars, IInv, TypeOK, Exact, NeverMuchWorse, LeadIsEarned,
     HighThresholdPins, FixedCountsWindow, RestIsClean, Switching
<1>2. ASSUME NEW missed \in [Policy -> Outcomes], Reference(missed)
      PROVE  IInv'
  BY <1>2, FillWindowIInv, CloseWindowIInv, ReselectIInv, Zenon DEF Reference
<1> QED
  BY <1>1, <1>2, Zenon DEF Next

(* The counters, slots and indices of the selection stay in their ranges. *)
THEOREM TypeCorrect == Spec => []TypeOK
<1>1. IInv => TypeOK
  BY DEF IInv
<1> QED
  BY InitIInv, NextIInv, <1>1, PTL DEF Spec

(* The policy in use is never worse than another by more than the           *)
(* threshold, under SLIDING_WINDOW and ONLINE alike.                        *)
THEOREM Hysteresis == Spec => []NeverMuchWorse
<1>1. IInv => NeverMuchWorse
  BY DEF IInv
<1> QED
  BY InitIInv, NextIInv, <1>1, PTL DEF Spec

(* With a threshold of at least the window the approaches never leave LRU.  *)
THEOREM HighThreshold == Spec => []HighThresholdPins
<1>1. IInv => HighThresholdPins
  BY DEF IInv
<1> QED
  BY InitIInv, NextIInv, <1>1, PTL DEF Spec

(* FIXED_WINDOW judges and charges a policy by the outcomes of its window.  *)
THEOREM FixedIsExact == Spec => []FixedCountsWindow
<1>1. IInv => FixedCountsWindow
  BY DEF IInv
<1> QED
  BY InitIInv, NextIInv, <1>1, PTL DEF Spec

(* Two switches are more than Threshold / 2 references apart. *)
THEOREM NoThrashing == Spec => SwitchesAreSpaced
<1>1. IInv /\ [Next]_selectionVars => [selected' # selected => 2 * (since + 1) > Threshold]_selectionVars
  <2> SUFFICES ASSUME IInv, NEW missed \in [Policy -> Outcomes], Reference(missed),
                      selected' # selected
               PROVE  2 * (since + 1) > Threshold
    BY DEF Next
  <2>1. Reselect(missed)
    BY DEF Reference, FillWindow, CloseWindow
  <2>2. Switching /\ selected' = Selection(approach, Stored(missed), selected)
    BY <2>1 DEF Reselect, Switching
  <2>3. Stored(missed) \in [Policy -> History] /\ selected \in Policy
    BY StoredKeeps DEF IInv, TypeOK
  <2>4. /\ selected' \in Policy
        /\ Score(approach, Stored(missed)[selected'])
             < Score(approach, Stored(missed)[selected]) - Threshold
    BY <2>2, <2>3, SelectionKeeps, Zenon
  <2>5. /\ Score(approach, Stored(missed)[selected]) \in 0 .. Window
        /\ Score(approach, Stored(missed)[selected']) \in 0 .. Window
        /\ Score(approach, Stored(missed)[selected])
             <= Score(approach, Stored(missed)[selected']) + 2 * (since + 1)
    BY <2>2, <2>4, LeadGrowsByTwo, Zenon
  <2>6. since \in 0 .. Threshold
    BY DEF IInv, TypeOK
  <2> QED
    BY <2>4, <2>5, <2>6, ThresholdAssumption, WindowAssumption
<1>2. Spec => [][selected' # selected => 2 * (since + 1) > Threshold]_selectionVars
  BY InitIInv, NextIInv, <1>1, PTL DEF Spec
<1> QED
  BY <1>2, Zenon DEF SwitchesAreSpaced

(* At the end of a window FIXED_WINDOW uses a policy with the fewest misses. *)
THEOREM FixedUsesTheBest == Spec => UsesTheBest
<1> DEFINE Best == \A missed \in [Policy -> Outcomes], i \in Policy :
              CloseWindow(missed) /\ uses'[i] # uses[i] =>
                \A j \in Policy :
                  MissesIn(Stored(missed)[i].array) <= MissesIn(Stored(missed)[j].array)
<1>1. IInv => Best
  <2> SUFFICES ASSUME IInv, NEW missed \in [Policy -> Outcomes], NEW i \in Policy,
                      CloseWindow(missed), uses'[i] # uses[i], NEW j \in Policy
               PROVE  MissesIn(Stored(missed)[i].array) <= MissesIn(Stored(missed)[j].array)
    BY Zenon
  <2> DEFINE best == MinMissesPolicy(approach, Stored(missed))
  <2>1. Stored(missed) \in [Policy -> History]
    BY StoredKeeps
  <2>2. best \in Policy /\ Score(approach, Stored(missed)[best]) <= Score(approach, Stored(missed)[j])
    BY <2>1, MinIsMin, Zenon
  <2>3. uses' = Used(uses, best) /\ approach = "FIXED_WINDOW" /\ uses \in [Policy -> Counter]
    BY DEF CloseWindow, IInv, TypeOK
  <2> HIDE DEF best
  <2>4. i = best
    BY <2>3, Zenon DEF Used
  <2>5. Stored(missed)[i].historic <= Stored(missed)[j].historic
    BY <2>2, <2>3, <2>4, Zenon DEF Score
  <2> QED
    BY <2>5, StoredKeeps, Zenon
<1> HIDE DEF Best
<1>2. IInv /\ [Next]_selectionVars => [Best]_selectionVars
  BY <1>1
<1>3. Spec => [][Best]_selectionVars
  BY InitIInv, NextIInv, <1>2, PTL DEF Spec
<1> QED
  BY <1>3 DEF UsesTheBest, Best

-----------------------------------------------------------------------------

(* The uses of the policies and the references they are shares of, before   *)
(* either wraps: they differ by whole turns of the counters.                *)
Balanced ==
  \E k \in Int : SumFunction(uses) =
    (IF approach = "SLIDING_WINDOW" THEN 2 * data_blocks ELSE data_blocks) + k * ULongSize

(* A counter that goes up by one goes up by one, or by one less a turn. *)
LEMMA CounterStep ==
  ASSUME NEW n \in Counter
  PROVE  \E d \in {0, 1} : (n + 1) % ULongSize = n + 1 - d * ULongSize
<1>1. ULongSize \in Nat \ {0} /\ n \in 0 .. ULongSize - 1
  BY ULongAssumption, WindowAssumption DEF Counter
<1>2. CASE n + 1 < ULongSize
  <2>1. (ULongSize * 0 + (n + 1)) % ULongSize = n + 1
    BY <1>1, <1>2, DivModUnique
  <2> QED
    BY <1>1, <2>1
<1>3. CASE n + 1 = ULongSize
  <2>1. (ULongSize * 1 + 0) % ULongSize = 0
    BY <1>1, DivModUnique
  <2> QED
    BY <1>1, <1>3, <2>1
<1> QED
  BY <1>1, <1>2, <1>3

(* One use adds one to the sum of the uses, or one less a turn. *)
LEMMA UsedAdds ==
  ASSUME NEW u \in [Policy -> Counter], NEW i \in Policy
  PROVE  /\ SumFunction(u) \in Int
         /\ \E d \in {0, 1} : SumFunction(Used(u, i)) = SumFunction(u) + 1 - d * ULongSize
<1> DEFINE g == Used(u, i)
<1>1. Counter \subseteq Int /\ ULongSize \in Int
  BY ULongAssumption DEF Counter
<1>2. /\ g \in [Policy -> Counter]
      /\ g[i] = (u[i] + 1) % ULongSize
      /\ \A j \in Policy \ {i} : u[j] = g[j]
  BY UsedKeeps DEF Used
<1>3. IsFiniteSet(Policy)
  BY PoliciesAssumption, FS_Interval DEF Policy
<1> HIDE DEF g
<1>4. SumFunction(u) \in Int /\ SumFunction(g) = SumFunction(u) + (g[i] - u[i])
  <2>1. u \in [Policy -> Int] /\ g \in [Policy -> Int]
    BY <1>1, <1>2, Zenon
  <2> QED
    BY <1>2, <1>3, <2>1, SumChange
<1>5. PICK d \in {0, 1} : g[i] = u[i] + 1 - d * ULongSize
  BY <1>2, CounterStep
<1>6. u[i] \in Int
  BY <1>1, Zenon
<1>7. SumFunction(g) = SumFunction(u) + 1 - d * ULongSize
  BY <1>1, <1>4, <1>5, <1>6
<1> QED
  BY <1>4, <1>7 DEF g

(* Every step keeps the uses and the references in balance. *)
LEMMA NextBalanced == IInv /\ Balanced /\ [Next]_selectionVars => Balanced'
<1> SUFFICES ASSUME IInv, Balanced, [Next]_selectionVars PROVE Balanced'
  OBVIOUS
<1>1. /\ uses \in [Policy -> Counter] /\ data_blocks \in Counter /\ data_blocks \in Int
      /\ ULongSize \in Int /\ selected \in Policy
  BY ULongAssumption DEF IInv, TypeOK, Counter
<1>2. PICK k \in Int : SumFunction(uses) =
        (IF approach = "SLIDING_WINDOW" THEN 2 * data_blocks ELSE data_blocks) + k * ULongSize
  BY DEF Balanced
<1>3. CASE UNCHANGED <<approach, uses, data_blocks>>
  BY <1>3 DEF Balanced
<1>4. ASSUME NEW i \in Policy, uses' = Used(uses, i), approach' = approach,
             approach # "SLIDING_WINDOW", data_blocks' = (data_blocks + 1) % ULongSize
      PROVE  Balanced'
  <2>1. PICK d \in {0, 1} : SumFunction(uses') = SumFunction(uses) + 1 - d * ULongSize
    BY <1>1, <1>4, UsedAdds, Zenon
  <2>2. PICK e \in {0, 1} : data_blocks' = data_blocks + 1 - e * ULongSize
    BY <1>1, <1>4, CounterStep
  <2>3. SumFunction(uses) = data_blocks + k * ULongSize
    BY <1>2, <1>4
  <2>4. SumFunction(uses') = data_blocks' + (k + e - d) * ULongSize
    BY <1>1, <2>1, <2>2, <2>3
  <2>5. k + e - d \in Int
    OBVIOUS
  <2> QED
    BY <1>4, <2>4, <2>5, Zenon DEF Balanced
<1>5. ASSUME NEW i \in Policy, NEW j \in Policy, uses' = Used(Used(uses, i), j), approach' = approach,
             approach = "SLIDING_WINDOW", data_blocks' = (data_blocks + 1) % ULongSize
      PROVE  Balanced'
  <2>1. PICK d \in {0, 1} : SumFunction(Used(uses, i)) = SumFunction(uses) + 1 - d * ULongSize
    BY <1>1, UsedAdds, Zenon
  <2>2. PICK c \in {0, 1} : SumFunction(uses') = SumFunction(Used(uses, i)) + 1 - c * ULongSize
    BY <1>1, <1>5, UsedKeeps, UsedAdds, Zenon
  <2>3. PICK e \in {0, 1} : data_blocks' = data_blocks + 1 - e * ULongSize
    BY <1>1, <1>5, CounterStep
  <2>4. SumFunction(uses) = 2 * data_blocks + k * ULongSize
    BY <1>2, <1>5
  <2>5. SumFunction(uses') = 2 * data_blocks' + (k + 2 * e - d - c) * ULongSize
    BY <1>1, <2>1, <2>2, <2>3, <2>4
  <2>6. k + 2 * e - d - c \in Int
    OBVIOUS
  <2> QED
    BY <1>5, <2>5, <2>6, Zenon DEF Balanced
<1>6. ASSUME NEW missed \in [Policy -> Outcomes], CloseWindow(missed)
      PROVE  Balanced'
  <2>1. MinMissesPolicy(approach, Stored(missed)) \in Policy
    BY StoredKeeps, MinIsMin
  <2> QED
    BY <1>4, <1>6, <2>1, Zenon DEF CloseWindow
<1>7. ASSUME NEW missed \in [Policy -> Outcomes], Reselect(missed)
      PROVE  Balanced'
  <2>1. selected' \in Policy
    BY <1>1, <1>7, StoredKeeps, SelectionKeeps, Zenon DEF Reselect
  <2>2. CASE approach = "SLIDING_WINDOW"
    BY <1>1, <1>5, <1>7, <2>1, <2>2 DEF Reselect, UsesAfter
  <2>3. CASE approach # "SLIDING_WINDOW"
    BY <1>4, <1>7, <2>1, <2>3 DEF Reselect, UsesAfter
  <2> QED
    BY <2>2, <2>3, Zenon
<1> QED
  BY <1>3, <1>6, <1>7 DEF Next, Reference, FillWindow, selectionVars

(* The uses add up to the references, or to twice as many, for every number *)
(* of policies and whether or not the counters wrap.                        *)
THEOREM UsesAreShares == Spec => []UsesPerBlock
<1>1. Init => Balanced
  <2> SUFFICES ASSUME Init PROVE Balanced
    OBVIOUS
  <2>1. SumFunction(uses) = 0
    BY PoliciesAssumption, FS_Interval, SumOfZeros DEF Init, Policy
  <2>2. SumFunction(uses) = (IF approach = "SLIDING_WINDOW" THEN 2 * data_blocks ELSE data_blocks)
                            + 0 * ULongSize
    BY <2>1, ULongAssumption DEF Init
  <2> QED
    BY <2>2 DEF Balanced
<1>2. IInv /\ Balanced => UsesPerBlock
  <2> SUFFICES ASSUME IInv, Balanced PROVE UsesPerBlock
    OBVIOUS
  <2> DEFINE b == IF approach = "SLIDING_WINDOW" THEN 2 * data_blocks ELSE data_blocks
  <2>1. ULongSize \in Nat \ {0} /\ b \in Int
    BY ULongAssumption, WindowAssumption DEF IInv, TypeOK, Counter
  <2>2. PICK k \in Int : SumFunction(uses) = b + k * ULongSize
    BY DEF Balanced
  <2> HIDE DEF b
  <2> DEFINE q == b \div ULongSize
             r == b % ULongSize
  <2>3. b = ULongSize * q + r /\ r \in 0 .. ULongSize - 1 /\ q \in Int
    BY <2>1, DivMod
  <2> HIDE DEF q, r
  <2>4. SumFunction(uses) = ULongSize * (q + k) + r /\ q + k \in Int
    BY <2>1, <2>2, <2>3
  <2>5. SumFunction(uses) % ULongSize = r
    BY <2>1, <2>3, <2>4, DivModUnique
  <2> QED
    BY <2>5 DEF UsesPerBlock, b, r
<1> QED
  BY InitIInv, NextIInv, NextBalanced, <1>1, <1>2, PTL DEF Spec
=============================================================================
