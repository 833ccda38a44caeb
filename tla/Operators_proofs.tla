-------------------------- MODULE Operators_proofs --------------------------
(***************************************************************************)
(* Lemmas about the operators that the simulator's modules share: division *)
(* and sums, the replacement functions of CacheSet, for every              *)
(* associativity and every set T of tags, and store_misses_history with    *)
(* the scan for the fewest misses, for every window and every width of the *)
(* counters.                                                               *)
(***************************************************************************)
EXTENDS CacheRef, MissHistory, Functions, FiniteSetTheorems, WellFoundedInduction, TLAPS

(* A nonempty set of naturals has a least element. *)
LEMMA LeastNat ==
  ASSUME NEW S \in SUBSET Nat, S # {}
  PROVE  \E n \in S : \A k \in S : n <= k
<1> DEFINE less == {ss \in Nat \X Nat : ss[1] < ss[2]}
<1>1. IsWellFoundedOn(less, Nat)
  BY NatLessThanWellFounded DEF OpToRel
<1>2. PICK n \in S : \A k \in S : <<k, n>> \notin less
  <2> HIDE DEF less
  <2> QED  BY <1>1, WFMin, Zenon
<1>3. \A k \in S : k \in Nat /\ n \in Nat /\ ~(k < n)
  BY <1>2, Zenon
<1> QED
  BY <1>3

(* Division by a positive number: the quotient, and a remainder below it. *)
LEMMA DivMod == ASSUME NEW a \in Int, NEW u \in Nat \ {0}
  PROVE a = u * (a \div u) + (a % u) /\ a % u \in 0 .. u - 1 /\ a \div u \in Int
  OBVIOUS

(* There is only one such quotient and one such remainder. *)
LEMMA DivModUnique == ASSUME NEW u \in Nat \ {0}, NEW q \in Int, NEW r \in 0 .. u - 1
  PROVE (u * q + r) % u = r /\ (u * q + r) \div u = q
<1> DEFINE a == u * q + r
           p == a \div u
           s == a % u
<1>1. a = u * p + s /\ s \in 0 .. u - 1 /\ p \in Int /\ a \in Int
  BY DivMod
<1>2. u * (q - p) = s - r
  <2> HIDE DEF p, s
  <2> QED BY <1>1
<1>3. q = p
  <2> HIDE DEF p, s
  <2>1. ~(q - p >= 1)
    <3> SUFFICES ASSUME q - p >= 1 PROVE FALSE
      OBVIOUS
    <3>1. u * (q - p) >= u
      BY <1>1
    <3> QED BY <3>1, <1>1, <1>2
  <2>2. ~(q - p <= -1)
    <3> SUFFICES ASSUME q - p <= -1 PROVE FALSE
      OBVIOUS
    <3>1. u * (q - p) <= -u
      BY <1>1
    <3> QED BY <3>1, <1>1, <1>2
  <2> QED BY <2>1, <2>2, <1>1
<1> QED
  <2> HIDE DEF p, s, a
  <2>1. s = r
    <3> HIDE DEF a
    <3>1. u * (q - p) = 0
      BY <1>3, <1>1
    <3> QED BY <1>2, <3>1, <1>1
  <2> QED BY <2>1, <1>3 DEF p, s, a

-----------------------------------------------------------------------------

(* The element at which a fold takes a set apart. *)
Pick(s) == CHOOSE x \in s : TRUE

(* it holds, for each set of D, the sum of f over it. *)
IsSum(f, D, it) == it = [s \in D |-> IF s = {} THEN 0 ELSE f[Pick(s)] + it[s \ {Pick(s)}]]

(* The sum of a function is the value of such an it at the whole domain. *)
LEMMA SumUnfold == ASSUME NEW f, NEW S
  PROVE SumFunctionOnSet(f, S) = (CHOOSE it : IsSum(f, SUBSET S, it))[S]
  BY DEF SumFunctionOnSet, FoldFunctionOnSet, MapThenFoldSet, IsSum, Pick

(* There is one for every finite domain, built up by the size of the sets. *)
LEMMA SumExists ==
  ASSUME NEW S, IsFiniteSet(S), NEW f
  PROVE  \E it : IsSum(f, SUBSET S, it)
<1> DEFINE D(n) == {s \in SUBSET S : Cardinality(s) <= n}
           Bad == {n \in Nat : ~ \E it : IsSum(f, D(n), it)}
<1>0. \A s \in SUBSET S : IsFiniteSet(s) /\ Cardinality(s) \in Nat
  BY FS_Subset, FS_CardinalityType
<1>1. 0 \notin Bad
  <2>1. \A s \in D(0) : s = {}
    BY <1>0, FS_EmptySet
  <2>2. IsSum(f, D(0), [s \in D(0) |-> 0])
    BY <2>1 DEF IsSum
  <2> QED  BY <2>2, Zenon
<1>2. ASSUME NEW n \in Nat, NEW h, IsSum(f, D(n), h)
      PROVE  \E it : IsSum(f, D(n + 1), it)
  <2> DEFINE g == [s \in D(n + 1) |-> IF s = {} THEN 0 ELSE f[Pick(s)] + h[s \ {Pick(s)}]]
  <2>1. \A s \in D(n) : s \in D(n + 1) /\ g[s] = h[s]
    <3>1. \A s \in D(n) : s \in D(n + 1)
      BY <1>0
    <3> QED  BY <3>1, <1>2, Zenon DEF IsSum
  <2>2. \A s \in D(n + 1) : s # {} => s \ {Pick(s)} \in D(n)
    <3> SUFFICES ASSUME NEW s \in D(n + 1), s # {}
                 PROVE  s \ {Pick(s)} \in D(n)
      OBVIOUS
    <3>1. Pick(s) \in s
      BY DEF Pick
    <3>2. Cardinality(s \ {Pick(s)}) = Cardinality(s) - 1
      BY <3>1, <1>0, FS_RemoveElement
    <3> QED  BY <3>2, <1>0
  <2>3. \A s \in D(n + 1) : s # {} => g[s \ {Pick(s)}] = h[s \ {Pick(s)}]
    <3> HIDE DEF g, D
    <3> QED  BY <2>1, <2>2
  <2>4. IsSum(f, D(n + 1), g)
    <3> HIDE DEF D
    <3> QED BY <2>3, Zenon DEF IsSum
  <2> QED  BY <2>4, Zenon
<1>3. Bad = {}
  <2> SUFFICES ASSUME Bad # {} PROVE FALSE
    OBVIOUS
  <2>1. PICK n \in Bad : \A k \in Bad : n <= k
    <3>1. Bad \subseteq Nat  OBVIOUS
    <3> HIDE DEF Bad
    <3> QED  BY <3>1, LeastNat
  <2>2. n \in Nat /\ n # 0
    BY <1>1
  <2>3. n - 1 \in Nat /\ n - 1 \notin Bad
    <3> HIDE DEF Bad
    <3>1. n - 1 \in Nat /\ ~(n <= n - 1)
      BY <2>2
    <3> QED BY <2>1, <3>1
  <2>4. PICK h : IsSum(f, D(n - 1), h)
    BY <2>3
  <2>5. \E it : IsSum(f, D((n - 1) + 1), it)
    <3> HIDE DEF D, Bad
    <3> QED  BY <1>2, <2>3, <2>4
  <2>6. (n - 1) + 1 = n
    BY <2>2
  <2> QED  BY <2>5, <2>6, Zenon
<1>4. D(Cardinality(S)) = SUBSET S /\ Cardinality(S) \in Nat
  BY <1>0, FS_Subset, FS_CardinalityType
<1>5. PICK it : IsSum(f, D(Cardinality(S)), it)
  BY <1>3, <1>4, Zenon
<1> QED  BY <1>4, <1>5, Zenon

(* What holds of {}, and of a set as soon as it holds of the set without    *)
(* the element picked from it, holds of every subset of a finite set.       *)
LEMMA SubsetInduction ==
  ASSUME NEW S, IsFiniteSet(S), NEW Good \in SUBSET (SUBSET S), {} \in Good,
         \A s \in SUBSET S : s # {} /\ s \ {Pick(s)} \in Good => s \in Good
  PROVE  Good = SUBSET S
<1> DEFINE Bad == {Cardinality(s) : s \in (SUBSET S) \ Good}
<1>0. \A s \in SUBSET S : IsFiniteSet(s) /\ Cardinality(s) \in Nat
  BY FS_Subset, FS_CardinalityType
<1> SUFFICES ASSUME (SUBSET S) \ Good # {} PROVE FALSE
  OBVIOUS
<1>1. PICK n \in Bad : \A k \in Bad : n <= k
  <2>1. Bad \subseteq Nat /\ Bad # {}
    BY <1>0
  <2> HIDE DEF Bad
  <2> QED  BY <2>1, LeastNat
<1>2. PICK s \in (SUBSET S) \ Good : Cardinality(s) = n
  OBVIOUS
<1>3. s # {} /\ Pick(s) \in s
  BY DEF Pick
<1>4. Cardinality(s \ {Pick(s)}) = n - 1 /\ n \in Nat
  BY <1>0, <1>2, <1>3, FS_RemoveElement
<1>5. n - 1 \notin Bad
  <2>1. ~(n <= n - 1)
    BY <1>4
  <2> QED  BY <2>1, <1>1
<1>6. s \ {Pick(s)} \in Good
  BY <1>4, <1>5
<1> QED  BY <1>2, <1>3, <1>6

(* Changing a function at one place changes its sum by the difference. *)
LEMMA SumChange ==
  ASSUME NEW S, IsFiniteSet(S), NEW f \in [S -> Int], NEW g \in [S -> Int], NEW i \in S,
         \A j \in S \ {i} : f[j] = g[j]
  PROVE  /\ SumFunction(f) \in Int
         /\ SumFunction(g) = SumFunction(f) + (g[i] - f[i])
<1> DEFINE F == CHOOSE it : IsSum(f, SUBSET S, it)
           G == CHOOSE it : IsSum(g, SUBSET S, it)
           Good == {s \in SUBSET S : /\ F[s] \in Int
                                     /\ G[s] = F[s] + (IF i \in s THEN g[i] - f[i] ELSE 0)}
<1>1. IsSum(f, SUBSET S, F) /\ IsSum(g, SUBSET S, G)
  BY SumExists, Zenon
<1>2. \A s \in SUBSET S : /\ F[s] = IF s = {} THEN 0 ELSE f[Pick(s)] + F[s \ {Pick(s)}]
                          /\ G[s] = IF s = {} THEN 0 ELSE g[Pick(s)] + G[s \ {Pick(s)}]
  <2> HIDE DEF F, G
  <2> QED  BY <1>1, Zenon DEF IsSum
<1> HIDE DEF F, G
<1>3. {} \in Good
  <2>1. F[{}] = 0 /\ G[{}] = 0
    BY <1>2, Zenon
  <2> QED  BY <2>1
<1>4. ASSUME NEW s \in SUBSET S, s # {}, s \ {Pick(s)} \in Good
      PROVE  s \in Good
  <2> DEFINE x == Pick(s)
             r == s \ {x}
  <2>1. x \in s /\ x \in S /\ f[x] \in Int /\ g[x] \in Int /\ g[i] \in Int /\ f[i] \in Int
    BY <1>4 DEF Pick
  <2>2. F[r] \in Int /\ G[r] = F[r] + (IF i \in r THEN g[i] - f[i] ELSE 0)
    BY <1>4
  <2>3. F[s] = f[x] + F[r] /\ G[s] = g[x] + G[r]
    BY <1>2, <1>4
  <2>4. i \in s => (x = i /\ i \notin r) \/ (x # i /\ i \in r /\ g[x] = f[x])
    BY <2>1
  <2>5. i \notin s => i \notin r /\ g[x] = f[x]
    BY <2>1
  <2>6. F[s] \in Int /\ G[s] = F[s] + (IF i \in s THEN g[i] - f[i] ELSE 0)
    <3> HIDE DEF x, r
    <3>1. F[s] \in Int
      BY <2>1, <2>2, <2>3
    <3>2. CASE i \in s /\ x = i /\ i \notin r
      BY <2>1, <2>2, <2>3, <3>2
    <3>3. CASE i \in s /\ x # i /\ i \in r /\ g[x] = f[x]
      BY <2>1, <2>2, <2>3, <3>3
    <3>4. CASE i \notin s
      BY <2>1, <2>2, <2>3, <2>5, <3>4
    <3> QED  BY <2>4, <3>1, <3>2, <3>3, <3>4
  <2> QED  BY <2>6
<1>5. Good = SUBSET S
  <2> HIDE DEF Good
  <2>1. Good \in SUBSET (SUBSET S)
    BY DEF Good
  <2> QED  BY <1>3, <1>4, <2>1, SubsetInduction
<1>6. S \in Good
  BY <1>5
<1>7. SumFunction(f) = F[S] /\ SumFunction(g) = G[S]
  BY SumUnfold DEF SumFunction, F, G
<1> QED
  BY <1>6, <1>7

(* A function that is 0 everywhere has the sum 0. *)
LEMMA SumOfZeros ==
  ASSUME NEW S, IsFiniteSet(S)
  PROVE  SumFunction([x \in S |-> 0]) = 0
<1> DEFINE f == [x \in S |-> 0]
           F == CHOOSE it : IsSum(f, SUBSET S, it)
           Good == {s \in SUBSET S : F[s] = 0}
<1>1. IsSum(f, SUBSET S, F)
  BY SumExists, Zenon
<1>2. \A s \in SUBSET S : F[s] = IF s = {} THEN 0 ELSE f[Pick(s)] + F[s \ {Pick(s)}]
  <2> HIDE DEF F
  <2> QED  BY <1>1, Zenon DEF IsSum
<1>3. {} \in Good
  BY <1>2, Zenon
<1>4. ASSUME NEW s \in SUBSET S, s # {}, s \ {Pick(s)} \in Good
      PROVE  s \in Good
  <2> HIDE DEF F
  <2>1. Pick(s) \in s
    BY <1>4 DEF Pick
  <2> QED  BY <1>2, <1>4, <2>1
<1>5. Good = SUBSET S
  <2> HIDE DEF Good
  <2>1. Good \in SUBSET (SUBSET S)
    BY DEF Good
  <2> QED  BY <1>3, <1>4, <2>1, SubsetInduction
<1>6. S \in Good
  BY <1>5, Zenon
<1>7. SumFunction(f) = F[S]
  BY SumUnfold DEF SumFunction
<1> QED
  BY <1>6, <1>7

-----------------------------------------------------------------------------

(* The scan of a set that holds the tag stops at a way that holds it. *)
LEMMA HitWayIsHit ==
  ASSUME NEW s, NEW tag, Hit(s, tag)
  PROVE  /\ HitWay(s, tag) \in Ways
         /\ s[HitWay(s, tag)] = tag
<1> DEFINE T == {i \in Ways : s[i] = tag}
           less == {ss \in Nat \X Nat : ss[1] < ss[2]}
<1>1. IsWellFoundedOn(less, Nat)
  BY NatLessThanWellFounded DEF OpToRel
<1>2. T \subseteq Nat /\ T # {}
  BY AssocAssumption DEF Hit, Ways
<1>3. PICK x \in T : \A y \in T : <<y, x>> \notin less
  <2> HIDE DEF T, less
  <2> QED  BY <1>1, <1>2, WFMin, Zenon
<1>4. \A j \in Ways : j < x => s[j] # tag
  BY <1>2, <1>3, Zenon
<1> QED
  BY <1>4 DEF HitWay

(* Contents of a set, and contents without two copies of a block. *)
Contents(T) == [Ways -> T \cup {Free}]

Distinct(s) == \A i, j \in Ways : s[i] = s[j] /\ s[i] # Free => i = j

(* From s to t, no block but the referenced one comes in and at most one    *)
(* goes.                                                                    *)
Exchange(T, s, t, tag) ==
  /\ Blocks(t) \subseteq Blocks(s) \cup {tag}
  /\ \E victim \in T : Blocks(s) \ {victim} \subseteq Blocks(t)

(* Moving a way to the front permutes the set. *)
LEMMA MoveToFrontKeeps ==
  ASSUME NEW T, Free \notin T, NEW s \in Contents(T), NEW w \in Ways, Distinct(s)
  PROVE  /\ MoveToFront(s, w) \in Contents(T)
         /\ Distinct(MoveToFront(s, w))
         /\ Blocks(MoveToFront(s, w)) = Blocks(s)
<1> DEFINE m == MoveToFront(s, w)
           from(i) == IF i = 0 THEN w ELSE IF i <= w THEN i - 1 ELSE i
<1> USE AssocAssumption DEF Ways
<1>1. \A i \in Ways : from(i) \in Ways /\ m[i] = s[from(i)]
  BY DEF MoveToFront, Contents
<1>2. m \in Contents(T)
  BY <1>1 DEF MoveToFront, Contents
<1>3. Distinct(m)
  BY <1>1 DEF Distinct
<1>4. \A k \in Ways : \E i \in Ways : from(i) = k
  <2> TAKE k \in Ways
  <2>1. CASE k = w  BY <2>1
  <2>2. CASE k < w  BY <2>2
  <2>3. CASE k > w  BY <2>3
  <2> QED  BY <2>1, <2>2, <2>3
<1>5. Blocks(m) = Blocks(s)
  <2> HIDE DEF m, from
  <2>1. \A i \in Ways : \E k \in Ways : m[i] = s[k]
    BY <1>1
  <2>2. \A k \in Ways : \E i \in Ways : m[i] = s[k]
    BY <1>1, <1>4
  <2> QED
    BY <2>1, <2>2, Zenon DEF Blocks
<1> QED
  BY <1>2, <1>3, <1>5

(* Installing an absent tag at the MRU end drops the tag of the last way. *)
LEMMA InstallAtMRUKeeps ==
  ASSUME NEW T, Free \notin T, NEW s \in Contents(T), NEW tag \in T, Distinct(s), ~Hit(s, tag)
  PROVE  /\ InstallAtMRU(s, tag) \in Contents(T)
         /\ Distinct(InstallAtMRU(s, tag))
         /\ tag \in Blocks(InstallAtMRU(s, tag))
         /\ Exchange(T, s, InstallAtMRU(s, tag), tag)
<1> USE AssocAssumption DEF Ways
<1>1. InstallAtMRU(s, tag) \in Contents(T)
  BY DEF InstallAtMRU, Contents
<1>2. Distinct(InstallAtMRU(s, tag))
  BY DEF InstallAtMRU, Contents, Distinct, Hit
<1>3. InstallAtMRU(s, tag)[0] = tag /\ 0 \in Ways
  BY DEF InstallAtMRU
<1>4. Blocks(InstallAtMRU(s, tag)) \subseteq Blocks(s) \cup {tag}
  BY DEF InstallAtMRU, Blocks
<1>5. \A i \in Ways : i # Assoc - 1 => i + 1 \in Ways /\ InstallAtMRU(s, tag)[i + 1] = s[i]
  BY DEF InstallAtMRU, Contents
<1>6. Blocks(s) \ {s[Assoc - 1]} \subseteq Blocks(InstallAtMRU(s, tag))
  BY <1>5 DEF Blocks
<1>7. s[Assoc - 1] \in T \/ s[Assoc - 1] \notin Blocks(s)
  BY DEF Contents, Blocks
<1> HIDE DEF Ways
<1> QED
  BY <1>1, <1>2, <1>3, <1>4, <1>6, <1>7 DEF Blocks, Exchange

(* Overwriting one way with an absent tag. *)
LEMMA InstallAtKeeps ==
  ASSUME NEW T, Free \notin T, NEW s \in Contents(T), NEW tag \in T, NEW w \in Ways, Distinct(s), ~Hit(s, tag)
  PROVE  /\ InstallAt(s, tag, w) \in Contents(T)
         /\ Distinct(InstallAt(s, tag, w))
         /\ tag \in Blocks(InstallAt(s, tag, w))
         /\ Exchange(T, s, InstallAt(s, tag, w), tag)
<1> DEFINE t == InstallAt(s, tag, w)
<1>1. t \in Contents(T) /\ Distinct(t) /\ tag \in Blocks(t)
  BY DEF InstallAt, Contents, Distinct, Hit, Blocks
<1>2. \A i \in Ways : t[i] = IF i = w THEN tag ELSE s[i]
  BY DEF InstallAt, Contents
<1>3. s[w] \in T \/ s[w] \notin Blocks(s)
  BY DEF Contents, Blocks
<1> HIDE DEF t
<1>4. Blocks(t) \subseteq Blocks(s) \cup {tag} /\ Blocks(s) \ {s[w]} \subseteq Blocks(t)
  BY <1>2 DEF Blocks
<1>5. Exchange(T, s, t, tag)
  BY <1>3, <1>4 DEF Exchange
<1> QED
  BY <1>1, <1>5 DEF t

(* What every policy keeps: a set without duplicates stays one, and the     *)
(* referenced block is resident afterwards.                                 *)
LEMMA SetrefKeeps ==
  ASSUME NEW T, Free \notin T, NEW s \in Contents(T), NEW tag \in T, Distinct(s),
         NEW p \in PolicyNames, NEW t \in Setref(p, s, tag)
  PROVE  /\ t \in Contents(T)
         /\ Distinct(t)
         /\ tag \in Blocks(t)
         /\ Hit(s, tag) => Blocks(t) = Blocks(s)
         /\ Exchange(T, s, t, tag)
<1> DEFINE Good(x) == /\ x \in Contents(T)
                      /\ Distinct(x)
                      /\ tag \in Blocks(x)
                      /\ Hit(s, tag) => Blocks(x) = Blocks(s)
                      /\ Exchange(T, s, x, tag)
<1>0. /\ Hit(s, tag) => tag \in Blocks(s)
      /\ \A x : Blocks(x) = Blocks(s) => Exchange(T, s, x, tag)
  BY Zenon DEF Hit, Blocks, Exchange
<1>1. Good(setref_lru(s, tag))
  BY <1>0, HitWayIsHit, MoveToFrontKeeps, InstallAtMRUKeeps DEF setref_lru
<1>2. Good(setref_lip(s, tag))
  <2>1. Assoc - 1 \in Ways
    BY AssocAssumption DEF Ways
  <2> QED
    BY <1>0, <2>1, HitWayIsHit, MoveToFrontKeeps, InstallAtKeeps DEF setref_lip
<1>3. Good(setref_fifo(s, tag))
  BY <1>0, InstallAtMRUKeeps DEF setref_fifo
<1>4. \A w \in Ways : Good(setref_random(s, tag, w))
  BY <1>0, InstallAtKeeps DEF setref_random
<1>5. \A a \in BOOLEAN : Good(setref_bip(s, tag, a))
  BY <1>1, <1>2 DEF setref_bip
<1>6. BipThrows \subseteq BOOLEAN
  BY DEF BipThrows
<1> HIDE DEF Good
<1>7. Good(t)
  <2>1. CASE p = "LRU"     BY <1>1, <2>1 DEF Setref
  <2>2. CASE p = "LIP"     BY <1>2, <2>2 DEF Setref
  <2>3. CASE p = "FIFO"    BY <1>3, <2>3 DEF Setref
  <2>4. CASE p = "RANDOM"  BY <1>4, <2>4 DEF Setref
  <2>5. CASE p = "BIP"     BY <1>5, <1>6, <2>5 DEF Setref
  <2> QED
    BY <2>1, <2>2, <2>3, <2>4, <2>5 DEF PolicyNames
<1> QED
  BY <1>7 DEF Good

-----------------------------------------------------------------------------

(* A scan of finitely many naturals that keeps the first least one. *)
LEMMA FirstLeast ==
  ASSUME NEW n \in Nat \ {0}, NEW f \in [0 .. n - 1 -> Nat]
  PROVE  \E i \in 0 .. n - 1 : \A j \in 0 .. n - 1 : f[i] <= f[j] /\ (j < i => f[i] < f[j])
<1> DEFINE I == 0 .. n - 1
           Values == {f[i] : i \in I}
<1>1. Values \subseteq Nat /\ Values # {} /\ I \subseteq Nat
  <2>1. 0 \in I
    OBVIOUS
  <2> QED
    BY <2>1
<1>2. PICK v \in Values : \A k \in Values : v <= k
  BY <1>1, LeastNat, Zenon
<1> DEFINE Best == {i \in I : f[i] = v}
<1>3. PICK i \in Best : \A k \in Best : i <= k
  <2>1. Best \subseteq Nat /\ Best # {}
    BY <1>1
  <2> QED
    BY <2>1, LeastNat, Zenon
<1>4. ASSUME NEW j \in I
      PROVE  f[i] <= f[j] /\ (j < i => f[i] < f[j])
  <2>1. f[i] = v /\ i \in Nat /\ j \in Nat
    BY <1>1
  <2>2. f[j] \in Nat /\ v \in Nat /\ v <= f[j]
    BY <1>1, <1>2
  <2>3. f[j] = v => i <= j
    BY <1>3
  <2> QED
    BY <2>1, <2>2, <2>3
<1> QED
  BY <1>3, <1>4, Zenon

(* The misses of a window are counted by a number from 0 to Window. *)
LEMMA MissesInRange ==
  ASSUME NEW f
  PROVE  /\ IsFiniteSet({k \in Slots : f[k] = 1})
         /\ MissesIn(f) \in 0 .. Window
<1> DEFINE M == {k \in Slots : f[k] = 1}
<1>1. IsFiniteSet(Slots) /\ Cardinality(Slots) = Window
  BY WindowAssumption, FS_Interval DEF Slots
<1>2. IsFiniteSet(M) /\ Cardinality(M) <= Cardinality(Slots) /\ Cardinality(M) \in Nat
  BY <1>1, FS_Subset, FS_CardinalityType
<1> QED
  BY <1>1, <1>2, WindowAssumption DEF MissesIn

(* Overwriting one outcome changes the number of misses by the difference.  *)
LEMMA OverwriteCounts ==
  ASSUME NEW f \in [Slots -> Outcomes], NEW c \in Slots, NEW v \in Outcomes
  PROVE  MissesIn([f EXCEPT ![c] = v]) = MissesIn(f) + v - f[c]
<1> DEFINE g == [f EXCEPT ![c] = v]
           M == {k \in Slots : f[k] = 1}
           N == {k \in Slots : g[k] = 1}
<1>1. f[c] \in {0, 1} /\ v \in {0, 1}
  BY DEF Outcomes
<1>2. /\ \A k \in Slots : g[k] = IF k = c THEN v ELSE f[k]
      /\ v = f[c] => g = f
  OBVIOUS
<1> HIDE DEF g
<1>3. IsFiniteSet(M) /\ IsFiniteSet(N) /\ MissesIn(f) \in 0 .. Window
  BY MissesInRange
<1>4. CASE v = f[c]
  <2>1. MissesIn(g) = MissesIn(f)
    BY <1>2, <1>4
  <2> QED
    BY <1>1, <1>3, <1>4, <2>1 DEF g
<1>5. CASE v = 1 /\ f[c] = 0
  <2>1. N = M \cup {c} /\ c \notin M
    BY <1>2, <1>5
  <2> QED
    BY <1>3, <1>5, <2>1, FS_AddElement DEF MissesIn, g
<1>6. CASE v = 0 /\ f[c] = 1
  <2>1. N = M \ {c} /\ c \in M
    BY <1>2, <1>6
  <2>2. Cardinality(M \ {c}) = Cardinality(M) - 1
    BY <1>3, <2>1, FS_RemoveElement, Zenon
  <2>3. MissesIn(g) = Cardinality(M) - 1 /\ MissesIn(f) = Cardinality(M)
    BY <2>1, <2>2, Zenon DEF MissesIn
  <2> QED
    BY <1>3, <1>6, <2>3 DEF g
<1> QED
  BY <1>1, <1>4, <1>5, <1>6

(* An empty record counts no misses. *)
LEMMA NewHistoryCounts ==
  /\ NewHistory \in History
  /\ NewHistory.historic = MissesIn(NewHistory.array)
<1>1. NewHistory \in History
  BY WindowAssumption, ULongAssumption DEF NewHistory, History, Slots, Outcomes
<1>2. {k \in Slots : NewHistory.array[k] = 1} = {}
  BY DEF NewHistory
<1> QED
  BY <1>1, <1>2, FS_EmptySet DEF MissesIn, NewHistory

(* store_misses_history returns a record: the clamps keep the counts within *)
(* the window.                                                              *)
LEMMA StoreIsHistory ==
  ASSUME NEW h \in History, NEW v \in Outcomes
  PROVE  store_misses_history(h, v) \in History
<1>1. CASE Window = 1
  BY <1>1 DEF store_misses_history
<1>2. CASE Window # 1
  <2>1. /\ h.array \in [Slots -> Outcomes] /\ h.counter \in Slots
        /\ h.historic \in 0 .. Window /\ h.online \in 0 .. Window
        /\ h.misses \in 0 .. ULongSize - 1 /\ v \in {0, 1}
    BY DEF History, Outcomes
  <2>2. NextSlot(h.counter) \in Slots
    BY <2>1, WindowAssumption DEF NextSlot, Slots
  <2>3. NewHistoric(h, v) \in 0 .. Window /\ NewOnline(h, v) \in 0 .. Window
    BY <2>1, WindowAssumption DEF NewHistoric, NewOnline, Clamp
  <2>4. (h.misses + v) % ULongSize \in 0 .. ULongSize - 1
    BY <2>1, ULongAssumption
  <2>5. [h.array EXCEPT ![h.counter] = v] \in [Slots -> Outcomes]
    BY <2>1
  <2> QED
    BY <1>2, <2>2, <2>3, <2>4, <2>5 DEF store_misses_history, History
<1> QED
  BY <1>1, <1>2

(* The counts never drift: what store_misses_history returns is a record    *)
(* whose historic_misses counts the misses of its array, none of the        *)
(* clamps of historic_misses having had anything to do.                     *)
LEMMA StoreCounts ==
  ASSUME NEW h \in History, NEW v \in Outcomes,
         h.historic = MissesIn(h.array)
  PROVE  LET n == store_misses_history(h, v)
         IN  /\ n \in History
             /\ n.historic = MissesIn(n.array)
             /\ Window # 1 => n.historic = h.historic + v - h.array[h.counter]
<1> DEFINE n == store_misses_history(h, v)
<1>1. CASE Window = 1
  BY <1>1 DEF store_misses_history
<1>2. CASE Window # 1
  <2>1. /\ h.array \in [Slots -> Outcomes] /\ h.counter \in Slots
        /\ h.historic \in 0 .. Window
    BY DEF History
  <2>2. n.array = [h.array EXCEPT ![h.counter] = v] /\ n.historic = NewHistoric(h, v)
    BY <1>2 DEF store_misses_history
  <2>3. MissesIn(n.array) = h.historic + v - h.array[h.counter]
    BY <2>1, <2>2, OverwriteCounts
  <2>4. MissesIn(n.array) \in 0 .. Window
    BY MissesInRange, Zenon
  <2>5. h.array[h.counter] \in {0, 1} /\ v \in {0, 1}
    BY <2>1 DEF Outcomes
  <2>6. NewHistoric(h, v) = h.historic + v - h.array[h.counter]
    BY <2>1, <2>3, <2>4, <2>5, WindowAssumption DEF NewHistoric, Clamp
  <2> QED
    BY <2>2, <2>3, <2>6, StoreIsHistory
<1> QED
  BY <1>1, <1>2

(* A miss is counted in the policy's record, unless the window is of one. *)
LEMMA StoreAddsMiss ==
  ASSUME NEW h \in History, NEW v \in Outcomes, h.misses + v < ULongSize
  PROVE  store_misses_history(h, v).misses = IF Window = 1 THEN h.misses ELSE h.misses + v
<1>1. h.misses \in Nat /\ v \in {0, 1} /\ h.misses + v \in 0 .. ULongSize - 1
  BY ULongAssumption, WindowAssumption DEF History, Outcomes
<1>2. (ULongSize * 0 + (h.misses + v)) % ULongSize = h.misses + v
  <2>1. ULongSize \in Nat \ {0} /\ 0 \in Int
    BY ULongAssumption, WindowAssumption
  <2> QED
    BY <1>1, <2>1, DivModUnique
<1>3. (h.misses + v) % ULongSize = h.misses + v
  BY <1>1, <1>2, ULongAssumption
<1> QED
  BY <1>3 DEF store_misses_history

-----------------------------------------------------------------------------

(* The blocks that map to set s. *)
BlocksOf(sets, s) == {b \in Nat \ {0} : b % sets = s}

(* A cache each set of which holds blocks of its own, none of them twice.   *)
GoodCache(cache, sets) ==
  /\ cache \in [0 .. sets - 1 -> [Ways -> Nat]]
  /\ \A s \in 0 .. sets - 1 : cache[s] \in Contents(BlocksOf(sets, s)) /\ Distinct(cache[s])

(* A block referenced in a good cache leaves a good cache. *)
LEMMA SetrefOutcomesGood ==
  ASSUME Free = 0, NEW sets \in Nat \ {0}, NEW f \in PolicyNames, NEW cache, GoodCache(cache, sets),
         NEW block \in Nat \ {0}, NEW out \in SetrefOutcomes(sets, f, cache, block)
  PROVE  GoodCache(out.cache, sets) /\ out.miss \in Outcomes
<1> DEFINE s == block % sets
           T == BlocksOf(sets, s)
<1>1. s \in 0 .. sets - 1 /\ block \in T /\ Free \notin T
  BY DEF BlocksOf
<1>2. PICK new \in Setref(f, cache[s], block) :
        out = [cache |-> [cache EXCEPT ![s] = new],
               miss  |-> IF Hit(cache[s], block) THEN 0 ELSE 1]
  BY DEF SetrefOutcomes
<1>3. cache[s] \in Contents(T) /\ Distinct(cache[s])
  BY <1>1 DEF GoodCache
<1>4. new \in Contents(T) /\ Distinct(new)
  <2> HIDE DEF s, T
  <2> QED
    BY <1>1, <1>2, <1>3, SetrefKeeps
<1>5. new \in [Ways -> Nat]
  BY <1>4 DEF Contents, BlocksOf
<1>6. out.cache = [cache EXCEPT ![s] = new] /\ out.miss \in Outcomes
  BY <1>2 DEF Outcomes
<1> HIDE DEF s
<1> QED
  BY <1>1, <1>4, <1>5, <1>6 DEF GoodCache

(* The references of the client. *)
Refs == {ref \in Seq(Nat \ {0}) : Len(ref) \in {1, 2}}

(* So does a reference, within a line or straddling two. *)
LEMMA RefOutcomesGood ==
  ASSUME Free = 0, NEW sets \in Nat \ {0}, NEW f \in PolicyNames, NEW cache, GoodCache(cache, sets),
         NEW ref \in Refs, NEW out \in RefOutcomes(sets, f, cache, ref)
  PROVE  GoodCache(out.cache, sets) /\ out.miss \in Outcomes
<1>1. ref[1] \in Nat \ {0} /\ (Len(ref) # 1 => ref[2] \in Nat \ {0})
  BY DEF Refs
<1>2. CASE Len(ref) = 1
  BY <1>1, <1>2, SetrefOutcomesGood DEF RefOutcomes
<1>3. CASE Len(ref) # 1
  <2>1. PICK p \in SetrefOutcomes(sets, f, cache, ref[1]) :
          \E q \in SetrefOutcomes(sets, f, p.cache, ref[2]) :
            out = [cache |-> q.cache, miss |-> IF p.miss = 1 THEN 1 ELSE q.miss]
    BY <1>3 DEF RefOutcomes
  <2>2. PICK q \in SetrefOutcomes(sets, f, p.cache, ref[2]) :
          out = [cache |-> q.cache, miss |-> IF p.miss = 1 THEN 1 ELSE q.miss]
    BY <2>1
  <2>3. GoodCache(p.cache, sets)
    BY <1>1, SetrefOutcomesGood
  <2>4. GoodCache(q.cache, sets) /\ q.miss \in Outcomes
    BY <1>1, <1>3, <2>3, SetrefOutcomesGood
  <2> QED
    BY <2>2, <2>4 DEF Outcomes
<1> QED
  BY <1>2, <1>3

(* And so does a reference to a level backed by LL, which misses at most    *)
(* once, and in LL only if it did in level one.                             *)
LEMMA LevelOutcomesGood ==
  ASSUME Free = 0, NEW f \in PolicyNames, NEW l1, GoodCache(l1, SetsL1),
         NEW ll, GoodCache(ll, SetsLL),
         NEW ref \in Refs, NEW out \in LevelOutcomes(f, l1, ll, ref)
  PROVE  /\ GoodCache(out.l1, SetsL1)
         /\ GoodCache(out.ll, SetsLL)
         /\ out.m1 \in Outcomes /\ out.mL \in Outcomes /\ out.mL <= out.m1
<1>1. PICK p \in RefOutcomes(SetsL1, f, l1, ref) :
        \/ /\ p.miss = 1
           /\ \E q \in RefOutcomes(SetsLL, f, ll, ref) :
                out = [l1 |-> p.cache, ll |-> q.cache, m1 |-> 1, mL |-> q.miss]
        \/ out = [l1 |-> p.cache, ll |-> ll, m1 |-> 0, mL |-> 0]
  BY DEF LevelOutcomes
<1>2. GoodCache(p.cache, SetsL1)
  BY RefOutcomesGood, SetsAssumption
<1>3. \A q \in RefOutcomes(SetsLL, f, ll, ref) : GoodCache(q.cache, SetsLL) /\ q.miss \in Outcomes
  BY RefOutcomesGood, SetsAssumption
<1> QED
  BY <1>1, <1>2, <1>3 DEF Outcomes

(* The policies that leave nothing to chance. *)
Deterministic(f) == f \in {"LRU", "LIP", "FIFO"} \/ (f = "BIP" /\ Throttle \in {0, 100})

(* Under one of them a reference has one outcome, and what it does to level *)
(* one does not depend on LL.                                               *)
LEMMA OneOutcome ==
  ASSUME NEW f, Deterministic(f)
  PROVE  /\ \A sets, cache, block : \A p, q \in SetrefOutcomes(sets, f, cache, block) : p = q
         /\ \A sets, cache, ref : \A p, q \in RefOutcomes(sets, f, cache, ref) : p = q
         /\ \A l1, ll1, ll2, ref : \A p \in LevelOutcomes(f, l1, ll1, ref),
                                     q \in LevelOutcomes(f, l1, ll2, ref) :
              p.l1 = q.l1 /\ p.m1 = q.m1
<1>1. ASSUME NEW s, NEW tag, NEW x \in Setref(f, s, tag), NEW y \in Setref(f, s, tag)
      PROVE  x = y
  <2>1. CASE f = "LRU"   BY <2>1 DEF Setref
  <2>2. CASE f = "LIP"   BY <2>2 DEF Setref
  <2>3. CASE f = "FIFO"  BY <2>3 DEF Setref
  <2>4. CASE f = "BIP" /\ Throttle \in {0, 100}
    <3>1. \A a, b \in BipThrows : a = b
      BY <2>4 DEF BipThrows
    <3> QED
      BY <2>4, <3>1 DEF Setref
  <2> QED
    BY <2>1, <2>2, <2>3, <2>4 DEF Deterministic
<1>2. ASSUME NEW sets, NEW cache, NEW block, NEW p \in SetrefOutcomes(sets, f, cache, block),
             NEW q \in SetrefOutcomes(sets, f, cache, block)
      PROVE  p = q
  BY <1>1 DEF SetrefOutcomes
<1>3. ASSUME NEW sets, NEW cache, NEW ref, NEW p \in RefOutcomes(sets, f, cache, ref),
             NEW q \in RefOutcomes(sets, f, cache, ref)
      PROVE  p = q
  <2>1. CASE Len(ref) = 1
    BY <1>2, <2>1 DEF RefOutcomes
  <2>2. CASE Len(ref) # 1
    <3>1. PICK p1 \in SetrefOutcomes(sets, f, cache, ref[1]) :
            \E p2 \in SetrefOutcomes(sets, f, p1.cache, ref[2]) :
              p = [cache |-> p2.cache, miss |-> IF p1.miss = 1 THEN 1 ELSE p2.miss]
      BY <2>2 DEF RefOutcomes
    <3>2. PICK q1 \in SetrefOutcomes(sets, f, cache, ref[1]) :
            \E q2 \in SetrefOutcomes(sets, f, q1.cache, ref[2]) :
              q = [cache |-> q2.cache, miss |-> IF q1.miss = 1 THEN 1 ELSE q2.miss]
      BY <2>2 DEF RefOutcomes
    <3>3. p1 = q1
      BY <1>2
    <3> QED
      BY <1>2, <3>1, <3>2, <3>3
  <2> QED
    BY <2>1, <2>2
<1>4. ASSUME NEW l1, NEW ll1, NEW ll2, NEW ref, NEW p \in LevelOutcomes(f, l1, ll1, ref),
             NEW q \in LevelOutcomes(f, l1, ll2, ref)
      PROVE  p.l1 = q.l1 /\ p.m1 = q.m1
  <2>1. PICK p1 \in RefOutcomes(SetsL1, f, l1, ref) :
          p.l1 = p1.cache /\ p.m1 = IF p1.miss = 1 THEN 1 ELSE 0
    BY DEF LevelOutcomes
  <2>2. PICK q1 \in RefOutcomes(SetsL1, f, l1, ref) :
          q.l1 = q1.cache /\ q.m1 = IF q1.miss = 1 THEN 1 ELSE 0
    BY DEF LevelOutcomes
  <2>3. p1 = q1
    BY <1>3
  <2> QED
    BY <2>1, <2>2, <2>3
<1> QED
  BY <1>2, <1>3, <1>4
=============================================================================
