------------------------- MODULE Instrument_proofs -------------------------
(***************************************************************************)
(* The proof that the instrumentation neither loses nor reorders a         *)
(* reference, for every size of the event queue and every set of data      *)
(* references.                                                             *)
(*                                                                         *)
(* flushEvents takes the queue apart in calls of one, two or three events. *)
(* When each data event in the queue follows an event of the same          *)
(* instruction (what the assertions on ev2->inode in flushEvents require), *)
(* it notifies the events one after the other as they are: the lemma       *)
(* FlushIsStraight.  The rest of the proof is about the queue alone.       *)
(***************************************************************************)
EXTENDS Instrument, WellFoundedInduction, TLAPS

(* A nonempty set of naturals has a least element. *)
LEMMA LeastNat ==
  ASSUME NEW S \in SUBSET Nat, S # {}
  PROVE  \E n \in S : \A k \in S : n <= k
<1> DEFINE less == {ss \in Nat \X Nat : ss[1] < ss[2]}
<1>1. IsWellFoundedOn(less, Nat)
  BY NatLessThanWellFounded DEF OpToRel
<1>2. PICK n \in S : \A k \in S : <<k, n>> \notin less
  <2> HIDE DEF less
  <2> QED  BY <1>1, WFMin, Zenon
<1>3. \A k \in S : k \in Nat /\ n \in Nat /\ ~(k < n)
  BY <1>2, Zenon
<1> QED
  BY <1>3

(* Each event as the helpers would log it by itself. *)
Plain(ev) == Ev(IF ev.tag = "Dm" THEN "Dr" ELSE ev.tag, ev.inode, ev.loc)

Straight(evs) == [k \in 1 .. Len(evs) |-> Plain(evs[k])]

(* A data event follows an event of the same instruction. *)
Adjacent(evs) ==
  \A k \in 1 .. Len(evs) - 1 : evs[k + 1].tag \in Data => evs[k + 1].inode = evs[k].inode

(* A call notifies one event at least, and none that is not in the queue.   *)
LEMMA MergedRange ==
  ASSUME NEW evs \in Seq(Event), Len(evs) >= 1
  PROVE  Merged(evs) \in 1 .. Len(evs)
<1>1. Len(evs) \in Nat
  OBVIOUS
<1> DEFINE tag(k) == IF k <= Len(evs) THEN evs[k].tag ELSE "none"
<1>2. "none" \notin Data
  BY DEF Data
<1>3. Merged(evs) = CASE tag(1) # "IrNoX"                       -> 1
                      [] tag(1) = "IrNoX" /\ tag(2) \in Data    -> 2
                      [] tag(2) = "IrNoX" /\ tag(3) = "IrNoX"   -> 3
                      [] tag(2) = "IrNoX" /\ tag(3) # "IrNoX"   -> 2
                      [] OTHER                                  -> 1
  BY DEF Merged
<1>4. (tag(2) \in Data \/ tag(2) = "IrNoX") => Len(evs) >= 2
  BY <1>1, <1>2
<1>5. tag(3) = "IrNoX" => Len(evs) >= 3
  BY <1>1
<1> HIDE DEF tag
<1>6. "IrNoX" \notin Data
  BY DEF Data
<1> QED
  BY <1>1, <1>3, <1>4, <1>5, <1>6

(* A call logs its events as they are. *)
LEMMA CallIsPlain ==
  ASSUME NEW evs \in Seq(Event), Len(evs) >= 1, Adjacent(evs), NEW k \in 1 .. Merged(evs)
  PROVE  Logged(SubSeq(evs, 1, Merged(evs)))[k] = Plain(evs[k])
<1> DEFINE m == Merged(evs)
           call == SubSeq(evs, 1, m)
<1>1. m \in 1 .. Len(evs) /\ Len(evs) \in Nat
  BY MergedRange
<1>2. evs[k].tag \in Data => evs[k].inode = evs[1].inode
  <2> SUFFICES ASSUME evs[k].tag \in Data, k # 1 PROVE evs[k].inode = evs[1].inode
    OBVIOUS
  <2> DEFINE tag(j) == IF j <= Len(evs) THEN evs[j].tag ELSE "none"
  <2>1. m = CASE tag(1) # "IrNoX"                       -> 1
              [] tag(1) = "IrNoX" /\ tag(2) \in Data    -> 2
              [] tag(2) = "IrNoX" /\ tag(3) = "IrNoX"   -> 3
              [] tag(2) = "IrNoX" /\ tag(3) # "IrNoX"   -> 2
              [] OTHER                                  -> 1
    BY DEF Merged
  <2>2. tag(k) = evs[k].tag
    BY <1>1
  <2>3. "IrNoX" \notin Data
    BY DEF Data
  <2> HIDE DEF tag, m
  <2>4. k = 2
    BY <1>1, <2>1, <2>2, <2>3 DEF m
  <2> QED
    BY <1>1, <2>4 DEF Adjacent, m
<1>3. Len(call) = m /\ \A j \in 1 .. m : call[j] = evs[j]
  BY <1>1
<1> HIDE DEF m, call
<1>4. Logged(call)[k] = Ev(IF call[k].tag = "Dm" THEN "Dr" ELSE call[k].tag,
                           IF call[k].tag \in Data THEN call[1].inode ELSE call[k].inode,
                           call[k].loc)
  BY <1>1, <1>3 DEF Logged, m
<1> QED
  BY <1>1, <1>2, <1>3, <1>4 DEF Plain, m, call

(* A sequence that is put together of two, and the first of its parts. *)
LEMMA ConcatIs ==
  ASSUME NEW X, NEW p \in Seq(X), NEW q \in Seq(X)
  PROVE  /\ p \o q \in Seq(X)
         /\ Len(p \o q) = Len(p) + Len(q)
         /\ \A k \in 1 .. Len(p) : (p \o q)[k] = p[k]
  OBVIOUS

(* The second of the two parts. *)
LEMMA ConcatEnd ==
  ASSUME NEW X, NEW p \in Seq(X), NEW q \in Seq(X), NEW k \in 1 .. Len(q)
  PROVE  (p \o q)[Len(p) + k] = q[k]
  BY SMTT(60)

(* The end of a sequence. *)
LEMMA SubSeqIs ==
  ASSUME NEW X, NEW s \in Seq(X), NEW m \in 1 .. Len(s)
  PROVE  /\ SubSeq(s, m, Len(s)) \in Seq(X)
         /\ Len(SubSeq(s, m, Len(s))) = Len(s) - m + 1
         /\ \A k \in 1 .. Len(s) - m + 1 : SubSeq(s, m, Len(s))[k] = s[m + k - 1]
  OBVIOUS

(* The queue from event i + 1. *)
LEMMA RestOfQueue ==
  ASSUME NEW evs \in Seq(Event), Adjacent(evs), NEW i \in 0 .. Len(evs) - 1
  PROVE  LET rest == SubSeq(evs, i + 1, Len(evs))
         IN  /\ rest \in Seq(Event) /\ Len(rest) = Len(evs) - i /\ Len(rest) >= 1
             /\ \A k \in 1 .. Len(evs) - i : rest[k] = evs[i + k]
             /\ Adjacent(rest)
<1> DEFINE rest == SubSeq(evs, i + 1, Len(evs))
<1>1. Len(evs) \in Nat /\ i + 1 \in 1 .. Len(evs)
  OBVIOUS
<1> DEFINE m == i + 1
<1>a. /\ rest \in Seq(Event) /\ Len(rest) = Len(evs) - m + 1
      /\ \A k \in 1 .. Len(evs) - m + 1 : rest[k] = evs[m + k - 1]
  <2> HIDE DEF m
  <2>1. SubSeq(evs, m, Len(evs)) = rest
    BY Zenon DEF m, rest
  <2>2. m \in 1 .. Len(evs)
    BY <1>1, Zenon DEF m
  <2> HIDE DEF rest
  <2> QED
    BY <2>1, <2>2, SubSeqIs, Zenon
<1> HIDE DEF rest
<1>2. Len(rest) = Len(evs) - i /\ \A k \in 1 .. Len(evs) - i : rest[k] = evs[i + k]
  <2>1. Len(evs) - m + 1 = Len(evs) - i /\ \A k \in 1 .. Len(evs) - i : m + k - 1 = i + k
    BY <1>1
  <2> HIDE DEF m
  <2> QED
    BY <1>a, <2>1, Zenon
<1>3. rest \in Seq(Event)
  BY <1>a
<1>4. Adjacent(rest)
  <2> SUFFICES ASSUME NEW k \in 1 .. Len(rest) - 1, rest[k + 1].tag \in Data
               PROVE  rest[k + 1].inode = rest[k].inode
    BY Zenon DEF Adjacent
  <2>1. rest[k] = evs[i + k] /\ rest[k + 1] = evs[(i + k) + 1] /\ i + k \in 1 .. Len(evs) - 1
    BY <1>1, <1>2
  <2> QED
    BY <2>1 DEF Adjacent
<1> QED
  BY <1>1, <1>2, <1>3, <1>4 DEF rest

(* The queue from event i + 1, and what it is to be flushed to. *)
Rest(evs, i) == SubSeq(evs, i + 1, Len(evs))

End(evs, i) == [k \in 1 .. Len(evs) - i |-> Plain(evs[i + k])]

(* One call, and then the rest as it is. *)
LEMMA CallAndRest ==
  ASSUME NEW evs \in Seq(Event), Adjacent(evs), NEW i \in 0 .. Len(evs) - 1
  PROVE  /\ i + Merged(Rest(evs, i)) \in i + 1 .. Len(evs)
         /\ Logged(SubSeq(Rest(evs, i), 1, Merged(Rest(evs, i)))) \o End(evs, i + Merged(Rest(evs, i)))
              = End(evs, i)
<1> DEFINE rest   == Rest(evs, i)
           m      == Merged(rest)
           call   == Logged(SubSeq(rest, 1, m))
           end(j) == End(evs, j)
<1>1. /\ rest \in Seq(Event) /\ Len(rest) = Len(evs) - i /\ Len(rest) >= 1 /\ Adjacent(rest)
      /\ \A k \in 1 .. Len(evs) - i : rest[k] = evs[i + k]
  BY RestOfQueue DEF Rest
<1>2. Len(evs) \in Nat /\ m \in 1 .. Len(evs) - i
  <2> HIDE DEF rest
  <2> QED
    BY <1>1, MergedRange
<1>3. \A k \in 1 .. m : call[k] = Plain(rest[k])
  <2> HIDE DEF rest
  <2> QED
    BY <1>1, CallIsPlain
<1>4. call = [k \in 1 .. m |-> call[k]] /\ Len(call) = m
  <2>1. Len(SubSeq(rest, 1, m)) = m
    <3> HIDE DEF rest, m
    <3> QED
      BY <1>1, <1>2
  <2> HIDE DEF rest, m
  <2>2. call = [k \in 1 .. m |-> call[k]]
    BY <2>1, Zenon DEF Logged
  <2> HIDE DEF call
  <2> QED
    BY <1>2, <2>2
<1> HIDE DEF rest, m, call
<1>5. \A k \in 1 .. m : call[k] = Plain(evs[i + k])
  BY <1>1, <1>2, <1>3
<1> DEFINE X == {Plain(evs[k]) : k \in 1 .. Len(evs)}
           e == end(i + m)
           c == call \o e
<1>6. e \in Seq(X) /\ Len(e) = Len(evs) - (i + m) /\ \A k \in 1 .. Len(e) : e[k] = Plain(evs[(i + m) + k])
  <2>1. \A k \in 1 .. Len(evs) - (i + m) : (i + m) + k \in 1 .. Len(evs)
    BY <1>2
  <2>2. Len(evs) - (i + m) \in Nat
    BY <1>2
  <2> QED
    BY <2>1, <2>2 DEF End
<1>7. call \in Seq(X)
  <2>1. \A k \in 1 .. m : call[k] \in X
    BY <1>2, <1>5
  <2> HIDE DEF X
  <2> QED
    BY <1>2, <1>4, <2>1
<1> HIDE DEF X, e, end
<1>8. /\ c \in Seq(X) /\ Len(c) = m + (Len(evs) - (i + m))
      /\ \A k \in 1 .. m : c[k] = call[k]
      /\ \A k \in 1 .. Len(e) : c[m + k] = e[k]
  <2>1. e \in Seq(X)
    BY <1>6
  <2>2. /\ c \in Seq(X) /\ Len(c) = Len(call) + Len(e)
        /\ \A k \in 1 .. Len(call) : c[k] = call[k]
        /\ \A k \in 1 .. Len(e) : c[Len(call) + k] = e[k]
    <3>1. c = call \o e
      OBVIOUS
    <3> HIDE DEF c
    <3>2. c \in Seq(X) /\ Len(c) = Len(call) + Len(e)
      BY <1>7, <2>1, <3>1, ConcatIs, Zenon
    <3>3. \A k \in 1 .. Len(call) : c[k] = call[k]
      BY <1>7, <2>1, <3>1, ConcatIs, Zenon
    <3>4. \A k \in 1 .. Len(e) : c[Len(call) + k] = e[k]
      BY <1>7, <2>1, <3>1, ConcatEnd, Zenon
    <3> QED
      BY <3>2, <3>3, <3>4
  <2> QED
    BY <1>4, <1>6, <2>2, Zenon
<1> HIDE DEF c
<1>9. \A k \in 1 .. Len(evs) - i : c[k] = Plain(evs[i + k])
  <2> SUFFICES ASSUME NEW k \in 1 .. Len(evs) - i, k > m PROVE c[k] = Plain(evs[i + k])
    BY <1>2, <1>5, <1>8
  <2>1. k - m \in 1 .. Len(e) /\ m + (k - m) = k /\ (i + m) + (k - m) = i + k
    BY <1>2, <1>6
  <2>2. c[m + (k - m)] = Plain(evs[(i + m) + (k - m)])
    BY <1>6, <1>8, <2>1
  <2> QED
    BY <2>1, <2>2
<1>10. c = end(i)
  <2>1. Len(c) = Len(evs) - i
    BY <1>2, <1>8
  <2>2. c = [k \in 1 .. Len(evs) - i |-> c[k]]
    BY <1>8, <2>1
  <2> QED
    BY <1>9, <2>2 DEF end, End
<1>11. i + m \in i + 1 .. Len(evs)
  BY <1>2
<1> QED
  BY <1>10, <1>11 DEF rest, m, call, e, c, end

(* What flushEvents computes: the events as they are. *)
LEMMA FlushIsStraight ==
  ASSUME NEW evs \in Seq(Event), Adjacent(evs)
  PROVE  flushEvents(evs) = Straight(evs)
<1> DEFINE n      == Len(evs)
           rest(i) == SubSeq(evs, i + 1, Len(evs))
           call(i) == Logged(SubSeq(rest(i), 1, Merged(rest(i))))
           Solves(f) == f = [i \in 0 .. Len(evs) |-> IF i = Len(evs) THEN <<>>
                                                    ELSE call(i) \o f[i + Merged(rest(i))]]
           sol    == [i \in 0 .. Len(evs) |-> End(evs, i)]
           from   == CHOOSE f : Solves(f)
<1>1. flushEvents(evs) = from[0]
  BY DEF flushEvents
<1>2. n \in Nat
  OBVIOUS
<1>3. \A i \in 0 .. n - 1 : /\ i + Merged(rest(i)) \in i + 1 .. n
                            /\ call(i) \o End(evs, i + Merged(rest(i))) = End(evs, i)
  BY CallAndRest DEF Rest
<1>4. End(evs, n) = <<>>
  BY <1>2 DEF End
<1> HIDE DEF call
<1>5. Solves(sol)
  <2>1. \A i \in 0 .. n - 1 : sol[i] = call(i) \o sol[i + Merged(rest(i))]
    BY <1>2, <1>3
  <2>2. sol[n] = <<>> /\ sol = [i \in 0 .. n |-> sol[i]]
    BY <1>2, <1>4
  <2> HIDE DEF sol, rest
  <2> DEFINE g == [i \in 0 .. n |-> IF i = n THEN <<>> ELSE call(i) \o sol[i + Merged(rest(i))]]
  <2>3. \A i \in 0 .. n : sol[i] = g[i]
    <3>1. \A i \in 0 .. n : i = n \/ (i # n /\ i \in 0 .. n - 1)
      BY <1>2
    <3> QED
      BY <2>1, <2>2, <3>1, Zenon
  <2>4. g = [i \in 0 .. n |-> g[i]]
    OBVIOUS
  <2>5. sol = g
    <3> HIDE DEF g
    <3> QED
      BY <2>2, <2>3, <2>4, Zenon
  <2> QED
    BY <2>5, Zenon
<1>6. Solves(from)
  <2> HIDE DEF Solves
  <2> QED
    BY <1>5
<1>6a. \A i \in 0 .. n : from[i] = IF i = n THEN <<>> ELSE call(i) \o from[i + Merged(rest(i))]
  <2> HIDE DEF from, rest
  <2> QED
    BY <1>6, Zenon
<1> HIDE DEF sol, from
<1> DEFINE Bad == {k \in 0 .. n : from[n - k] # End(evs, n - k)}
<1>7. Bad = {}
  <2> SUFFICES ASSUME Bad # {} PROVE FALSE
    OBVIOUS
  <2>1. PICK k \in Bad : \A j \in Bad : k <= j
    <3>1. Bad \in SUBSET Nat
      BY <1>2
    <3> HIDE DEF Bad
    <3> QED
      BY <3>1, LeastNat
  <2>2. k \in 0 .. n /\ n - k \in 0 .. n
    BY <1>2
  <2> DEFINE i == n - k
  <2>3. i # n
    <3> SUFFICES ASSUME i = n PROVE FALSE
      OBVIOUS
    <3>1. from[i] = <<>>
      BY <1>2, <1>6a
    <3> QED
      BY <1>4, <2>1, <3>1
  <2> DEFINE m == i + Merged(rest(i))
  <2>4. i \in 0 .. n - 1 /\ m \in i + 1 .. n
    BY <1>2, <1>3, <2>2, <2>3
  <2>5. from[i] = call(i) \o from[m]
    <3>1. i \in 0 .. n
      BY <1>2, <2>4
    <3> HIDE DEF i
    <3> QED
      BY <1>6a, <2>3, <3>1, Zenon
  <2>6. from[m] = End(evs, m)
    <3> HIDE DEF m
    <3>1. n - m \in 0 .. n /\ n - m < k /\ n - (n - m) = m
      BY <1>2, <2>2, <2>4
    <3>2. n - m \notin Bad
      BY <1>2, <2>1, <3>1
    <3> QED
      BY <3>1, <3>2
  <2>7. from[i] = End(evs, i)
    <3> HIDE DEF i, n
    <3>1. call(i) \o End(evs, m) = End(evs, i)
      BY <1>3, <2>4, Zenon
    <3> QED
      BY <2>5, <2>6, <3>1, Zenon
  <2> QED
    BY <2>1, <2>7, Zenon
<1>8. from[0] = End(evs, 0)
  <2>1. n \notin Bad /\ n \in 0 .. n /\ n - n = 0
    BY <1>2, <1>7
  <2> QED
    BY <2>1
<1>9. End(evs, 0) = Straight(evs)
  BY <1>2 DEF End, Straight
<1> QED
  BY <1>1, <1>8, <1>9

-----------------------------------------------------------------------------

(* The state of the queue when the current instruction has node n: what is  *)
(* owed is what the queue holds, the last event is the instruction's, and   *)
(* last is the last event when that is a read, which a write may be merged  *)
(* with.                                                                    *)
GoodCg(cg, n) ==
  /\ DOMAIN cg = {"events", "owed", "last"}
  /\ cg.events \in Seq(Event)
  /\ Len(cg.events) <= N_EVENTS
  /\ Adjacent(cg.events)
  /\ cg.events # <<>> => Last(cg.events).inode = n
  /\ cg.owed = Straight(cg.events)
  /\ cg.last \in Event
  /\ cg.last.tag = "Dr" => cg.events # <<>> /\ Last(cg.events) = cg.last
  /\ cg.events # <<>> /\ Last(cg.events).tag = "Dr" => cg.last = Last(cg.events)

(* Nothing queued, nothing owed. *)
LEMMA EmptyQueue == Straight(<<>>) = <<>> /\ Adjacent(<<>>) /\ <<>> \in Seq(Event)
  BY DEF Straight, Adjacent

(* What is owed is paid by calls that log just that. *)
LEMMA PaidInFull ==
  ASSUME NEW S, NEW s \in Seq(S)
  PROVE  Paid(s, s) = <<>>
<1>1. IsPrefix(s, s)
  BY DEF IsPrefix
<1>2. SubSeq(s, Len(s) + 1, Len(s)) = <<>>
  OBVIOUS
<1> QED
  BY <1>1, <1>2 DEF Paid

(* The events of the queue as they are, in a sequence. *)
LEMMA StraightSeq ==
  ASSUME NEW evs \in Seq(Event)
  PROVE  Straight(evs) \in Seq({Plain(evs[k]) : k \in 1 .. Len(evs)}) /\ Len(Straight(evs)) = Len(evs)
  BY DEF Straight

(* A flush empties the queue and pays what is owed. *)
LEMMA FlushPays ==
  ASSUME NEW cg, NEW n, GoodCg(cg, n)
  PROVE  /\ DOMAIN Flushed(cg) = {"events", "owed", "last"}
         /\ Flushed(cg).events = <<>> /\ Flushed(cg).owed = <<>> /\ Flushed(cg).last = cg.last
<1>1. flushEvents(cg.events) = Straight(cg.events) /\ cg.owed = Straight(cg.events)
  BY FlushIsStraight DEF GoodCg
<1>2. Paid(cg.owed, flushEvents(cg.events)) = <<>>
  BY <1>1, StraightSeq, PaidInFull, Zenon DEF GoodCg
<1>3. Flushed(cg) = [cg EXCEPT !.events = <<>>, !.owed = <<>>]
  BY <1>2 DEF Flushed
<1> QED
  BY <1>3 DEF GoodCg

(* There is room after WithRoom, and nothing else has changed. *)
LEMMA RoomIsMade ==
  ASSUME NEW cg, NEW n, GoodCg(cg, n)
  PROVE  LET e == WithRoom(cg).events
         IN  /\ e \in Seq(Event) /\ Len(e) + 1 <= N_EVENTS /\ Adjacent(e)
             /\ e # <<>> => Last(e).inode = n
             /\ WithRoom(cg).owed = Straight(e)
<1>1. CASE Len(cg.events) = N_EVENTS
  <2>1. WithRoom(cg).events = <<>> /\ WithRoom(cg).owed = <<>>
    BY <1>1, FlushPays DEF WithRoom
  <2> QED
    BY <2>1, EmptyQueue, EventsAssumption
<1>2. CASE Len(cg.events) # N_EVENTS
  <2>1. WithRoom(cg) = cg
    BY <1>2 DEF WithRoom
  <2>2. Len(cg.events) \in Nat /\ Len(cg.events) + 1 <= N_EVENTS
    BY <1>2, EventsAssumption DEF GoodCg
  <2> QED
    BY <2>1, <2>2 DEF GoodCg
<1> QED
  BY <1>1, <1>2

(* One more event. *)
LEMMA AppendIsGood ==
  ASSUME NEW e \in Seq(Event), Adjacent(e), NEW n, e # <<>> => Last(e).inode = n,
         NEW ev \in Event, ev.tag \in Data => ev.inode = n, ev.tag # "Dm"
  PROVE  /\ Append(e, ev) \in Seq(Event) /\ Len(Append(e, ev)) = Len(e) + 1
         /\ Append(e, ev) # <<>> /\ Last(Append(e, ev)) = ev
         /\ Adjacent(Append(e, ev))
         /\ Straight(Append(e, ev)) = Append(Straight(e), ev)
<1> DEFINE a == Append(e, ev)
<1>1. /\ a \in Seq(Event) /\ Len(a) = Len(e) + 1 /\ Len(e) \in Nat
      /\ \A k \in 1 .. Len(e) : a[k] = e[k]
      /\ a[Len(e) + 1] = ev
  OBVIOUS
<1> HIDE DEF a
<1>2. a # <<>> /\ Last(a) = ev
  BY <1>1 DEF Last
<1>3. Adjacent(a)
  <2> SUFFICES ASSUME NEW k \in 1 .. Len(a) - 1, a[k + 1].tag \in Data
               PROVE  a[k + 1].inode = a[k].inode
    BY DEF Adjacent
  <2>1. CASE k = Len(e)
    <3>1. e # <<>> /\ Last(e) = a[k] /\ a[k + 1] = ev
      BY <1>1, <2>1 DEF Last
    <3> QED
      BY <3>1
  <2>2. CASE k # Len(e)
    <3>1. k \in 1 .. Len(e) - 1 /\ a[k] = e[k] /\ a[k + 1] = e[k + 1]
      BY <1>1, <2>2
    <3> QED
      BY <3>1 DEF Adjacent
  <2> QED
    BY <2>1, <2>2
<1>4. Plain(ev) = ev
  BY DEF Plain, Ev, Event
<1>5. Straight(a) = Append(Straight(e), ev)
  <2> DEFINE X == {Plain(e[k]) : k \in 1 .. Len(e)} \cup {ev}
             s == Straight(e)
             t == Append(s, ev)
  <2>1. s \in Seq(X) /\ Len(s) = Len(e) /\ \A k \in 1 .. Len(e) : s[k] = Plain(e[k])
    BY <1>1 DEF Straight
  <2>2. ev \in X
    OBVIOUS
  <2> HIDE DEF s, X
  <2>3. /\ t \in Seq(X) /\ Len(t) = Len(e) + 1 /\ t[Len(e) + 1] = ev
        /\ \A k \in 1 .. Len(e) : t[k] = s[k]
    BY <1>1, <2>1, <2>2
  <2> HIDE DEF t
  <2>4. t = [k \in 1 .. Len(e) + 1 |-> t[k]]
    BY <2>3
  <2>5. \A k \in 1 .. Len(e) + 1 : t[k] = Plain(a[k])
    <3> SUFFICES ASSUME NEW k \in 1 .. Len(e) + 1 PROVE t[k] = Plain(a[k])
      OBVIOUS
    <3>1. CASE k = Len(e) + 1
      BY <1>1, <1>4, <2>3, <3>1
    <3>2. CASE k # Len(e) + 1
      <4>1. k \in 1 .. Len(e)
        BY <1>1, <3>2
      <4> QED
        BY <1>1, <2>1, <2>3, <4>1
    <3> QED
      BY <3>1, <3>2
  <2>6. Straight(a) = [k \in 1 .. Len(e) + 1 |-> Plain(a[k])]
    BY <1>1 DEF Straight
  <2>7. t = Straight(a)
    BY <2>4, <2>5, <2>6
  <2> QED
    BY <2>7 DEF s, t
<1> QED
  BY <1>1, <1>2, <1>3, <1>5 DEF a

(* An event is added. *)
LEMMA AddedIsGood ==
  ASSUME NEW cg, NEW n, GoodCg(cg, n), NEW ev \in Event, ev.tag \in Data => ev.inode = n,
         ev.tag # "Dm"
  PROVE  GoodCg(Added(cg, ev), ev.inode)
<1> DEFINE e == WithRoom(cg).events
           a == Append(e, ev)
           new == Added(cg, ev)
<1>1. /\ e \in Seq(Event) /\ Len(e) + 1 <= N_EVENTS /\ Adjacent(e)
      /\ e # <<>> => Last(e).inode = n
      /\ WithRoom(cg).owed = Straight(e)
  BY RoomIsMade
<1>2. new = [events |-> a, owed |-> Append(Straight(e), ev), last |-> ev]
  BY <1>1 DEF Added
<1> HIDE DEF e, new
<1>3. /\ a \in Seq(Event) /\ Len(a) = Len(e) + 1 /\ a # <<>> /\ Last(a) = ev /\ Adjacent(a)
      /\ Straight(a) = Append(Straight(e), ev)
  BY <1>1, AppendIsGood, Zenon
<1> HIDE DEF a
<1>4. /\ DOMAIN new = {"events", "owed", "last"}
      /\ new.events = a /\ new.owed = Straight(a) /\ new.last = ev
  BY <1>2, <1>3
<1>5. GoodCg(new, ev.inode)
  BY <1>1, <1>3, <1>4 DEF GoodCg
<1> QED
  BY <1>5 DEF new

(* The events that are added. *)
LEMMA Events ==
  ASSUME NEW n \in Inodes, NEW l \in Loc \cup {NoLoc},
         NEW tag \in {"none", "IrNoX", "IrGen", "Dr", "Dw", "Dm", "Bc", "Bi"}
  PROVE  /\ Ev(tag, n, l) \in Event
         /\ Ev(tag, n, l).tag = tag /\ Ev(tag, n, l).inode = n /\ Ev(tag, n, l).loc = l
  BY DEF Ev, Event

(* A read is added, when caches are simulated. *)
LEMMA DrIsGood ==
  ASSUME NEW cg, NEW n \in Inodes, GoodCg(cg, n), NEW loc \in Loc
  PROVE  GoodCg(addEvent_Dr(cg, n, loc), n)
<1>1. CASE clo_cache_sim
  <2>1. addEvent_Dr(cg, n, loc) = Added(cg, Ev("Dr", n, loc))
    BY <1>1 DEF addEvent_Dr
  <2>2. Ev("Dr", n, loc) \in Event /\ Ev("Dr", n, loc).inode = n /\ Ev("Dr", n, loc).tag = "Dr"
    BY Events
  <2> QED
    BY <2>1, <2>2, AddedIsGood
<1>2. CASE ~clo_cache_sim
  BY <1>2 DEF addEvent_Dr
<1> QED
  BY <1>1, <1>2

(* A branch is added, when branches are simulated. *)
LEMMA BranchIsGood ==
  ASSUME NEW cg, NEW n \in Inodes, GoodCg(cg, n), NEW tag \in {"Bc", "Bi"}
  PROVE  GoodCg(addEvent_B(cg, n, tag), n)
<1>1. CASE clo_branch_sim
  <2>1. addEvent_B(cg, n, tag) = Added(cg, Ev(tag, n, NoLoc))
    BY <1>1 DEF addEvent_B
  <2>2. Ev(tag, n, NoLoc) \in Event /\ Ev(tag, n, NoLoc).inode = n /\ Ev(tag, n, NoLoc).tag = tag
    BY Events
  <2>3. tag # "Dm" /\ tag \notin Data
    BY DEF Data
  <2> QED
    BY <2>1, <2>2, <2>3, AddedIsGood
<1>2. CASE ~clo_branch_sim
  BY <1>2 DEF addEvent_B
<1> QED
  BY <1>1, <1>2

(* A read that becomes a modify is still notified as a read. *)
LEMMA MergedIsGood ==
  ASSUME NEW e \in Seq(Event), Adjacent(e), e # <<>>, NEW n \in Inodes, NEW loc \in Loc,
         Last(e) = Ev("Dr", n, loc)
  PROVE  LET a == Append(Front(e), Ev("Dm", n, loc))
         IN  /\ a \in Seq(Event) /\ Len(a) = Len(e) /\ a # <<>> /\ Last(a) = Ev("Dm", n, loc)
             /\ Adjacent(a) /\ Straight(a) = Straight(e)
<1> DEFINE dm == Ev("Dm", n, loc)
           a == Append(Front(e), dm)
           z == Len(e)
<1>1. dm \in Event /\ dm.tag = "Dm" /\ dm.inode = n /\ dm.loc = loc
  BY Events
<1>2. /\ e[z].tag = "Dr" /\ e[z].inode = n /\ e[z].loc = loc
      /\ z \in Nat /\ z >= 1
  BY Events DEF Last
<1> HIDE DEF dm
<1>3. /\ a \in Seq(Event) /\ Len(a) = z
      /\ \A k \in 1 .. z - 1 : a[k] = e[k]
      /\ a[z] = dm
  <2>1. /\ Front(e) \in Seq(Event) /\ Len(Front(e)) = z - 1
        /\ \A k \in 1 .. z - 1 : Front(e)[k] = e[k]
    <3>1. z - 1 \in Nat /\ z - 1 <= Len(e) /\ 1 \in Nat
      BY <1>2 DEF z
    <3>2. Front(e) = SubSeq(e, 1, z - 1)
      BY DEF Front, z
    <3>3. /\ SubSeq(e, 1, z - 1) \in Seq(Event) /\ Len(SubSeq(e, 1, z - 1)) = z - 1
          /\ \A k \in 1 .. z - 1 : SubSeq(e, 1, z - 1)[k] = e[k]
      <4> DEFINE y == z - 1
      <4>1. y \in Nat /\ y <= Len(e)
        BY <3>1
      <4> HIDE DEF y, z
      <4>2. SubSeq(e, 1, y) \in Seq(Event) /\ Len(SubSeq(e, 1, y)) = y /\ \A k \in 1 .. y : SubSeq(e, 1, y)[k] = e[k]
        BY <4>1
      <4> QED
        BY <4>2 DEF y
    <3> QED
      BY <3>2, <3>3
  <2> QED
    BY <1>1, <1>2, <2>1
<1> HIDE DEF a, z
<1>4. a # <<>> /\ Last(a) = dm
  BY <1>2, <1>3 DEF Last
<1>5. Adjacent(a)
  <2> SUFFICES ASSUME NEW k \in 1 .. z - 1, a[k + 1].tag \in Data PROVE a[k + 1].inode = a[k].inode
    BY <1>3 DEF Adjacent
  <2>1. k \in 1 .. Len(e) - 1 /\ a[k] = e[k]
    BY <1>2, <1>3 DEF z
  <2>2. CASE k + 1 = z
    <3>1. a[k + 1] = dm /\ e[k + 1].tag \in Data /\ e[k + 1].inode = n
      BY <1>2, <1>3, <2>2 DEF Data
    <3> QED
      BY <1>1, <2>1, <3>1, Zenon DEF Adjacent
  <2>3. CASE k + 1 # z
    <3>1. a[k + 1] = e[k + 1]
      BY <1>2, <1>3, <2>3
    <3> QED
      BY <2>1, <3>1 DEF Adjacent
  <2> QED
    BY <2>2, <2>3
<1>6. Straight(a) = Straight(e)
  <2>1. Plain(dm) = Plain(e[z])
    BY <1>1, <1>2 DEF Plain
  <2>2. \A k \in 1 .. z : Plain(a[k]) = Plain(e[k])
    <3> SUFFICES ASSUME NEW k \in 1 .. z, k # z PROVE a[k] = e[k]
      BY <1>3, <2>1
    <3> QED
      BY <1>2, <1>3
  <2> QED
    BY <1>3, <2>2 DEF Straight, z
<1> QED
  BY <1>3, <1>4, <1>5, <1>6 DEF a, z, dm

(* A write is merged with the read before it, or added. *)
LEMMA DwIsGood ==
  ASSUME NEW cg, NEW n \in Inodes, GoodCg(cg, n), NEW loc \in Loc
  PROVE  GoodCg(addEvent_Dw(cg, n, loc), n)
<1> DEFINE dr  == Ev("Dr", n, loc)
           dw  == Ev("Dw", n, loc)
           dm  == Ev("Dm", n, loc)
           new == addEvent_Dw(cg, n, loc)
<1>0. /\ dr.tag = "Dr" /\ dw \in Event /\ dw.tag = "Dw" /\ dw.inode = n
      /\ dm.tag = "Dm" /\ dm.inode = n
  BY Events
<1>00. NoEvent \in Event /\ NoEvent.tag = "none"
  BY EventsAssumption DEF NoEvent, Ev, Event, Inodes
<1>1. CASE ~clo_cache_sim
  BY <1>1 DEF addEvent_Dw
<1>2. CASE clo_cache_sim /\ cg.events # <<>> /\ Last(cg.events) = dr
  <2> DEFINE a == Append(Front(cg.events), dm)
  <2>1. cg.last = dr
    BY <1>0, <1>2 DEF GoodCg
  <2>2. new = [events |-> a, owed |-> cg.owed, last |-> NoEvent]
    BY <1>2, <2>1 DEF addEvent_Dw
  <2>3. /\ a \in Seq(Event) /\ Len(a) = Len(cg.events) /\ a # <<>> /\ Last(a) = dm /\ Adjacent(a)
        /\ Straight(a) = Straight(cg.events)
    BY <1>2, MergedIsGood DEF GoodCg
  <2> HIDE DEF new, a, dm
  <2>4. /\ DOMAIN new = {"events", "owed", "last"}
        /\ new.events = a /\ new.owed = Straight(a) /\ new.last = NoEvent
    BY <2>2, <2>3 DEF GoodCg
  <2>5. Len(a) <= N_EVENTS
    BY <2>3 DEF GoodCg
  <2>6. GoodCg(new, n)
    BY <1>0, <1>00, <2>3, <2>4, <2>5 DEF GoodCg
  <2> QED
    BY <2>6, Zenon DEF new
<1>3. CASE clo_cache_sim /\ ~(cg.events # <<>> /\ Last(cg.events) = dr)
  <2> DEFINE e == WithRoom(cg).events
             a == Append(e, dw)
  <2>1. cg.last # dr
    BY <1>0, <1>3 DEF GoodCg
  <2>2. /\ e \in Seq(Event) /\ Len(e) + 1 <= N_EVENTS /\ Adjacent(e)
        /\ e # <<>> => Last(e).inode = n
        /\ WithRoom(cg).owed = Straight(e)
    BY RoomIsMade
  <2>3. new = [events |-> a, owed |-> Append(Straight(e), dw), last |-> NoEvent]
    BY <1>3, <2>1, <2>2, Zenon DEF addEvent_Dw
  <2> HIDE DEF new, e, dw
  <2>4. /\ a \in Seq(Event) /\ Len(a) = Len(e) + 1 /\ a # <<>> /\ Last(a) = dw /\ Adjacent(a)
        /\ Straight(a) = Append(Straight(e), dw)
    BY <1>0, <2>2, AppendIsGood, Zenon
  <2> HIDE DEF a
  <2>5. /\ DOMAIN new = {"events", "owed", "last"}
        /\ new.events = a /\ new.owed = Straight(a) /\ new.last = NoEvent
    BY <2>3, <2>4
  <2>6. GoodCg(new, n)
    BY <1>0, <1>00, <2>2, <2>4, <2>5 DEF GoodCg
  <2> QED
    BY <2>6 DEF new
<1> QED
  BY <1>1, <1>2, <1>3

(* A guarded reference is notified by itself, behind all of the queue. *)
LEMMA GuardedIsGood ==
  ASSUME NEW cg, NEW n \in Inodes, GoodCg(cg, n), NEW loc \in Loc, NEW tag \in {"Dr", "Dw"}
  PROVE  GoodCg(addEvent_D_guarded(cg, n, loc, tag), n)
<1> DEFINE ev  == Ev(tag, n, loc)
           new == addEvent_D_guarded(cg, n, loc, tag)
<1>0. NoEvent \in Event /\ NoEvent.tag = "none"
  BY EventsAssumption DEF NoEvent, Ev, Event, Inodes
<1>1. CASE ~clo_cache_sim
  BY <1>1 DEF addEvent_D_guarded
<1>2. CASE clo_cache_sim
  <2>1. Append(Flushed(cg).owed, ev) = <<ev>>
    <3>1. Flushed(cg).owed = <<>>
      BY FlushPays
    <3>2. Append(<<>>, ev) = <<ev>>
      <4> HIDE DEF ev
      <4> QED  OBVIOUS
    <3> QED
      BY <3>1, <3>2
  <2>2. <<ev>> \in Seq({ev})
    OBVIOUS
  <2>3. Paid(<<ev>>, <<ev>>) = <<>>
    BY <2>2, PaidInFull, Zenon
  <2> HIDE DEF ev
  <2>4. new = [events |-> <<>>, owed |-> <<>>, last |-> NoEvent]
    BY <1>2, <2>1, <2>3 DEF addEvent_D_guarded, ev
  <2> HIDE DEF new
  <2>5. DOMAIN new = {"events", "owed", "last"} /\ new.events = <<>> /\ new.owed = <<>> /\ new.last = NoEvent
    BY <2>4
  <2>6. Len(<<>>) <= N_EVENTS
    BY EventsAssumption
  <2>7. GoodCg(new, n)
    BY <1>0, <2>5, <2>6, EmptyQueue, Zenon DEF GoodCg
  <2> QED
    BY <2>7 DEF new
<1> QED
  BY <1>1, <1>2

(* A flush after which no write is merged leaves nothing owed. *)
LEMMA FlushIsGood ==
  ASSUME NEW cg, NEW n, GoodCg(cg, n)
  PROVE  LET new == [Flushed(cg) EXCEPT !.last = NoEvent]
         IN  GoodCg(new, n) /\ new.owed = <<>>
<1> DEFINE new == [Flushed(cg) EXCEPT !.last = NoEvent]
<1>1. NoEvent \in Event /\ NoEvent.tag = "none"
  BY EventsAssumption DEF NoEvent, Ev, Event, Inodes
<1>2. DOMAIN new = {"events", "owed", "last"} /\ new.events = <<>> /\ new.owed = <<>> /\ new.last = NoEvent
  BY FlushPays
<1> HIDE DEF new
<1>3. Len(<<>>) <= N_EVENTS
  BY EventsAssumption
<1>4. GoodCg(new, n)
  BY <1>1, <1>2, <1>3, EmptyQueue DEF GoodCg
<1> QED
  BY <1>2, <1>4 DEF new

-----------------------------------------------------------------------------

(* The inductive invariant. *)
IInv ==
  /\ GoodCg(cgs, curr_inode)
  /\ curr_inode \in Inodes
  /\ at \in {"start", "exit"} => cgs.owed = <<>>

(* The instrumentation starts in the invariant. *)
LEMMA InitIInv == Init => IInv
<1> SUFFICES ASSUME Init PROVE IInv
  OBVIOUS
<1>1. NoEvent \in Event /\ NoEvent.tag = "none"
  BY EventsAssumption DEF NoEvent, Ev, Event, Inodes
<1>2. DOMAIN cgs = {"events", "owed", "last"} /\ cgs.events = <<>> /\ cgs.owed = <<>> /\ cgs.last = NoEvent
  BY DEF Init, EmptyState
<1>3. Len(<<>>) <= N_EVENTS /\ curr_inode \in Inodes
  BY EventsAssumption DEF Init, Inodes
<1> QED
  BY <1>1, <1>2, <1>3, EmptyQueue DEF IInv, GoodCg

(* Every step keeps the invariant. *)
LEMMA NextIInv == IInv /\ [Next]_vars => IInv'
<1> SUFFICES ASSUME IInv, [Next]_vars PROVE IInv'
  OBVIOUS
<1>0. GoodCg(cgs, curr_inode) /\ curr_inode \in Inodes
  BY DEF IInv
<1> DEFINE n == curr_inode
<1>1. ASSUME NEW tag \in {"IrNoX", "IrGen"}, IMark(tag)
      PROVE  IInv'
  <2> DEFINE ev == Ev(tag, curr_inode', NoLoc)
  <2>1. curr_inode' \in Inodes
    <3>1. curr_inode + 1 \in Int /\ N_EVENTS + 2 \in Nat \ {0}
      BY <1>0, EventsAssumption DEF Inodes
    <3>2. (curr_inode + 1) % (N_EVENTS + 2) \in 0 .. (N_EVENTS + 2) - 1
      BY <3>1
    <3> QED
      BY <1>1, <3>1, <3>2, EventsAssumption DEF IMark, Inodes
  <2>2. cgs' = Added(cgs, ev) /\ at' = "inside"
    BY <1>1 DEF IMark, addEvent_Ir
  <2>3. ev \in Event /\ ev.tag = tag /\ ev.inode = curr_inode' /\ tag # "Dm" /\ tag \notin Data
    BY <2>1, Events DEF Data
  <2> HIDE DEF ev
  <2>4. GoodCg(Added(cgs, ev), ev.inode)
    BY <1>0, <2>3, AddedIsGood
  <2> QED
    BY <2>1, <2>2, <2>3, <2>4 DEF IInv
<1>2. ASSUME Statement, GoodCg(cgs', n)
      PROVE  IInv'
  BY <1>0, <1>2 DEF Statement, IInv
<1>3. ASSUME NEW loc \in Loc, Load(loc) \/ Store(loc) \/ Modify(loc)
      PROVE  IInv'
  <2>1. Load(loc) => GoodCg(cgs', n) /\ Statement
    BY <1>0, DrIsGood DEF Load
  <2>2. Store(loc) => GoodCg(cgs', n) /\ Statement
    BY <1>0, DwIsGood DEF Store
  <2>3. Modify(loc) => GoodCg(cgs', n) /\ Statement
    BY <1>0, DrIsGood, DwIsGood DEF Modify
  <2> QED
    BY <1>2, <1>3, <2>1, <2>2, <2>3
<1>4. ASSUME NEW loc \in Loc, LoadLinked(loc)
      PROVE  IInv'
  <2>1. GoodCg(addEvent_Dr(cgs, n, loc), n)
    BY <1>0, DrIsGood
  <2>2. GoodCg(cgs', n) /\ Statement
    BY <1>4, <2>1, FlushIsGood DEF LoadLinked
  <2> QED
    BY <1>2, <2>2
<1>5. ASSUME NEW loc \in Loc, NEW tag \in {"Dr", "Dw"}, Guarded(loc, tag)
      PROVE  IInv'
  <2>1. GoodCg(cgs', n) /\ Statement
    BY <1>0, <1>5, GuardedIsGood DEF Guarded
  <2> QED
    BY <1>2, <2>1
<1>6. ASSUME NEW b \in BOOLEAN, Exit(b) \/ EndOfBlock(b)
      PROVE  IInv'
  <2>1. PICK tag \in {"Bc", "Bi"} :
          cgs' = [Flushed(IF b THEN addEvent_B(cgs, n, tag) ELSE cgs) EXCEPT !.last = NoEvent]
    BY <1>6, Zenon DEF Exit, EndOfBlock
  <2> DEFINE cg == IF b THEN addEvent_B(cgs, n, tag) ELSE cgs
  <2>2. GoodCg(cg, n)
    BY <1>0, BranchIsGood
  <2> HIDE DEF cg
  <2>3. GoodCg(cgs', n) /\ cgs'.owed = <<>>
    BY <2>1, <2>2, FlushIsGood DEF cg
  <2>4. curr_inode' = curr_inode
    BY <1>6 DEF Exit, EndOfBlock
  <2> QED
    BY <1>0, <2>3, <2>4 DEF IInv
<1>7. CASE UNCHANGED vars
  BY <1>0, <1>7 DEF vars, IInv
<1> QED
  BY <1>1, <1>3, <1>4, <1>5, <1>6, <1>7 DEF Next

(* The array of events of CgState never overflows, whatever statements come *)
(* (the addEvent functions flush it first).                                 *)
THEOREM QueueNeverOverflows == Spec => []TypeOK
<1>1. IInv => TypeOK
  BY DEF IInv, GoodCg, TypeOK, ToSet
<1> QED
  BY <1>1, InitIInv, NextIInv, PTL DEF Spec

(* The simulator sees the references of the program in the program's order, *)
(* each once and for its own instruction, however the queue fills up,       *)
(* whichever events are merged into modifies and calls into one.            *)
THEOREM CallsFollowProgram == Spec => []NothingLostOrReordered
<1>1. IInv => NothingLostOrReordered
  BY FlushIsStraight DEF IInv, GoodCg, NothingLostOrReordered
<1> QED
  BY <1>1, InitIInv, NextIInv, PTL DEF Spec

(* Where the code of a block may be left, nothing is owed. *)
THEOREM ExitsOweNothing == Spec => []NothingOwedAtExits
<1>1. IInv => NothingOwedAtExits
  BY DEF IInv, NothingOwedAtExits
<1> QED
  BY <1>1, InitIInv, NextIInv, PTL DEF Spec

(* The assertions of flushEvents on ev2->inode, the node of a data event    *)
(* that is notified in one call with the instruction before it, never fail. *)
THEOREM MergedCallsAgree ==
  Spec => [](\A k \in 1 .. Len(cgs.events) - 1 :
               cgs.events[k].tag = "IrNoX" /\ cgs.events[k + 1].tag \in Data =>
                 cgs.events[k + 1].inode = cgs.events[k].inode)
<1>1. IInv => \A k \in 1 .. Len(cgs.events) - 1 :
                cgs.events[k].tag = "IrNoX" /\ cgs.events[k + 1].tag \in Data =>
                  cgs.events[k + 1].inode = cgs.events[k].inode
  BY DEF IInv, GoodCg, Adjacent
<1> QED
  BY <1>1, InitIInv, NextIInv, PTL DEF Spec
============================================================================
