---------------------------- MODULE ShmRingProofs ----------------------------
(***************************************************************************)
(* Proofs about the shared-memory ring, for every capacity, every counter  *)
(* width that the capacity divides, every batch length and every set of    *)
(* values.                                                                 *)
(***************************************************************************)
EXTENDS ShmRing, SequenceTheorems, TLAPS

(***************************************************************************)
(* Arithmetic of the wrapping counters.                                    *)
(***************************************************************************)

\* A number is a multiple of n and a remainder below n.
LEMMA DivMod ==
    ASSUME NEW a \in Int, NEW n \in Nat \ {0}
    PROVE  /\ a % n \in 0..(n - 1)
           /\ \E q \in Int : a = q * n + (a % n)
<1>1. a % n \in 0..(n - 1)
    BY Z3
<1>2. a = (a \div n) * n + (a % n)
    BY Z3
<1>3. a \div n \in Int
    BY Z3
<1> QED BY <1>1, <1>2, <1>3

\* The remainder is unique.
LEMMA ModUnique ==
    ASSUME NEW n \in Nat \ {0}, NEW q \in Int, NEW p \in Int,
           NEW r \in 0..(n - 1), NEW s \in 0..(n - 1),
           q * n + r = p * n + s
    PROVE  r = s /\ q = p
<1>1. CASE q < p
  <2>1. p - q >= 1
    BY <1>1
  <2>2. (p - q) * n >= n
    BY <2>1, Z3
  <2>3. (p - q) * n = p * n - q * n
    BY Z3
  <2> QED BY <2>2, <2>3
<1>2. CASE p < q
  <2>1. q - p >= 1
    BY <1>2
  <2>2. (q - p) * n >= n
    BY <2>1, Z3
  <2>3. (q - p) * n = q * n - p * n
    BY Z3
  <2> QED BY <2>2, <2>3
<1>3. CASE q = p
    BY <1>3
<1> QED BY <1>1, <1>2, <1>3

\* Adding a multiple of n leaves the remainder alone.
LEMMA ModShift ==
    ASSUME NEW n \in Nat \ {0}, NEW q \in Int, NEW r \in 0..(n - 1)
    PROVE  (q * n + r) % n = r
<1>1. q * n + r \in Int
    BY Z3
<1>2. PICK p \in Int : q * n + r = p * n + ((q * n + r) % n)
    BY <1>1, DivMod
<1>3. (q * n + r) % n \in 0..(n - 1)
    BY <1>1, DivMod
<1>4. \A x \in 0..(n - 1) : q * n + r = p * n + x => r = x
    BY ModUnique
<1> QED BY <1>2, <1>3, <1>4, Zenon

\* CounterMod is a whole number of laps around the array.
LEMMA WholeLaps == \E k \in Int : CounterMod = k * Capacity
<1>1. CounterMod \in Int /\ Capacity \in Nat \ {0}
    BY RingAssumption
<1>2. PICK k \in Int : CounterMod = k * Capacity + (CounterMod % Capacity)
    BY <1>1, DivMod, Zenon
<1>3. k * Capacity \in Int
    BY <1>1, Z3
<1>4. CounterMod = k * Capacity
    BY <1>1, <1>2, <1>3, RingAssumption
<1> QED BY <1>4

\* Counter subtraction is the ordinary difference, or that plus CounterMod.
LEMMA SubCases ==
    ASSUME NEW a \in Counters, NEW b \in Counters
    PROVE  /\ a >= b => Sub(a, b) = a - b
           /\ a < b => Sub(a, b) = a - b + CounterMod
           /\ Sub(a, b) \in Counters
<1> USE RingAssumption
<1>1. CASE a >= b
  <2>1. a - b \in 0..(CounterMod - 1)
    BY <1>1 DEF Counters
  <2>2. (0 * CounterMod + (a - b)) % CounterMod = a - b
    BY <2>1, ModShift
  <2> QED BY <1>1, <2>1, <2>2 DEF Sub, Counters
<1>2. CASE a < b
  <2>1. a - b + CounterMod \in 0..(CounterMod - 1)
    BY <1>2 DEF Counters
  <2>2. ((-1) * CounterMod + (a - b + CounterMod)) % CounterMod = a - b + CounterMod
    BY <2>1, ModShift
  <2>3. (-1) * CounterMod + (a - b + CounterMod) = a - b
    BY DEF Counters
  <2> QED BY <1>2, <2>1, <2>2, <2>3 DEF Sub, Counters
<1> QED BY <1>1, <1>2 DEF Counters

\* Counter addition is the ordinary sum, or that minus CounterMod.
LEMMA AddCases ==
    ASSUME NEW a \in Counters, NEW n \in 0..Capacity
    PROVE  /\ a + n < CounterMod => Add(a, n) = a + n
           /\ a + n >= CounterMod => Add(a, n) = a + n - CounterMod
           /\ Add(a, n) \in Counters
<1> USE RingAssumption
<1>1. CASE a + n < CounterMod
  <2>1. a + n \in 0..(CounterMod - 1)
    BY <1>1 DEF Counters
  <2>2. (0 * CounterMod + (a + n)) % CounterMod = a + n
    BY <2>1, ModShift
  <2> QED BY <1>1, <2>1, <2>2 DEF Add, Counters
<1>2. CASE a + n >= CounterMod
  <2>1. a + n - CounterMod \in 0..(CounterMod - 1)
    BY <1>2 DEF Counters
  <2>2. (1 * CounterMod + (a + n - CounterMod)) % CounterMod = a + n - CounterMod
    BY <2>1, ModShift
  <2>3. 1 * CounterMod + (a + n - CounterMod) = a + n
    BY DEF Counters
  <2> QED BY <1>2, <2>1, <2>2, <2>3 DEF Add, Counters
<1> QED BY <1>1, <1>2 DEF Counters

\* The slot of a counter, moved by n within a lap.
Lap(s, n) == IF s + n < Capacity THEN s + n ELSE s + n - Capacity

\* Advancing a counter by at most a lap advances its slot around the array,
\* also when the counter itself wraps.
LEMMA SlotAdd ==
    ASSUME NEW a \in Counters, NEW n \in 0..Capacity
    PROVE  /\ Slot(a) \in Slots
           /\ Slot(Add(a, n)) = Lap(Slot(a), n)
<1> USE RingAssumption
<1> DEFINE s == a % Capacity
<1>0. a \in Int /\ Capacity \in Nat \ {0}
    BY DEF Counters
<1>1. PICK q \in Int : a = q * Capacity + s
    BY <1>0, DivMod, Zenon
<1>2. s \in 0..(Capacity - 1)
    BY <1>0, DivMod, Zenon
<1> HIDE DEF s
<1>3. PICK k \in Int : CounterMod = k * Capacity
    BY WholeLaps
<1>4. Lap(s, n) \in 0..(Capacity - 1)
    BY <1>2 DEF Lap
<1> DEFINE m == IF s + n < Capacity THEN q ELSE q + 1
<1>5. m \in Int /\ a + n = m * Capacity + Lap(s, n)
  <2>1. CASE s + n < Capacity
    BY <1>1, <1>2, <2>1 DEF Lap, Counters
  <2>2. CASE ~(s + n < Capacity)
    <3>1. (q + 1) * Capacity = q * Capacity + Capacity
      BY Z3
    <3> QED BY <1>1, <1>2, <2>2, <3>1 DEF Lap, Counters
  <2> QED BY <2>1, <2>2
<1> HIDE DEF m
<1>8. m \in Int
    BY <1>5
<1>6. CASE a + n < CounterMod
  <2>1. Add(a, n) = a + n
    BY <1>6, AddCases
  <2>2. Add(a, n) = m * Capacity + Lap(s, n)
    BY <1>5, <2>1
  <2>3. (m * Capacity + Lap(s, n)) % Capacity = Lap(s, n)
    BY <1>0, <1>4, <1>8, ModShift, Zenon
  <2> QED BY <1>2, <2>2, <2>3 DEF Slot, Slots, s
<1>7. CASE a + n >= CounterMod
  <2>0. Add(a, n) = (a + n) - CounterMod
    BY <1>7, AddCases DEF Counters
  <2>1. Add(a, n) = (m * Capacity + Lap(s, n)) - k * Capacity
    BY <1>3, <1>5, <2>0, Zenon
  <2>2. (m - k) * Capacity = m * Capacity - k * Capacity
    BY <1>8, Z3
  <2>3. Add(a, n) = (m - k) * Capacity + Lap(s, n)
    BY <1>4, <1>8, <2>1, <2>2, Z3
  <2>4. m - k \in Int
    BY <1>8
  <2>5. ((m - k) * Capacity + Lap(s, n)) % Capacity = Lap(s, n)
    BY <1>0, <1>4, <2>4, ModShift, Zenon
  <2> QED BY <1>2, <2>3, <2>5 DEF Slot, Slots, s
<1> QED BY <1>6, <1>7 DEF Counters

-----------------------------------------------------------------------------
(***************************************************************************)
(* The inductive invariant.                                                *)
(***************************************************************************)

\* What the distance between the counters becomes when one of them moves.
LEMMA SizeMoves ==
    ASSUME NEW h \in Counters, NEW t \in Counters, Sub(h, t) <= Capacity
    PROVE  /\ Sub(h, t) \in 0..Capacity
           /\ Sub(h, h) = 0
           /\ \A n \in 0..(Capacity - Sub(h, t)) : Sub(Add(h, n), t) = Sub(h, t) + n
           /\ \A n \in 0..Sub(h, t) : Sub(h, Add(t, n)) = Sub(h, t) - n
<1> USE RingAssumption
<1>1. Sub(h, t) \in 0..Capacity /\ Sub(h, h) = 0
    BY SubCases DEF Counters
<1>2. ASSUME NEW n \in 0..(Capacity - Sub(h, t))
      PROVE  Sub(Add(h, n), t) = Sub(h, t) + n
  <2>1. n \in 0..Capacity
    BY <1>1
  <2> DEFINE g == Add(h, n)
  <2>2. /\ g \in Counters
        /\ h + n < CounterMod => g = h + n
        /\ h + n >= CounterMod => g = h + n - CounterMod
    BY <2>1, AddCases
  <2> HIDE DEF g
  <2>3. /\ h >= t => Sub(h, t) = h - t
        /\ h < t => Sub(h, t) = h - t + CounterMod
        /\ g >= t => Sub(g, t) = g - t
        /\ g < t => Sub(g, t) = g - t + CounterMod
    BY <2>2, SubCases
  <2>4. Sub(g, t) = Sub(h, t) + n
    BY <1>1, <2>1, <2>2, <2>3 DEF Counters
  <2> QED BY <2>4 DEF g
<1>3. ASSUME NEW n \in 0..Sub(h, t)
      PROVE  Sub(h, Add(t, n)) = Sub(h, t) - n
  <2>1. n \in 0..Capacity
    BY <1>1
  <2> DEFINE u == Add(t, n)
  <2>2. /\ u \in Counters
        /\ t + n < CounterMod => u = t + n
        /\ t + n >= CounterMod => u = t + n - CounterMod
    BY <2>1, AddCases
  <2> HIDE DEF u
  <2>3. /\ h >= t => Sub(h, t) = h - t
        /\ h < t => Sub(h, t) = h - t + CounterMod
        /\ h >= u => Sub(h, u) = h - u
        /\ h < u => Sub(h, u) = h - u + CounterMod
    BY <2>2, SubCases
  <2>4. Sub(h, u) = Sub(h, t) - n
    BY <1>1, <2>1, <2>2, <2>3 DEF Counters
  <2> QED BY <2>4 DEF u
<1> QED BY <1>1, <1>2, <1>3

\* The chunked copy goes around the array element by element.
LEMMA ChunkLap ==
    ASSUME NEW s \in Slots, NEW n \in 0..Capacity, NEW k \in 0..(n - 1)
    PROVE  ChunkSlot(s, n, k) = Lap(s, k) /\ ChunkSlot(s, n, k) \in Slots
    BY RingAssumption DEF ChunkSlot, FirstChunk, Lap, Slots

\* Where the head slot lies, seen from the tail slot.
LEMMA HeadSlot ==
    ASSUME NEW h \in Counters, NEW t \in Counters, Sub(h, t) <= Capacity
    PROVE  /\ Slot(h) = Lap(Slot(t), Sub(h, t))
           /\ Slot(h) \in Slots
           /\ Slot(t) \in Slots
<1> USE RingAssumption
<1>1. Sub(h, t) \in 0..Capacity
    BY SizeMoves
<1>2. Add(t, Sub(h, t)) = h
  <2> DEFINE d == Sub(h, t)
  <2>1. /\ t + d < CounterMod => Add(t, d) = t + d
        /\ t + d >= CounterMod => Add(t, d) = t + d - CounterMod
    BY <1>1, AddCases
  <2>2. /\ h >= t => d = h - t
        /\ h < t => d = h - t + CounterMod
    BY SubCases
  <2> HIDE DEF d
  <2>3. Add(t, d) = h
    BY <2>1, <2>2 DEF Counters
  <2> QED BY <2>3 DEF d
<1>3. Slot(h) \in Slots /\ Slot(t) \in Slots
    BY SlotAdd, 0 \in 0..Capacity
<1> QED BY <1>1, <1>2, <1>3, SlotAdd

\* A free slot is not an occupied one: run lengths that fit do not meet.
LEMMA Disjoint ==
    ASSUME NEW s \in Slots, NEW size \in 0..Capacity,
           NEW j \in 0..(Capacity - size - 1), NEW k \in 0..(size - 1)
    PROVE  Lap(Lap(s, size), j) # Lap(s, k)
    BY RingAssumption DEF Lap, Slots

\* Two elements of a run within a lap lie in different slots.
LEMMA DistinctLap ==
    ASSUME NEW s \in Slots, NEW i \in 0..(Capacity - 1), NEW k \in 0..(i - 1)
    PROVE  Lap(s, k) # Lap(s, i)
    BY RingAssumption DEF Lap, Slots

LEMMA InitInv == Init => RingInv
<1> USE RingAssumption
<1> SUFFICES ASSUME Init PROVE RingInv
    OBVIOUS
<1>1. 0 \in Counters
    BY DEF Counters
<1>2. TypeOK
    BY <1>1 DEF Init, TypeOK, NoPush, NoPop, Idle
<1>3. Size <= Capacity
    BY <1>1, SubCases DEF Init, Size
<1>4. ProdInv /\ ConsInv
    BY DEF Init, ProdInv, ConsInv, NoPush, NoPop, Idle
<1> QED BY <1>2, <1>3, <1>4 DEF RingInv

\* The facts that every step starts from.
LEMMA InvFacts ==
    ASSUME RingInv
    PROVE  /\ head \in Counters /\ tail \in Counters
           /\ Size \in 0..Capacity
           /\ Slot(head) \in Slots /\ Slot(tail) \in Slots
           /\ Slot(head) = Lap(Slot(tail), Size)
    BY RingAssumption, SizeMoves, HeadSlot DEF RingInv, TypeOK, Size

\* The room a push finds fits between the elements of the ring.
LEMMA RoomFits ==
    ASSUME NEW used \in 0..Capacity, NEW items, Len(items) \in Nat, Len(items) >= 1, NEW bulk
    PROVE  /\ Room(items, bulk, used) \in 0..Len(items)
           /\ used + Room(items, bulk, used) <= Capacity
           /\ Room(items, bulk, used) = 0 => used = Capacity
<1>1. Sub(Capacity, used) = Capacity - used
    BY RingAssumption, SubCases DEF Counters
<1> QED BY <1>1, RingAssumption DEF Room, Least

\* A pop takes no more than there is.
LEMMA TakeFits ==
    ASSUME NEW h \in Counters, NEW t \in Counters, Sub(h, t) \in 0..Capacity,
           NEW max \in Nat, max >= 1, NEW bulk
    PROVE  /\ Take(max, bulk, h, t) \in 0..Sub(h, t)
           /\ Take(max, bulk, h, t) = 0 => Sub(h, t) = 0
<1>1. h = t <=> Sub(h, t) = 0
  <2>1. /\ h >= t => Sub(h, t) = h - t
        /\ h < t => Sub(h, t) = h - t + CounterMod
    BY SubCases
  <2> QED BY <2>1, RingAssumption DEF Counters
<1> QED BY <1>1, RingAssumption DEF Take, Least

\* A thread outside a call claims nothing.
LEMMA NoPushInv ==
    ASSUME prod' = NoPush
    PROVE  /\ ProdInv'
           /\ prod' \in [pc : {Idle, "loaded", "copy"}, head : Counters, items : Seq(Values),
                          bulk : BOOLEAN, n : Nat, i : Nat]
<1>1. 0 \in Counters
    BY RingAssumption DEF Counters
<1> QED BY <1>1 DEF ProdInv, NoPush, Idle

LEMMA NoPopInv ==
    ASSUME cons' = NoPop
    PROVE  /\ ConsInv'
           /\ cons' \in [pc : {Idle, "loaded", "copy"}, tail : Counters,
                          out : Seq(Values \cup {Zero}), bulk : BOOLEAN, n : Nat, max : Nat]
<1>1. 0 \in Counters
    BY RingAssumption DEF Counters
<1> QED BY <1>1 DEF ConsInv, NoPop, Idle

LEMMA NextInv == RingInv /\ [Next]_vars => RingInv'
<1> SUFFICES ASSUME RingInv, [Next]_vars PROVE RingInv'
    OBVIOUS
<1> USE RingAssumption
<1>0. /\ head \in Counters /\ tail \in Counters /\ Size \in 0..Capacity
      /\ Slot(head) \in Slots /\ Slot(tail) \in Slots
      /\ Slot(head) = Lap(Slot(tail), Size)
    BY InvFacts
<1>1. ASSUME NEW items \in Batches, NEW bulk \in BOOLEAN, PushLoadHead(items, bulk)
      PROVE  RingInv'
  <2>1. items \in Seq(Values) /\ Len(items) >= 1
    BY DEF Batches
  <2>2. TypeOK'
    BY <1>1, <2>1 DEF PushLoadHead, RingInv, TypeOK, Idle
  <2>3. ProdInv'
    BY <1>1, <2>1 DEF PushLoadHead, ProdInv, Idle
  <2> QED BY <1>1, <2>2, <2>3 DEF PushLoadHead, RingInv, ConsInv, Size
<1>2. ASSUME PushLoadTail PROVE RingInv'
  <2> DEFINE n == Room(prod.items, prod.bulk, Sub(prod.head, tail))
  <2>1. prod.head = head /\ Len(prod.items) >= 1 /\ Len(prod.items) \in Nat /\ pushRet = Running
    BY <1>2 DEF PushLoadTail, RingInv, TypeOK, ProdInv, Idle
  <2>2. n \in 0..Len(prod.items) /\ Size + n <= Capacity
    BY <1>0, <2>1, RoomFits DEF Size
  <2> HIDE DEF n
  <2>3. prod' = IF n = 0 THEN NoPush ELSE [prod EXCEPT !.pc = "copy", !.n = n]
    BY <1>2 DEF PushLoadTail, n
  <2>4. prod.i = 0
    BY <1>2 DEF PushLoadTail, RingInv, ProdInv
  <2>5. CASE n = 0
    BY <1>2, <2>3, <2>5, NoPushInv DEF PushLoadTail, RingInv, ConsInv, TypeOK, Size
  <2>6. CASE n # 0
    <3>1. prod' = [prod EXCEPT !.pc = "copy", !.n = n]
      BY <2>3, <2>6
    <3>0. n \in Nat
      BY <2>1, <2>2
    <3>2. TypeOK'
      BY <1>2, <3>0, <3>1 DEF PushLoadTail, RingInv, TypeOK
    <3>3. /\ prod'.pc = "copy" /\ prod'.n = n /\ prod'.i = 0
          /\ prod'.head = head /\ prod'.items = prod.items
      BY <1>2, <2>1, <2>4, <3>1 DEF RingInv, TypeOK
    <3>4. ProdInv'
      <4>1. pushRet' = Running
        BY <1>2, <2>1, <2>6 DEF PushLoadTail, n
      <4> QED BY <1>0, <1>2, <2>1, <2>2, <2>6, <3>3, <4>1 DEF PushLoadTail, ProdInv, Idle, Size
    <3> QED BY <1>2, <3>2, <3>4 DEF PushLoadTail, RingInv, ConsInv, Size
  <2> QED BY <2>5, <2>6
<1>3. ASSUME PushCopy PROVE RingInv'
  <2> DEFINE w == ChunkSlot(Slot(prod.head), prod.n, prod.i)
  <2>1. /\ prod.pc = "copy" /\ prod.head = head /\ prod.n \in 1..Len(prod.items)
        /\ Size + prod.n <= Capacity /\ prod.i \in 0..(prod.n - 1)
        /\ prod.items \in Seq(Values) /\ prod.n \in 0..Capacity /\ pushRet = Running
    <3>1. prod.pc = "copy" /\ prod.i < prod.n /\ prod.items \in Seq(Values) /\ prod.i \in Nat
      BY <1>3 DEF PushCopy, RingInv, TypeOK
    <3>2. prod.head = head /\ prod.n \in 1..Len(prod.items) /\ Size + prod.n <= Capacity
      BY <3>1 DEF RingInv, ProdInv, Idle
    <3>3. pushRet = Running
      BY <3>1 DEF RingInv, ProdInv, Idle
    <3> QED BY <1>0, <3>1, <3>2, <3>3
  <2>2. w = Lap(Slot(head), prod.i) /\ w \in Slots
    BY <1>0, <2>1, ChunkLap
  <2> HIDE DEF w
  <2>3. prod.items[prod.i + 1] \in Values
    BY <2>1
  <2>4. data' = [data EXCEPT ![w] = prod.items[prod.i + 1]]
    BY <1>3 DEF PushCopy, w
  <2>5. prod' = [prod EXCEPT !.i = prod.i + 1]
    BY <1>3 DEF PushCopy
  <2>6. TypeOK'
    <3>1. prod.i + 1 \in Nat
      BY <2>1
    <3>2. data' \in [Slots -> Values \cup {Zero}]
      BY <2>2, <2>3, <2>4 DEF RingInv, TypeOK
    <3> QED BY <1>3, <2>5, <3>1, <3>2 DEF PushCopy, RingInv, TypeOK
  <2>7. ProdInv'
    <3>1. /\ prod'.pc = "copy" /\ prod'.head = head /\ prod'.n = prod.n
          /\ prod'.i = prod.i + 1 /\ prod'.items = prod.items
      BY <2>1, <2>5 DEF RingInv, TypeOK
    <3>2. ASSUME NEW k \in 0..prod.i
          PROVE  data'[ChunkSlot(Slot(head), prod.n, k)] = prod.items[k + 1]
      <4>1. ChunkSlot(Slot(head), prod.n, k) = Lap(Slot(head), k)
            /\ ChunkSlot(Slot(head), prod.n, k) \in Slots
        BY <1>0, <2>1, ChunkLap
      <4>2. CASE k = prod.i
        BY <2>1, <2>2, <2>4, <4>1, <4>2 DEF RingInv, TypeOK
      <4>3. CASE k < prod.i
        <5>1. Lap(Slot(head), k) # w
          BY <1>0, <2>1, <2>2, <4>3, prod.i \in 0..(Capacity - 1), k \in 0..(prod.i - 1), DistinctLap
        <5>2. data[ChunkSlot(Slot(head), prod.n, k)] = prod.items[k + 1]
          BY <2>1, <4>3 DEF RingInv, ProdInv
        <5> QED BY <2>4, <4>1, <5>1, <5>2 DEF RingInv, TypeOK
      <4> QED BY <2>1, <4>2, <4>3
    <3>3. head' = head /\ Size' = Size /\ pushRet' = pushRet
      BY <1>3 DEF PushCopy, Size
    <3> QED BY <2>1, <3>1, <3>2, <3>3 DEF ProdInv, Idle
  <2>8. ConsInv'
    <3> SUFFICES ASSUME cons.pc = "copy", NEW k \in 1..Len(cons.out)
                 PROVE  data'[ChunkSlot(Slot(cons.tail), cons.n, k - 1)]
                         = data[ChunkSlot(Slot(cons.tail), cons.n, k - 1)]
      BY <1>3 DEF PushCopy, RingInv, ConsInv, Size
    <3>1. /\ cons.tail = tail /\ cons.n \in 1..Size /\ k - 1 \in 0..(cons.n - 1)
          /\ k - 1 \in 0..(Size - 1) /\ cons.n \in 0..Capacity
      BY <1>0 DEF RingInv, TypeOK, ConsInv, Idle
    <3>2. ChunkSlot(Slot(tail), cons.n, k - 1) = Lap(Slot(tail), k - 1)
      BY <1>0, <3>1, ChunkLap
    <3>3. prod.i \in 0..(Capacity - Size - 1)
      BY <1>0, <2>1
    <3>4. Lap(Slot(tail), k - 1) # w
      BY <1>0, <2>2, <3>1, <3>3, Disjoint
    <3> QED BY <2>4, <3>1, <3>2, <3>4 DEF RingInv, TypeOK
  <2> QED BY <1>3, <2>6, <2>7, <2>8 DEF PushCopy, RingInv, Size
<1>4. ASSUME PushPublish PROVE RingInv'
  <2>1. prod.head = head /\ prod.n \in 0..(Capacity - Size)
    BY <1>0, <1>4 DEF PushPublish, RingInv, TypeOK, ProdInv, Idle
  <2>2. head' \in Counters /\ tail' = tail
    BY <1>0, <1>4, <2>1, AddCases DEF PushPublish
  <2>3. Size' = Size + prod.n
    BY <1>0, <1>4, <2>1, SizeMoves DEF PushPublish, Size
  <2>4. ConsInv'
    BY <1>0, <1>4, <2>1, <2>3 DEF PushPublish, RingInv, ConsInv
  <2>5. ProdInv' /\ TypeOK'
    BY <1>4, <2>2, NoPushInv DEF PushPublish, RingInv, TypeOK
  <2>6. Size' <= Capacity
    BY <1>0, <2>1, <2>3
  <2> QED BY <2>4, <2>5, <2>6 DEF RingInv
<1>5. ASSUME NEW max \in 1..MaxBatch, NEW bulk \in BOOLEAN, PopLoadTail(max, bulk)
      PROVE  RingInv'
  <2>1. TypeOK'
    BY <1>5 DEF PopLoadTail, RingInv, TypeOK, Idle
  <2>2. ConsInv'
    BY <1>5 DEF PopLoadTail, ConsInv, Idle
  <2> QED BY <1>5, <2>1, <2>2 DEF PopLoadTail, RingInv, ProdInv, Size
<1>6. ASSUME PopLoadHead PROVE RingInv'
  <2> DEFINE n == Take(cons.max, cons.bulk, head, cons.tail)
  <2>1. cons.tail = tail /\ cons.max \in Nat /\ cons.max >= 1 /\ cons.out = <<>> /\ popRet = Running
    BY <1>6 DEF PopLoadHead, RingInv, TypeOK, ConsInv, Idle
  <2>2. n \in 0..Size
    BY <1>0, <2>1, TakeFits DEF Size
  <2> HIDE DEF n
  <2>3. cons' = IF n = 0 THEN NoPop ELSE [cons EXCEPT !.pc = "copy", !.n = n]
    BY <1>6 DEF PopLoadHead, n
  <2>4. CASE n = 0
    BY <1>6, <2>3, <2>4, NoPopInv DEF PopLoadHead, RingInv, ProdInv, TypeOK, Size
  <2>5. CASE n # 0
    <3>1. cons' = [cons EXCEPT !.pc = "copy", !.n = n]
      BY <2>3, <2>5
    <3>2. n \in Nat
      BY <1>0, <2>2
    <3>3. TypeOK'
      BY <1>6, <3>1, <3>2 DEF PopLoadHead, RingInv, TypeOK
    <3>4. /\ cons'.pc = "copy" /\ cons'.n = n /\ cons'.out = <<>>
          /\ cons'.tail = tail /\ cons'.max = cons.max
      BY <2>1, <3>1 DEF RingInv, TypeOK
    <3>5. ConsInv'
      <4>1. popRet' = Running
        BY <1>6, <2>1, <2>5 DEF PopLoadHead, n
      <4> QED BY <1>0, <1>6, <2>1, <2>2, <2>5, <3>4, <4>1 DEF PopLoadHead, ConsInv, Idle, Size
    <3> QED BY <1>6, <3>3, <3>5 DEF PopLoadHead, RingInv, ProdInv, Size
  <2> QED BY <2>4, <2>5
<1>7. ASSUME PopCopy PROVE RingInv'
  <2> DEFINE j == Len(cons.out)
             v == data[ChunkSlot(Slot(cons.tail), cons.n, j)]
  <2>1. /\ cons.pc = "copy" /\ cons.tail = tail /\ cons.n \in 1..Size
        /\ j \in 0..(cons.n - 1) /\ cons.n \in 0..Capacity
        /\ cons.out \in Seq(Values \cup {Zero})
    BY <1>0, <1>7 DEF PopCopy, RingInv, TypeOK, ConsInv, Idle
  <2>2. ChunkSlot(Slot(cons.tail), cons.n, j) \in Slots
    BY <1>0, <2>1, ChunkLap
  <2>3. v \in Values \cup {Zero}
    BY <2>2 DEF RingInv, TypeOK
  <2>4. cons' = [cons EXCEPT !.out = Append(cons.out, v)]
    BY <1>7 DEF PopCopy
  <2>5. /\ cons'.pc = "copy" /\ cons'.tail = tail /\ cons'.n = cons.n /\ cons'.max = cons.max
        /\ cons'.out = Append(cons.out, v)
    BY <2>1, <2>4 DEF RingInv, TypeOK
  <2>6. Append(cons.out, v) \in Seq(Values \cup {Zero})
    BY <2>1, <2>3
  <2>7. TypeOK'
    BY <1>7, <2>4, <2>6 DEF PopCopy, RingInv, TypeOK
  <2>8. /\ Len(cons'.out) = j + 1
        /\ cons'.out[j + 1] = v
        /\ \A k \in 1..j : cons'.out[k] = cons.out[k]
    BY <2>1, <2>3, <2>5
  <2>9. ConsInv'
    <3>1. ASSUME NEW k \in 1..(j + 1)
          PROVE  cons'.out[k] = data[ChunkSlot(Slot(tail), cons.n, k - 1)]
      <4>1. CASE k = j + 1
        BY <2>1, <2>8, <4>1
      <4>2. CASE k # j + 1
        BY <2>1, <2>8, <4>2 DEF RingInv, ConsInv
      <4> QED BY <4>1, <4>2
    <3>2. data' = data /\ tail' = tail /\ Size' = Size /\ popRet' = popRet
      BY <1>7 DEF PopCopy, Size
    <3>3. cons.max >= 1 /\ popRet = Running
      BY <2>1 DEF RingInv, ConsInv, Idle
    <3>4. /\ cons'.pc = "copy" /\ cons'.tail = tail' /\ cons'.max >= 1 /\ popRet' = Running
          /\ cons'.n \in 1..Size' /\ Len(cons'.out) <= cons'.n
      BY <2>1, <2>5, <2>8, <3>2, <3>3
    <3>5. \A k \in 1..Len(cons'.out) :
              cons'.out[k] = data'[ChunkSlot(Slot(cons'.tail), cons'.n, k - 1)]
      BY <2>5, <2>8, <3>1, <3>2
    <3> QED BY <3>4, <3>5, Zenon DEF ConsInv, Idle
  <2> QED BY <1>7, <2>7, <2>9 DEF PopCopy, RingInv, ProdInv, Size
<1>8. ASSUME PopPublish PROVE RingInv'
  <2>1. cons.tail = tail /\ cons.n \in 0..Size /\ cons.n \in 0..Capacity
    BY <1>0, <1>8 DEF PopPublish, RingInv, TypeOK, ConsInv, Idle
  <2>2. tail' \in Counters /\ head' = head
    BY <1>0, <1>8, <2>1, AddCases DEF PopPublish
  <2>3. Size' = Size - cons.n
    BY <1>0, <1>8, <2>1, SizeMoves DEF PopPublish, Size
  <2>4. ProdInv'
    BY <1>0, <1>8, <2>1, <2>3 DEF PopPublish, RingInv, TypeOK, ProdInv
  <2>5. ConsInv' /\ TypeOK'
    BY <1>8, <2>2, NoPopInv DEF PopPublish, RingInv, TypeOK
  <2>6. Size' <= Capacity
    BY <1>0, <2>1, <2>3
  <2> QED BY <2>4, <2>5, <2>6 DEF RingInv
<1>9. ASSUME Monitor \/ UNCHANGED vars PROVE RingInv'
  <2>1. UNCHANGED <<head, tail, data, prod, cons, pushRet, popRet>>
    BY <1>9 DEF Monitor, SizeLoadHead, SizeLoadTail, vars
  <2>2. Size' = Size /\ TypeOK'
    BY <2>1 DEF Size, RingInv, TypeOK
  <2>3. ProdInv'
    BY <2>1, <2>2 DEF RingInv, ProdInv
  <2>4. ConsInv'
    BY <2>1, <2>2 DEF RingInv, ConsInv
  <2> QED BY <2>2, <2>3, <2>4 DEF RingInv
<1> QED
    BY <1>1, <1>2, <1>3, <1>4, <1>5, <1>6, <1>7, <1>8, <1>9 DEF Next, Producer, Consumer

-----------------------------------------------------------------------------
(***************************************************************************)
(* The inductive invariant holds of every state the two threads and the    *)
(* size() reader can reach (shm_ring_buffer.h, all operations).            *)
(***************************************************************************)
THEOREM RingInvariant == Spec => []RingInv
    BY InitInv, NextInv, PTL DEF Spec

(***************************************************************************)
(* No element is ever read while it is being written, whatever the         *)
(* capacity, the counter width and the batches (try_push, try_pop,         *)
(* bulk_push, bulk_pop of shm_ring_buffer.h).                              *)
(***************************************************************************)
THEOREM NeverTorn == Spec => []NoTornRead
<1>1. RingInv => NoTornRead
  <2> SUFFICES ASSUME RingInv PROVE NoTornRead
    OBVIOUS
  <2>0. /\ Size \in 0..Capacity /\ Slot(head) \in Slots /\ Slot(tail) \in Slots
        /\ Slot(head) = Lap(Slot(tail), Size)
    BY InvFacts
  <2>1. ASSUME NEW w \in WriteWindow
        PROVE  w \in Slots /\ \E j \in 0..(Capacity - Size - 1) : w = Lap(Lap(Slot(tail), Size), j)
    <3>1. /\ prod.pc = "copy" /\ prod.head = head /\ prod.n \in 0..(Capacity - Size)
          /\ prod.n \in 0..Capacity
      BY <2>0, <2>1, RingAssumption DEF WriteWindow, RingInv, TypeOK, ProdInv, Idle
    <3>2. PICK k \in 0..(prod.n - 1) : w = ChunkSlot(Slot(head), prod.n, k)
      BY <3>1 DEF WriteWindow
    <3>3. w = Lap(Slot(head), k) /\ w \in Slots
      BY <2>0, <3>1, <3>2, ChunkLap
    <3>4. k \in 0..(Capacity - Size - 1)
      BY <2>0, <3>1, RingAssumption
    <3> QED BY <2>0, <3>3, <3>4
  <2>2. ASSUME NEW r \in ReadWindow
        PROVE  r \in Slots /\ \E k \in 0..(Size - 1) : r = Lap(Slot(tail), k)
    <3>1. /\ cons.pc = "copy" /\ cons.tail = tail /\ cons.n \in 1..Size /\ cons.n \in 0..Capacity
      BY <2>0, <2>2, RingAssumption DEF ReadWindow, RingInv, TypeOK, ConsInv, Idle
    <3>2. PICK k \in 0..(cons.n - 1) : r = ChunkSlot(Slot(tail), cons.n, k)
      BY <3>1 DEF ReadWindow
    <3>3. r = Lap(Slot(tail), k) /\ r \in Slots
      BY <2>0, <3>1, <3>2, ChunkLap
    <3> QED BY <2>0, <3>1, <3>3
  <2>3. WriteWindow \cap ReadWindow = {}
    BY <2>0, <2>1, <2>2, Disjoint
  <2> QED BY <2>1, <2>2, <2>3 DEF NoTornRead
<1> QED BY <1>1, RingInvariant, PTL

-----------------------------------------------------------------------------
(***************************************************************************)
(* The refinement of the FIFO queue.                                       *)
(***************************************************************************)
Elements == Values \cup {Zero}

\* The elements between two counters.
Between(h, t, d) == [k \in 1..Sub(h, t) |-> d[Slot(Add(t, k - 1))]]

\* The abstract queue, read off the slots.
LEMMA BetweenFacts ==
    ASSUME NEW h \in Counters, NEW t \in Counters, Sub(h, t) <= Capacity,
           NEW d \in [Slots -> Elements]
    PROVE  /\ Between(h, t, d) \in Seq(Elements)
           /\ Len(Between(h, t, d)) = Sub(h, t)
           /\ \A k \in 1..Sub(h, t) : Between(h, t, d)[k] = d[Lap(Slot(t), k - 1)]
<1> USE RingAssumption
<1>0. Sub(h, t) \in 0..Capacity /\ Slot(t) \in Slots
    BY SizeMoves, HeadSlot
<1>1. ASSUME NEW k \in 1..Sub(h, t)
      PROVE  /\ Slot(Add(t, k - 1)) = Lap(Slot(t), k - 1)
             /\ d[Lap(Slot(t), k - 1)] \in Elements
  <2>1. k - 1 \in 0..Capacity /\ k - 1 \in 0..(Capacity - 1)
    BY <1>0
  <2>2. Slot(Add(t, k - 1)) = Lap(Slot(t), k - 1)
    BY <1>0, <2>1, SlotAdd
  <2>3. Lap(Slot(t), k - 1) \in Slots
    BY <1>0, <2>1 DEF Lap, Slots
  <2> QED BY <2>2, <2>3
<1>2. Sub(h, t) \in Nat
    BY <1>0
<1>3. Between(h, t, d) \in [1..Sub(h, t) -> Elements]
    BY <1>1 DEF Between
<1>4. Between(h, t, d) \in Seq(Elements)
    BY <1>2, <1>3, SeqDef
<1>5. Len(Between(h, t, d)) = Sub(h, t)
    BY <1>2, <1>3, <1>4, LenProperties
<1>6. \A k \in 1..Sub(h, t) : Between(h, t, d)[k] = d[Lap(Slot(t), k - 1)]
    BY <1>1 DEF Between
<1> QED BY <1>4, <1>5, <1>6

\* Publishing n elements that lie behind head appends them.
LEMMA PublishAppends ==
    ASSUME NEW h \in Counters, NEW t \in Counters, Sub(h, t) <= Capacity,
           NEW d \in [Slots -> Elements], NEW s \in Seq(Elements),
           Len(s) \in 0..(Capacity - Sub(h, t)),
           \A k \in 0..(Len(s) - 1) : d[Lap(Slot(h), k)] = s[k + 1]
    PROVE  Between(Add(h, Len(s)), t, d) = Between(h, t, d) \o s
<1> USE RingAssumption
<1> DEFINE size == Sub(h, t)
           old == Between(h, t, d)
           new == Between(Add(h, Len(s)), t, d)
<1>0. size \in 0..Capacity /\ Slot(t) \in Slots /\ Slot(h) = Lap(Slot(t), size)
    BY SizeMoves, HeadSlot
<1>1. Len(s) \in 0..Capacity
    BY <1>0
<1>2. Add(h, Len(s)) \in Counters /\ Sub(Add(h, Len(s)), t) = size + Len(s)
    BY <1>1, AddCases, SizeMoves
<1>3. /\ old \in Seq(Elements) /\ Len(old) = size
      /\ \A k \in 1..size : old[k] = d[Lap(Slot(t), k - 1)]
    BY BetweenFacts
<1>4. size + Len(s) <= Capacity
    BY <1>0
<1>5. /\ new \in Seq(Elements) /\ Len(new) = size + Len(s)
      /\ \A k \in 1..(size + Len(s)) : new[k] = d[Lap(Slot(t), k - 1)]
    BY <1>2, <1>4, BetweenFacts
<1> HIDE DEF size, old, new
<1>6. /\ old \o s \in Seq(Elements) /\ Len(old \o s) = size + Len(s)
      /\ \A k \in 1..(size + Len(s)) :
            (old \o s)[k] = IF k <= size THEN old[k] ELSE s[k - size]
  <2>1. old \in Seq(Elements) /\ s \in Seq(Elements)
    BY <1>3
  <2>2. old \o s \in Seq(Elements)
    BY <2>1, ConcatProperties
  <2>3. Len(old \o s) = Len(old) + Len(s)
    BY <2>1, ConcatProperties
  <2>4. \A k \in 1..(Len(old) + Len(s)) :
            (old \o s)[k] = IF k <= Len(old) THEN old[k] ELSE s[k - Len(old)]
    BY <2>1, ConcatProperties
  <2> QED BY <1>3, <2>2, <2>3, <2>4, Zenon
<1>7. ASSUME NEW k \in 1..(size + Len(s)) PROVE new[k] = (old \o s)[k]
  <2>1. CASE k <= size
    <3>1. k \in 1..size
      BY <1>0, <1>1, <2>1
    <3>2. (old \o s)[k] = old[k]
      BY <1>6, <2>1, Zenon
    <3> QED BY <1>3, <1>5, <3>1, <3>2, Zenon
  <2>2. CASE ~(k <= size)
    <3>1. k - size - 1 \in 0..(Len(s) - 1)
      BY <1>0, <1>1, <2>2
    <3>2. d[Lap(Slot(h), k - size - 1)] = s[k - size]
      BY <1>0, <1>1, <3>1
    <3>3. Lap(Slot(h), k - size - 1) = Lap(Slot(t), k - 1)
      BY <1>0, <1>1, <1>4, <2>2, <3>1 DEF Lap, Slots
    <3> QED BY <1>0, <1>5, <1>6, <2>2, <3>2, <3>3
  <2> QED BY <2>1, <2>2
<1>8. new = old \o s
    BY <1>5, <1>6, <1>7, SeqEqual
<1> QED BY <1>8 DEF old, new

\* Publishing a new tail removes the elements in front of it.
LEMMA PublishRemoves ==
    ASSUME NEW h \in Counters, NEW t \in Counters, Sub(h, t) <= Capacity,
           NEW d \in [Slots -> Elements], NEW n \in 0..Sub(h, t)
    PROVE  Between(h, Add(t, n), d) = SubSeq(Between(h, t, d), n + 1, Sub(h, t))
<1> USE RingAssumption
<1> DEFINE size == Sub(h, t)
           old == Between(h, t, d)
           new == Between(h, Add(t, n), d)
           rest == SubSeq(old, n + 1, size)
<1>0. size \in 0..Capacity /\ Slot(t) \in Slots /\ n \in 0..Capacity /\ n \in 0..size
    BY SizeMoves, HeadSlot
<1>1. /\ Add(t, n) \in Counters /\ Sub(h, Add(t, n)) = size - n
      /\ Slot(Add(t, n)) = Lap(Slot(t), n)
    BY <1>0, AddCases, SizeMoves, SlotAdd
<1>2. /\ old \in Seq(Elements) /\ Len(old) = size
      /\ \A k \in 1..size : old[k] = d[Lap(Slot(t), k - 1)]
    BY BetweenFacts
<1>3. size - n <= Capacity
    BY <1>0
<1>4. /\ new \in Seq(Elements) /\ Len(new) = size - n
      /\ \A k \in 1..(size - n) : new[k] = d[Lap(Lap(Slot(t), n), k - 1)]
    BY <1>1, <1>3, BetweenFacts
<1>5. \A k \in (n + 1)..size : old[k] \in Elements
    BY <1>0, <1>2, ElementOfSeq
<1> HIDE DEF size, old, new
<1>6. n + 1 \in Int /\ size \in Int /\ (size - (n + 1)) + 1 = size - n
    BY <1>0
<1>7. /\ rest \in Seq(Elements)
      /\ Len(rest) = IF n + 1 <= size THEN size - (n + 1) + 1 ELSE 0
      /\ \A k \in 1..(size - (n + 1) + 1) : rest[k] = old[n + 1 + k - 1]
    BY <1>5, <1>6, SubSeqProperties
<1> HIDE DEF rest
<1>8. Len(rest) = size - n
    BY <1>0, <1>6, <1>7
<1>9. ASSUME NEW k \in 1..(size - n) PROVE new[k] = rest[k]
  <2>1. rest[k] = old[n + k]
    <3>1. k \in 1..(size - (n + 1) + 1) /\ n + 1 + k - 1 = n + k
      BY <1>0, <1>6
    <3> QED BY <1>7, <3>1, Zenon
  <2>2. old[n + k] = d[Lap(Slot(t), n + k - 1)]
    BY <1>0, <1>2
  <2>3. Lap(Lap(Slot(t), n), k - 1) = Lap(Slot(t), n + k - 1)
    BY <1>0 DEF Lap, Slots
  <2> QED BY <1>4, <2>1, <2>2, <2>3
<1>10. new = rest
    BY <1>4, <1>7, <1>8, <1>9, SeqEqual
<1> QED BY <1>10 DEF old, new, rest, size

LEMMA ContentsBetween == Contents = Between(head, tail, data)
    BY DEF Contents, Between, Size

LEMMA InitRefines == Init => Queue!Init
<1> SUFFICES ASSUME Init PROVE Queue!Init
    OBVIOUS
<1>1. RingInv
    BY InitInv
<1>2. Size = 0
    BY <1>1, SizeMoves DEF Init, Size, RingInv, TypeOK
<1>3. Len(Contents) = 0 /\ Contents \in Seq(Elements)
    BY <1>1, <1>2, BetweenFacts, ContentsBetween DEF RingInv, TypeOK, Size, Elements
<1>4. Contents = <<>>
    BY <1>3, EmptySeq
<1> QED BY <1>4 DEF Init, Queue!Init

\* Every step of the threads is one step of the queue, or none.
LEMMA NextRefines == RingInv /\ RingInv' /\ [Next]_vars => [Queue!Next]_(Queue!vars)
<1> SUFFICES ASSUME RingInv, RingInv', [Next]_vars PROVE [Queue!Next]_(Queue!vars)
    OBVIOUS
<1> USE RingAssumption
<1>0. /\ head \in Counters /\ tail \in Counters /\ Size \in 0..Capacity
      /\ Slot(head) \in Slots /\ Slot(tail) \in Slots
      /\ Slot(head) = Lap(Slot(tail), Size)
      /\ data \in [Slots -> Elements]
    BY InvFacts DEF RingInv, TypeOK, Elements
<1>10. /\ Contents \in Seq(Elements) /\ Len(Contents) = Size
      /\ \A k \in 1..Size : Contents[k] = data[Lap(Slot(tail), k - 1)]
    BY <1>0, BetweenFacts, ContentsBetween DEF Size
<1>11. Contents' = Between(head', tail', data')
    BY DEF Contents, Between, Size
<1>12. ASSUME UNCHANGED <<head, tail, data>> PROVE Contents' = Contents
    BY <1>12 DEF Contents, Size
<1>1. ASSUME NEW items \in Batches, NEW bulk \in BOOLEAN, PushLoadHead(items, bulk)
      PROVE  Queue!CallPush
    BY <1>1, <1>12 DEF PushLoadHead, Queue!CallPush
<1>2. ASSUME PushLoadTail PROVE [Queue!Next]_(Queue!vars)
  <2> DEFINE n == Room(prod.items, prod.bulk, Sub(prod.head, tail))
  <2>1. /\ prod.head = head /\ Len(prod.items) >= 1 /\ Len(prod.items) \in Nat
        /\ pushRet = Running
    BY <1>2 DEF PushLoadTail, RingInv, TypeOK, ProdInv, Idle
  <2>2. n = 0 => Size = Capacity
    BY <1>0, <2>1, RoomFits DEF Size
  <2>3. pushRet' = IF n = 0 THEN 0 ELSE pushRet
    BY <1>2 DEF PushLoadTail
  <2> HIDE DEF n
  <2>4. Contents' = Contents /\ popRet' = popRet
    BY <1>2, <1>12 DEF PushLoadTail
  <2>5. CASE n = 0
    BY <1>10, <2>1, <2>2, <2>3, <2>4, <2>5 DEF Queue!Next, Queue!RefusePush
  <2>6. CASE n # 0
    BY <2>3, <2>4, <2>6 DEF Queue!vars
  <2> QED BY <2>5, <2>6
<1>3. ASSUME PushCopy PROVE UNCHANGED Queue!vars
  <2>1. /\ prod.pc = "copy" /\ prod.head = head /\ prod.n \in 1..Len(prod.items)
        /\ Size + prod.n <= Capacity /\ prod.i \in 0..(prod.n - 1)
        /\ prod.items \in Seq(Values) /\ prod.n \in 0..Capacity
    <3>1. prod.pc = "copy" /\ prod.i < prod.n /\ prod.items \in Seq(Values) /\ prod.i \in Nat
      BY <1>3 DEF PushCopy, RingInv, TypeOK
    <3>2. prod.head = head /\ prod.n \in 1..Len(prod.items) /\ Size + prod.n <= Capacity
      BY <3>1 DEF RingInv, ProdInv, Idle
    <3>3. pushRet = Running
      BY <3>1 DEF RingInv, ProdInv, Idle
    <3> QED BY <1>0, <3>1, <3>2, <3>3
  <2> DEFINE w == ChunkSlot(Slot(prod.head), prod.n, prod.i)
  <2>2. w = Lap(Slot(head), prod.i) /\ w \in Slots
    BY <1>0, <2>1, ChunkLap
  <2>3. prod.i \in 0..(Capacity - Size - 1)
    BY <1>0, <2>1
  <2> HIDE DEF w
  <2>4. data' = [data EXCEPT ![w] = prod.items[prod.i + 1]] /\ UNCHANGED <<head, tail, pushRet, popRet>>
    BY <1>3 DEF PushCopy, w
  <2>5. ASSUME NEW k \in 1..Size
        PROVE  data'[Slot(Add(tail, k - 1))] = data[Slot(Add(tail, k - 1))]
    <3>1. k - 1 \in 0..(Size - 1) /\ k - 1 \in 0..Capacity
      BY <1>0
    <3>2. Slot(Add(tail, k - 1)) = Lap(Slot(tail), k - 1)
      BY <1>0, <3>1, SlotAdd
    <3>3. Lap(Slot(tail), k - 1) # w
      BY <1>0, <2>2, <2>3, <3>1, Disjoint
    <3> QED BY <1>0, <2>4, <3>2, <3>3
  <2>6. Contents' = Contents
    BY <2>4, <2>5 DEF Contents, Size
  <2> QED BY <2>4, <2>6 DEF Queue!vars
<1>4. ASSUME PushPublish PROVE Queue!Next
  <2> DEFINE s == SubSeq(prod.items, 1, prod.n)
  <2>1. /\ prod.head = head /\ prod.n \in 1..(Capacity - Size) /\ prod.n \in 1..Len(prod.items)
        /\ prod.items \in Seq(Values) /\ pushRet = Running /\ prod.n \in 0..Capacity
        /\ \A k \in 0..(prod.n - 1) :
              data[ChunkSlot(Slot(head), prod.n, k)] = prod.items[k + 1]
    BY <1>0, <1>4 DEF PushPublish, RingInv, TypeOK, ProdInv, Idle
  <2>2. \A k \in 1..prod.n : prod.items[k] \in Values
    BY <2>1, ElementOfSeq
  <2>3. /\ s \in Seq(Values) /\ Len(s) = prod.n
        /\ \A k \in 1..prod.n : s[k] = prod.items[k]
    BY <2>1, <2>2, SubSeqProperties
  <2> HIDE DEF s
  <2>4. s \in Queue!Batches
    BY <2>1, <2>3, LenProperties DEF Queue!Batches
  <2>5. \A k \in 0..(Len(s) - 1) : data[Lap(Slot(head), k)] = s[k + 1]
    BY <1>0, <2>1, <2>3, ChunkLap
  <2>6. s \in Seq(Elements)
    BY <2>3, SeqMonotonic DEF Elements
  <2>7. Len(s) \in 0..(Capacity - Sub(head, tail)) /\ Sub(head, tail) <= Capacity
    BY <1>0, <2>1, <2>3 DEF Size
  <2>8. Between(Add(head, Len(s)), tail, data) = Between(head, tail, data) \o s
    BY <1>0, <2>5, <2>6, <2>7, PublishAppends
  <2>9. head' = Add(head, Len(s)) /\ tail' = tail /\ data' = data /\ pushRet' = Len(s) /\ popRet' = popRet
    BY <1>4, <2>1, <2>3 DEF PushPublish
  <2>10. Contents' = Contents \o s
    BY <1>11, <2>8, <2>9, ContentsBetween
  <2>11. Len(Contents) + Len(s) <= Capacity
    BY <1>0, <1>10, <2>1, <2>3
  <2>12. Queue!Push(s)
    BY <2>1, <2>9, <2>10, <2>11 DEF Queue!Push
  <2> QED BY <2>4, <2>12 DEF Queue!Next
<1>5. ASSUME NEW max \in 1..MaxBatch, NEW bulk \in BOOLEAN, PopLoadTail(max, bulk)
      PROVE  Queue!CallPop
    BY <1>5, <1>12 DEF PopLoadTail, Queue!CallPop
<1>6. ASSUME PopLoadHead PROVE [Queue!Next]_(Queue!vars)
  <2> DEFINE n == Take(cons.max, cons.bulk, head, cons.tail)
  <2>1. cons.tail = tail /\ cons.max \in Nat /\ cons.max >= 1 /\ popRet = Running
    BY <1>6 DEF PopLoadHead, RingInv, TypeOK, ConsInv, Idle
  <2>2. n = 0 => Size = 0
    BY <1>0, <2>1, TakeFits DEF Size
  <2>3. popRet' = IF n = 0 THEN <<>> ELSE popRet
    BY <1>6 DEF PopLoadHead
  <2> HIDE DEF n
  <2>4. Contents' = Contents /\ pushRet' = pushRet
    BY <1>6, <1>12 DEF PopLoadHead
  <2>5. CASE n = 0
    <3>1. Contents = <<>>
      BY <1>10, <2>2, <2>5, EmptySeq
    <3> QED BY <2>1, <2>3, <2>4, <2>5, <3>1 DEF Queue!Next, Queue!EmptyPop
  <2>6. CASE n # 0
    BY <2>3, <2>4, <2>6 DEF Queue!vars
  <2> QED BY <2>5, <2>6
<1>7. ASSUME PopCopy PROVE UNCHANGED Queue!vars
    BY <1>7, <1>12 DEF PopCopy, Queue!vars
<1>8. ASSUME PopPublish PROVE Queue!Next
  <2> DEFINE n == cons.n
  <2>1. /\ cons.tail = tail /\ n \in 1..Size /\ n \in 0..Size /\ n \in 0..Capacity /\ n \in 1..Capacity
        /\ cons.out \in Seq(Elements) /\ Len(cons.out) = n /\ popRet = Running
        /\ \A k \in 1..n : cons.out[k] = data[ChunkSlot(Slot(tail), n, k - 1)]
    BY <1>0, <1>8 DEF PopPublish, RingInv, TypeOK, ConsInv, Idle, Elements
  <2>2. /\ tail' = Add(tail, n) /\ head' = head /\ data' = data /\ pushRet' = pushRet
        /\ popRet' = cons.out
    BY <1>8, <2>1 DEF PopPublish
  <2> HIDE DEF n
  <2>3. n \in 0..Sub(head, tail) /\ Sub(head, tail) <= Capacity
    BY <1>0, <2>1 DEF Size
  <2>4. Between(head, Add(tail, n), data) = SubSeq(Between(head, tail, data), n + 1, Sub(head, tail))
    BY <1>0, <2>3, PublishRemoves
  <2>5. Contents' = SubSeq(Contents, n + 1, Len(Contents))
    BY <1>10, <1>11, <2>2, <2>4, ContentsBetween DEF Size
  <2>6. \A k \in 1..n : Contents[k] \in Elements
    BY <1>0, <1>10, <2>1, ElementOfSeq
  <2>7. /\ SubSeq(Contents, 1, n) \in Seq(Elements) /\ Len(SubSeq(Contents, 1, n)) = n
        /\ \A k \in 1..n : SubSeq(Contents, 1, n)[k] = Contents[k]
    BY <2>1, <2>6, SubSeqProperties
  <2>8. ASSUME NEW k \in 1..n PROVE cons.out[k] = SubSeq(Contents, 1, n)[k]
    <3>1. k \in 1..Size /\ k - 1 \in 0..(n - 1)
      BY <1>0, <2>1
    <3>2. ChunkSlot(Slot(tail), n, k - 1) = Lap(Slot(tail), k - 1)
      BY <1>0, <2>1, <3>1, ChunkLap
    <3>4. cons.out[k] = data[ChunkSlot(Slot(tail), n, k - 1)]
      BY <2>1
    <3>5. Contents[k] = data[Lap(Slot(tail), k - 1)]
      BY <1>10, <3>1
    <3>3. cons.out[k] = Contents[k]
      BY <3>2, <3>4, <3>5
    <3> QED BY <2>7, <3>3, Zenon
  <2>9. cons.out = SubSeq(Contents, 1, n)
    BY <2>1, <2>7, <2>8, SeqEqual, Zenon
  <2>10. Queue!Pop(n)
    BY <1>0, <1>10, <2>1, <2>2, <2>5, <2>9 DEF Queue!Pop
  <2> QED BY <2>1, <2>10 DEF Queue!Next
<1>9. ASSUME Monitor \/ UNCHANGED vars PROVE UNCHANGED Queue!vars
  <2>1. UNCHANGED <<head, tail, data, pushRet, popRet>>
    BY <1>9 DEF Monitor, SizeLoadHead, SizeLoadTail, vars
  <2> QED BY <2>1, <1>12 DEF Queue!vars
<1> QED
    BY <1>1, <1>2, <1>3, <1>4, <1>5, <1>6, <1>7, <1>8, <1>9
    DEF Next, Producer, Consumer, Queue!Next

(***************************************************************************)
(* The ring implements the bounded FIFO queue: a push becomes visible at   *)
(* the store of head, a pop takes effect at the store of tail, a refusal   *)
(* means full and an empty answer means empty (try_push, try_pop,          *)
(* bulk_push, bulk_pop of shm_ring_buffer.h).                              *)
(***************************************************************************)
THEOREM RingIsFifo == Spec => IsFifoQueue
    BY RingInvariant, InitRefines, NextRefines, PTL DEF Spec, IsFifoQueue, Queue!Spec
=============================================================================
