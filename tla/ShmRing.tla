------------------------------- MODULE ShmRing -------------------------------
(***************************************************************************)
(* The lock-free single-producer single-consumer ring in shared memory     *)
(* that carries signals, fills and kill-switch messages between the Python *)
(* bot and the C++ bot (hft-trade-bot/src/ipc/shm_ring_buffer.h and its    *)
(* Python mirror ai-signal-bot/src/communication/shm_ring_buffer.py).      *)
(*                                                                         *)
(* Two threads share head, tail and data; every load and store of a        *)
(* counter and every copied element is a step of its own.  A third thread, *)
(* the status printer, reads size().  The counters are uint64 in the code; *)
(* here they wrap at CounterMod.                                           *)
(***************************************************************************)
EXTENDS Integers, Sequences

CONSTANTS Values,      \* what the elements can be
          Zero,        \* a slot of a fresh segment (zero-filled pages)
          Running,     \* result of a call that has not returned
          Capacity,    \* capacity_, a power of two in the code
          CounterMod,  \* 2^64 in the code
          MaxBatch     \* longest batch passed to bulk_push and bulk_pop

ASSUME RingAssumption ==
    /\ Capacity \in Nat \ {0}
    /\ MaxBatch \in Nat \ {0}
    /\ CounterMod \in Nat
    /\ CounterMod >= 2 * Capacity
    /\ CounterMod % Capacity = 0

VARIABLES head, tail, data,  \* the shared segment
          prod,              \* the producer thread inside a push
          cons,              \* the consumer thread inside a pop
          pushRet, popRet,   \* what the last calls returned
          mon                \* the status thread inside size()

vars == <<head, tail, data, prod, cons, pushRet, popRet, mon>>

Counters == 0..(CounterMod - 1)
Slots == 0..(Capacity - 1)
Batches == UNION {[1..n -> Values] : n \in 1..MaxBatch}

\* uint64 addition and subtraction.
Add(a, b) == (a + b) % CounterMod
Sub(a, b) == (a - b) % CounterMod
Least(a, b) == IF a < b THEN a ELSE b

\* head & mask_ for a power-of-two capacity.
Slot(c) == c % Capacity

(***************************************************************************)
(* The slot of element k of a run of n that starts at slot start: the run  *)
(* is one contiguous chunk, or two when it passes the end of the array.    *)
(***************************************************************************)
FirstChunk(start, n) == IF start + n <= Capacity THEN n ELSE Capacity - start

\* Mutant: the wrapped chunk is copied to its own index instead of slot 0 on.
ChunkSlotUnwrapped(start, n, k) ==
    IF k < FirstChunk(start, n) THEN start + k ELSE k

ChunkSlot(start, n, k) ==
    IF k < FirstChunk(start, n) THEN start + k ELSE k - FirstChunk(start, n)

\* The threads outside a call.
Idle == "idle"
NoPush == [pc |-> Idle, head |-> 0, items |-> <<>>, bulk |-> FALSE, n |-> 0, i |-> 0]
NoPop == [pc |-> Idle, tail |-> 0, out |-> <<>>, bulk |-> FALSE, n |-> 0, max |-> 0]

Init ==
    /\ head = 0
    /\ tail = 0
    /\ data = [s \in Slots |-> Zero]
    /\ prod = NoPush
    /\ cons = NoPop
    /\ pushRet = 0
    /\ popRet = <<>>
    /\ mon = [pc |-> Idle, head |-> 0, size |-> 0]

-----------------------------------------------------------------------------
(***************************************************************************)
(* The producer: try_push(item) and bulk_push(items, count).               *)
(***************************************************************************)
PushLoadHead(items, bulk) ==
    /\ prod.pc = Idle
    /\ bulk \/ Len(items) = 1
    /\ prod' = [pc |-> "loaded", head |-> head, items |-> items, bulk |-> bulk, n |-> 0, i |-> 0]
    /\ pushRet' = Running
    /\ UNCHANGED <<head, tail, data, cons, popRet, mon>>

\* Mutant: the ring counts as full one element late.
RoomOneTooMany(items, bulk, used) ==
    IF bulk THEN Least(Len(items), Sub(Capacity, used))
    ELSE IF used > Capacity THEN 0 ELSE 1

\* How many of the items fit: try_push takes its one item unless the ring is full.
Room(items, bulk, used) ==
    IF bulk THEN Least(Len(items), Sub(Capacity, used))
    ELSE IF used >= Capacity THEN 0 ELSE 1

\* try_push returns here when full; bulk_push goes on and publishes nothing new.
PushLoadTail ==
    /\ prod.pc = "loaded"
    /\ LET n == Room(prod.items, prod.bulk, Sub(prod.head, tail)) IN
         /\ prod' = IF n = 0 THEN NoPush ELSE [prod EXCEPT !.pc = "copy", !.n = n]
         /\ pushRet' = IF n = 0 THEN 0 ELSE pushRet
    /\ UNCHANGED <<head, tail, data, cons, popRet, mon>>

PushCopy ==
    /\ prod.pc = "copy"
    /\ prod.i < prod.n
    /\ data' = [data EXCEPT ![ChunkSlot(Slot(prod.head), prod.n, prod.i)] = prod.items[prod.i + 1]]
    /\ prod' = [prod EXCEPT !.i = @ + 1]
    /\ UNCHANGED <<head, tail, cons, pushRet, popRet, mon>>

PushPublish ==
    /\ prod.pc = "copy"
    /\ prod.i = prod.n
    /\ head' = Add(prod.head, prod.n)
    /\ pushRet' = prod.n
    /\ prod' = NoPush
    /\ UNCHANGED <<tail, data, cons, popRet, mon>>

Producer ==
    \/ \E items \in Batches, bulk \in BOOLEAN : PushLoadHead(items, bulk)
    \/ PushLoadTail
    \/ PushCopy
    \/ PushPublish

-----------------------------------------------------------------------------
(***************************************************************************)
(* The consumer: try_pop(out) and bulk_pop(out, count).                    *)
(***************************************************************************)
PopLoadTail(max, bulk) ==
    /\ cons.pc = Idle
    /\ bulk \/ max = 1
    /\ cons' = [pc |-> "loaded", tail |-> tail, out |-> <<>>, bulk |-> bulk, n |-> 0, max |-> max]
    /\ popRet' = Running
    /\ UNCHANGED <<head, tail, data, prod, pushRet, mon>>

\* Mutant: the newest element is taken for an unfinished one.
TakeAllButOne(max, bulk, h, t) ==
    IF Sub(h, t) <= 1 THEN 0 ELSE IF bulk THEN Least(max, Sub(h, t) - 1) ELSE 1

\* How many elements the pop takes: try_pop compares for equality only.
Take(max, bulk, h, t) ==
    IF bulk THEN Least(max, Sub(h, t)) ELSE IF h = t THEN 0 ELSE 1

PopLoadHead ==
    /\ cons.pc = "loaded"
    /\ LET n == Take(cons.max, cons.bulk, head, cons.tail) IN
         /\ cons' = IF n = 0 THEN NoPop ELSE [cons EXCEPT !.pc = "copy", !.n = n]
         /\ popRet' = IF n = 0 THEN <<>> ELSE popRet
    /\ UNCHANGED <<head, tail, data, prod, pushRet, mon>>

PopCopy ==
    /\ cons.pc = "copy"
    /\ Len(cons.out) < cons.n
    /\ cons' = [cons EXCEPT !.out = Append(@, data[ChunkSlot(Slot(cons.tail), cons.n, Len(@))])]
    /\ UNCHANGED <<head, tail, data, prod, pushRet, popRet, mon>>

PopPublish ==
    /\ cons.pc = "copy"
    /\ Len(cons.out) = cons.n
    /\ tail' = Add(cons.tail, cons.n)
    /\ popRet' = cons.out
    /\ cons' = NoPop
    /\ UNCHANGED <<head, data, prod, pushRet, mon>>

Consumer ==
    \/ \E max \in 1..MaxBatch, bulk \in BOOLEAN : PopLoadTail(max, bulk)
    \/ PopLoadHead
    \/ PopCopy
    \/ PopPublish

-----------------------------------------------------------------------------
(***************************************************************************)
(* size(), read through pending() by a thread that is neither end of the   *)
(* ring (print_status on the main loop): head first, then tail.            *)
(***************************************************************************)
SizeLoadHead ==
    /\ mon.pc = Idle
    /\ mon' = [mon EXCEPT !.pc = "loaded", !.head = head]
    /\ UNCHANGED <<head, tail, data, prod, cons, pushRet, popRet>>

SizeLoadTail ==
    /\ mon.pc = "loaded"
    /\ mon' = [pc |-> Idle, head |-> 0, size |-> Sub(mon.head, tail)]
    /\ UNCHANGED <<head, tail, data, prod, cons, pushRet, popRet>>

Monitor == SizeLoadHead \/ SizeLoadTail

-----------------------------------------------------------------------------
Next == Producer \/ Consumer \/ Monitor

Spec == Init /\ [][Next]_vars

\* The two threads of the ring without an observer of its size.
RingNext == Producer \/ Consumer
RingSpec == Init /\ [][RingNext]_vars

\* The consumer polls in a loop for as long as the bot runs; a thread inside a
\* push is scheduled again, but nothing makes it start one.
FairSpec ==
    /\ RingSpec
    /\ WF_vars(Consumer)
    /\ WF_vars(PushLoadTail \/ PushCopy \/ PushPublish)

-----------------------------------------------------------------------------
TypeOK ==
    /\ head \in Counters
    /\ tail \in Counters
    /\ data \in [Slots -> Values \cup {Zero}]
    /\ prod \in [pc : {Idle, "loaded", "copy"}, head : Counters, items : Seq(Values),
                 bulk : BOOLEAN, n : Nat, i : Nat]
    /\ cons \in [pc : {Idle, "loaded", "copy"}, tail : Counters, out : Seq(Values \cup {Zero}),
                 bulk : BOOLEAN, n : Nat, max : Nat]

Size == Sub(head, tail)

\* Slots that the producer is writing and slots that the consumer is reading.
WriteWindow ==
    IF prod.pc = "copy" THEN {ChunkSlot(Slot(prod.head), prod.n, k) : k \in 0..(prod.n - 1)} ELSE {}
ReadWindow ==
    IF cons.pc = "copy" THEN {ChunkSlot(Slot(cons.tail), cons.n, k) : k \in 0..(cons.n - 1)} ELSE {}

(***************************************************************************)
(* The two memcpy windows never overlap and stay inside the array, so no   *)
(* element is read while it is written (shm_ring_buffer.h, try_push to     *)
(* bulk_pop).                                                              *)
(***************************************************************************)
NoTornRead ==
    /\ WriteWindow \cap ReadWindow = {}
    /\ WriteWindow \subseteq Slots
    /\ ReadWindow \subseteq Slots

(***************************************************************************)
(* The inductive strengthening.  A thread inside a call still holds the    *)
(* counter it owns; what the producer claimed is free and holds the items  *)
(* copied so far; what the consumer claimed is occupied, and what it has   *)
(* copied out is what lies there.                                          *)
(***************************************************************************)
ProdInv ==
    /\ prod.pc # Idle => prod.head = head /\ Len(prod.items) >= 1 /\ pushRet = Running
    /\ prod.pc = "loaded" => prod.i = 0
    /\ prod.pc = "copy" =>
         /\ prod.n \in 1..Len(prod.items)
         /\ Size + prod.n <= Capacity
         /\ prod.i <= prod.n
         /\ \A k \in 0..(prod.i - 1) :
              data[ChunkSlot(Slot(prod.head), prod.n, k)] = prod.items[k + 1]
ConsInv ==
    /\ cons.pc # Idle => cons.tail = tail /\ cons.max >= 1 /\ popRet = Running
    /\ cons.pc = "loaded" => cons.out = <<>>
    /\ cons.pc = "copy" =>
         /\ cons.n \in 1..Size
         /\ Len(cons.out) <= cons.n
         /\ \A k \in 1..Len(cons.out) :
              cons.out[k] = data[ChunkSlot(Slot(cons.tail), cons.n, k - 1)]
RingInv == TypeOK /\ Size <= Capacity /\ ProdInv /\ ConsInv

(***************************************************************************)
(* The refinement: what lies between tail and head, in slot order, is the  *)
(* abstract queue.                                                         *)
(***************************************************************************)
Contents == [k \in 1..Size |-> data[Slot(Add(tail, k - 1))]]

Queue == INSTANCE ShmQueue WITH queue <- Contents

\* The ring is a FIFO queue: each call of the code is one atomic step of it.
IsFifoQueue == Queue!Spec

(***************************************************************************)
(* An element in the ring does not wait forever: the polling consumer      *)
(* moves tail past it (ShmSignalConsumer::run).                            *)
(***************************************************************************)
ElementsLeave == \A t \in Counters : (tail = t /\ head # t) ~> (tail # t)

(***************************************************************************)
(* "Current number of elements in the buffer": size() never reports more   *)
(* than the ring can hold.                                                 *)
(***************************************************************************)
SizeIsPossible == mon.size <= Capacity
=============================================================================
