------------------------------ MODULE ShmQueue ------------------------------
(***************************************************************************)
(* What the shared-memory ring promises to the processes on its two ends:  *)
(* a bounded FIFO queue.  A push returns how many elements it accepted, a  *)
(* pop returns the elements it removed, and both are atomic.               *)
(***************************************************************************)
EXTENDS Naturals, Sequences

CONSTANTS Values,    \* what the elements of the queue can be
          Capacity,  \* how many of them the queue holds
          Running    \* the result of a call that has not returned

VARIABLES queue,     \* accepted and not yet delivered, oldest first
          pushRet,   \* number of elements the last push accepted
          popRet     \* elements the last pop delivered

vars == <<queue, pushRet, popRet>>

Batches == UNION {[1..n -> Values] : n \in 1..Capacity}

Init ==
    /\ queue = <<>>
    /\ pushRet = 0
    /\ popRet = <<>>

CallPush ==
    /\ pushRet' = Running
    /\ UNCHANGED <<queue, popRet>>

\* The elements are accepted in order and become visible together.
Push(s) ==
    /\ pushRet = Running
    /\ Len(queue) + Len(s) <= Capacity
    /\ queue' = queue \o s
    /\ pushRet' = Len(s)
    /\ UNCHANGED popRet

\* A push may be refused only when the queue is full.
RefusePush ==
    /\ pushRet = Running
    /\ Len(queue) = Capacity
    /\ pushRet' = 0
    /\ UNCHANGED <<queue, popRet>>

CallPop ==
    /\ popRet' = Running
    /\ UNCHANGED <<queue, pushRet>>

\* The oldest elements leave, each of them once.
Pop(n) ==
    /\ popRet = Running
    /\ n <= Len(queue)
    /\ popRet' = SubSeq(queue, 1, n)
    /\ queue' = SubSeq(queue, n + 1, Len(queue))
    /\ UNCHANGED pushRet

\* A pop may come back with nothing only when the queue is empty.
EmptyPop ==
    /\ popRet = Running
    /\ queue = <<>>
    /\ popRet' = <<>>
    /\ UNCHANGED <<queue, pushRet>>

Next ==
    \/ CallPush
    \/ \E s \in Batches : Push(s)
    \/ RefusePush
    \/ CallPop
    \/ \E n \in 1..Capacity : Pop(n)
    \/ EmptyPop

Spec == Init /\ [][Next]_vars
=============================================================================
