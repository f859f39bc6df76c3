--------------------------- MODULE NativeBotProofs --------------------------
(***************************************************************************)
(* What the C++ bot keeps in every state, for any set of symbols and any   *)
(* bounds: its book engages the symbols it should, its kill switch cancels  *)
(* what was sent before it, its connection stays down once it is shut down, and the           *)
(* snapshots it accepts from shared memory are whole.  Each part has an    *)
(* inductive invariant of its own; the last section puts them together     *)
(* for the specification that follows one part at a time.                  *)
(***************************************************************************)
EXTENDS NativeBot, Sequences, FiniteSetTheorems, SequenceTheorems, TLAPS

-----------------------------------------------------------------------------
(* The market data slot. *)

SlotParts == {"slot", "half", "restart"}
Starts(p) == IF p = "restart" THEN MaxStarts ELSE 1
Writes(p) == IF p = "slot" THEN LongWrites ELSE ShortWrites
Segments(p) == 1..Starts(p)
SlotWords == {1, 2}
Slots == [seq : Nat, word : [SlotWords -> Nat]]

\* The types.  The reader keeps the segment of the first start.
SlotTypes(p) ==
  /\ seg \in [Segments(p) -> Slots] /\ mapped = 1
  /\ starts \in 1..Starts(p) /\ file \in 0..starts
  /\ wpc \in {"idle", "data", "off"} /\ base \in Nat /\ todo \in SUBSET SlotWords /\ writes \in Nat
  /\ rpc \in {"idle", "copy"} /\ seq1 \in Nat /\ loaded \in SUBSET (SlotWords \cup {0})
  /\ copy \in Slots /\ accepted \in [SlotWords -> Nat]

\* A writer that is off has removed its file, or is not started again.
WriterLife(p) ==
  /\ wpc # "off" => file # 0
  /\ wpc = "off" => file = 0 \/ Starts(p) = 1

\* A write adds two to the sequence number.
WriterBound(p) ==
  /\ writes <= Writes(p) /\ (wpc = "data" => base + 2 <= 2 * writes)
  /\ \A s \in Segments(p) : seg[s].seq <= 2 * writes

\* The segment that the reader maps: its words agree while its number is even.
WriterSeq ==
  /\ file = 1 /\ wpc = "idle" => seg[1].seq % 2 = 0
  /\ file = 1 /\ wpc = "data" =>
       /\ base % 2 = 0 /\ seg[1].seq = base + 1
       /\ \A w \in SlotWords \ todo : seg[1].word[w] = writes
  /\ seg[1].seq % 2 = 0 => seg[1].word[1] = seg[1].word[2]

\* The copy is what the segment holds as long as the number is the first one.
ReaderCopy ==
  rpc = "copy" =>
    /\ seq1 % 2 = 0 /\ seq1 <= seg[1].seq
    /\ 0 \in loaded => SlotWords \subseteq loaded
    /\ seg[1].seq = seq1 => \A w \in loaded \cap SlotWords : copy.word[w] = seg[1].word[w]
    /\ 0 \in loaded /\ copy.seq = seq1 => copy.word[1] = copy.word[2]

Whole == accepted[1] = accepted[2]

SlotInv(p) == SlotTypes(p) /\ WriterLife(p) /\ WriterSeq /\ ReaderCopy /\ Whole

-----------------------------------------------------------------------------
\* The invariant holds at the start.
LEMMA SlotStarts == ASSUME NEW p \in SlotParts, Slot(p)!Init PROVE SlotInv(p)
  BY SlotAssumption DEF SlotParts, Starts, Slot!Init, SlotInv, SlotTypes, WriterLife, WriterSeq, ReaderCopy, Whole,
         Segments, Slot!Segments, Slot!Empty, Slots, SlotWords, Slot!Words

\* What a step of the writer does to the segment of the reader.
LEMMA BeginKeeps == ASSUME NEW p \in SlotParts, SlotInv(p), Slot(p)!WriteBegin PROVE SlotInv(p)'
<1>1. file \in Segments(p) /\ 1 \in Segments(p)
  BY SlotAssumption DEF SlotParts, Starts, SlotInv, SlotTypes, WriterLife, Slot!WriteBegin, Segments, Slot!Segments
<1>2. seg' \in [Segments(p) -> Slots] /\ seg'[1].word = seg[1].word
      /\ seg'[1].seq = IF file = 1 THEN seg[1].seq + 1 ELSE seg[1].seq
  BY <1>1 DEF SlotInv, SlotTypes, Slot!WriteBegin, Slots
<1>3. base' \in Nat /\ (file = 1 => base' = seg[1].seq)
  BY <1>1 DEF SlotInv, SlotTypes, Slot!WriteBegin, Slots
<1>4. seg[1].seq \in Nat
  BY <1>1 DEF SlotInv, SlotTypes, Slots
<1>5. SlotTypes(p)' /\ WriterLife(p)'
  BY <1>2, <1>3 DEF SlotInv, SlotTypes, WriterLife, Slot!WriteBegin, Slot!reader, SlotWords, Slot!Words
<1>6. WriterSeq'
  BY <1>2, <1>3, <1>4 DEF SlotInv, WriterSeq, Slot!WriteBegin, SlotWords, Slot!Words
<1>7. ReaderCopy'
  BY <1>2, <1>4 DEF SlotInv, SlotTypes, ReaderCopy, WriterSeq, Slot!WriteBegin, Slot!reader
<1>. QED  BY <1>5, <1>6, <1>7 DEF SlotInv, Whole, Slot!WriteBegin, Slot!reader

LEMMA WordKeeps == ASSUME NEW p \in SlotParts, SlotInv(p), NEW w \in SlotWords, Slot(p)!WriteWord(w) PROVE SlotInv(p)'
<1>1. file \in Segments(p) /\ 1 \in Segments(p)
  BY SlotAssumption DEF SlotParts, Starts, SlotInv, SlotTypes, WriterLife, Slot!WriteWord, Segments, Slot!Segments
<1>2. seg' \in [Segments(p) -> Slots] /\ seg'[1].seq = seg[1].seq
      /\ (file # 1 => seg'[1] = seg[1])
  BY <1>1 DEF SlotInv, SlotTypes, Slot!WriteWord, Slots
<1>3. file = 1 => \A v \in SlotWords : seg'[1].word[v] = IF v = w THEN writes ELSE seg[1].word[v]
  BY <1>1 DEF SlotInv, SlotTypes, Slot!WriteWord, Slots
<1>4. SlotTypes(p)' /\ WriterLife(p)'
  BY <1>2 DEF SlotInv, SlotTypes, WriterLife, Slot!WriteWord, Slot!reader, Segments, Slot!Segments
<1>5. WriterSeq'
  BY <1>2, <1>3 DEF SlotInv, SlotTypes, WriterSeq, Slot!WriteWord, SlotWords, Slot!Words
<1>6. ReaderCopy'
  BY <1>2, <1>3 DEF SlotInv, SlotTypes, ReaderCopy, WriterSeq, Slot!WriteWord, Slot!reader
<1>. QED  BY <1>4, <1>5, <1>6 DEF SlotInv, Whole, Slot!WriteWord, Slot!reader

LEMMA EndKeeps == ASSUME NEW p \in SlotParts, SlotInv(p), Slot(p)!WriteEnd PROVE SlotInv(p)'
<1>1. file \in Segments(p) /\ 1 \in Segments(p)
  BY SlotAssumption DEF SlotParts, Starts, SlotInv, SlotTypes, WriterLife, Slot!WriteEnd, Segments, Slot!Segments
<1>2. seg' \in [Segments(p) -> Slots] /\ seg'[1].word = seg[1].word
      /\ seg'[1].seq = IF file = 1 THEN base + 2 ELSE seg[1].seq
  BY <1>1 DEF SlotInv, SlotTypes, Slot!WriteEnd, Slots
<1>3. SlotTypes(p)' /\ WriterLife(p)'
  BY <1>2 DEF SlotInv, SlotTypes, WriterLife, Slot!WriteEnd, Slot!reader, Segments, Slot!Segments
<1>4. WriterSeq'
  BY <1>2 DEF SlotInv, SlotTypes, WriterSeq, Slot!WriteEnd, SlotWords, Slot!Words
<1>5. ReaderCopy'
  BY <1>2 DEF SlotInv, SlotTypes, ReaderCopy, WriterSeq, Slot!WriteEnd, Slot!reader
<1>. QED  BY <1>3, <1>4, <1>5 DEF SlotInv, Whole, Slot!WriteEnd, Slot!reader

\* A writer that closes, crashes or starts leaves the reader's segment as it is.
LEMMA LifeKeeps == ASSUME NEW p \in SlotParts, SlotInv(p), Slot(p)!Close \/ Slot(p)!Crash \/ Slot(p)!Start PROVE SlotInv(p)'
<1>1. seg' \in [Segments(p) -> Slots] /\ seg'[1] = seg[1]
  <2>1. CASE Slot(p)!Close \/ Slot(p)!Crash
    BY <2>1 DEF SlotInv, SlotTypes, Slot!Close, Slot!Crash
  <2>2. CASE Slot(p)!Start
    <3>1. file' = starts + 1 /\ file' \in Segments(p) /\ file' # 1 /\ 1 \in Segments(p)
      BY <2>2, SlotAssumption DEF SlotParts, Starts, SlotInv, SlotTypes, WriterLife, Slot!Start, Segments, Slot!Segments
    <3>2. Slot(p)!Empty \in Slots
      BY DEF Slot!Empty, Slots, SlotWords, Slot!Words
    <3>3. seg' = [seg EXCEPT ![file'] = Slot(p)!Empty]
      BY <2>2 DEF Slot!Start
    <3>. QED  BY <3>1, <3>2, <3>3 DEF SlotInv, SlotTypes
  <2>. QED  BY <2>1, <2>2
<1>2. file' = 1 => file = 1 /\ wpc' = "off"
  BY SlotAssumption DEF SlotParts, Starts, SlotInv, SlotTypes, WriterLife, Slot!Close, Slot!Crash, Slot!Start
<1>3. WriterLife(p)'
  <2>1. CASE Slot(p)!Close
    BY <2>1 DEF WriterLife, Slot!Close
  <2>2. CASE Slot(p)!Crash
    <3>1. Starts(p) = 1 /\ wpc' = "off"
      BY <2>2 DEF SlotParts, Starts, Slot!Crash
    <3>. QED  BY <3>1 DEF WriterLife
  <2>3. CASE Slot(p)!Start
    BY <2>3 DEF SlotInv, SlotTypes, WriterLife, Slot!Start
  <2>. QED  BY <2>1, <2>2, <2>3
<1>4. SlotTypes(p)'
  <2>1. starts' \in 1..Starts(p) /\ file' \in 0..starts'
    BY SlotAssumption DEF SlotParts, Starts, SlotInv, SlotTypes, Slot!Close, Slot!Crash, Slot!Start
  <2>. QED  BY <1>1, <2>1 DEF SlotInv, SlotTypes, Slot!Close, Slot!Crash, Slot!Start, Slot!reader, SlotWords, Slot!Words
<1>. QED  BY <1>1, <1>2, <1>3, <1>4 DEF SlotInv, WriterSeq, ReaderCopy, Whole, Slot!Close, Slot!Crash, Slot!Start, Slot!reader

\* The reader: the second load of the number vouches for the copied words.
LEMMA ReaderKeeps == ASSUME NEW p \in SlotParts, SlotInv(p), Slot(p)!ReaderStep PROVE SlotInv(p)'
<1>0. 1 \in Segments(p) /\ seg[1].seq \in Nat /\ seg[1].word \in [SlotWords -> Nat]
  BY SlotAssumption DEF SlotParts, Starts, SlotInv, SlotTypes, Segments, Slot!Segments, Slots
<1>1. CASE Slot(p)!ReadBegin
  BY <1>0, <1>1 DEF SlotInv, SlotTypes, WriterLife, WriterSeq, ReaderCopy, Whole, Slot!ReadBegin,
                    Slot!Readable, Slot!writer
<1>2. ASSUME NEW w \in SlotWords, Slot(p)!ReadWord(w) PROVE SlotInv(p)'
  <2>1. copy' \in Slots /\ copy'.seq = copy.seq
        /\ \A v \in SlotWords : copy'.word[v] = IF v = w THEN seg[1].word[v] ELSE copy.word[v]
    BY <1>0, <1>2 DEF SlotInv, SlotTypes, Slot!ReadWord, Slots
  <2>2. 0 \notin loaded /\ 0 \notin loaded'
    BY <1>2 DEF SlotInv, ReaderCopy, Slot!ReadWord, SlotWords, Slot!Words
  <2>3. SlotTypes(p)' /\ WriterLife(p)' /\ WriterSeq'
    BY <1>2, <2>1 DEF SlotInv, SlotTypes, WriterLife, WriterSeq, Slot!ReadWord, Slot!writer, SlotWords, Slot!Words
  <2>4. ReaderCopy'
    BY <1>2, <2>1, <2>2 DEF SlotInv, SlotTypes, ReaderCopy, Slot!ReadWord, Slot!writer
  <2>. QED  BY <1>2, <2>3, <2>4 DEF SlotInv, Whole, Slot!ReadWord
<1>3. CASE Slot(p)!ReadSeq
  <2>1. copy' \in Slots /\ copy'.seq = seg[1].seq /\ copy'.word = copy.word
    BY <1>0, <1>3 DEF SlotInv, SlotTypes, Slot!ReadSeq, Slots
  <2>2. SlotTypes(p)' /\ WriterLife(p)' /\ WriterSeq'
    BY <1>3, <2>1 DEF SlotInv, SlotTypes, WriterLife, WriterSeq, Slot!ReadSeq, Slot!writer
  <2>3. ReaderCopy'
    BY <1>3, <2>1 DEF SlotParts, Starts, SlotInv, SlotTypes, WriterSeq, ReaderCopy, Slot!ReadSeq, Slot!writer, SlotWords, Slot!Words
  <2>. QED  BY <1>3, <2>2, <2>3 DEF SlotInv, Whole, Slot!ReadSeq
<1>4. CASE Slot(p)!ReadEnd
  BY <1>4 DEF SlotInv, SlotTypes, WriterLife, WriterSeq, ReaderCopy, Whole, Slot!ReadEnd,
              Slot!Consistent, Slot!writer, Slots, SlotWords, Slot!Words
<1>. QED  BY <1>1, <1>2, <1>3, <1>4 DEF Slot!ReaderStep, SlotWords, Slot!Words

LEMMA SlotSteps == ASSUME NEW p \in SlotParts, SlotInv(p), [Slot(p)!Next]_slotVars PROVE SlotInv(p)'
<1>1. CASE Slot(p)!WriterStep
  BY <1>1, BeginKeeps, WordKeeps, EndKeeps DEF Slot!WriterStep, SlotWords, Slot!Words
<1>2. CASE Slot(p)!Close \/ Slot(p)!Crash \/ Slot(p)!Start
  BY <1>2, LifeKeeps
<1>3. CASE Slot(p)!ReaderStep
  BY <1>3, ReaderKeeps
<1>4. CASE UNCHANGED slotVars
  BY <1>4 DEF slotVars, SlotInv, SlotTypes, WriterLife, WriterSeq, ReaderCopy, Whole
<1>. QED  BY <1>1, <1>2, <1>3, <1>4 DEF Slot!Next


\* The sequence numbers stay within twice the number of writes.
LEMMA BoundSteps ==
  ASSUME NEW p \in SlotParts, SlotInv(p), WriterBound(p), [Slot(p)!Next]_slotVars
  PROVE  WriterBound(p)'
<1>1. writes \in Nat /\ base \in Nat /\ seg \in [Segments(p) -> Slots]
  BY DEF SlotInv, SlotTypes
<1>2. CASE Slot(p)!WriteBegin
  <2>1. file \in Segments(p)
    BY <1>2, SlotAssumption DEF SlotInv, SlotTypes, WriterLife, Slot!WriteBegin, Segments, Starts
  <2>2. \A s \in Segments(p) : seg'[s].seq = IF s = file THEN seg[s].seq + 1 ELSE seg[s].seq
    BY <1>1, <1>2, <2>1 DEF Slot!WriteBegin, Slots
  <2>3. \A s \in Segments(p) : seg[s].seq \in Nat
    BY <1>1 DEF Slots
  <2>4. writes' = writes + 1 /\ writes' <= Writes(p) /\ base' = seg[file].seq
    BY <1>1, <1>2, SlotAssumption DEF Slot!WriteBegin, Writes
  <2>. QED  BY <1>1, <2>1, <2>2, <2>3, <2>4 DEF WriterBound
<1>3. ASSUME NEW w \in SlotWords, Slot(p)!WriteWord(w) PROVE WriterBound(p)'
  <2>1. \A s \in Segments(p) : seg'[s].seq = seg[s].seq
    BY <1>1, <1>3 DEF Slot!WriteWord, Slots
  <2>. QED  BY <1>3, <2>1 DEF Slot!WriteWord, WriterBound
<1>4. CASE Slot(p)!WriteEnd
  <2>1. \A s \in Segments(p) : seg'[s].seq = IF s = file THEN base + 2 ELSE seg[s].seq
    BY <1>1, <1>4 DEF Slot!WriteEnd, Slots
  <2>. QED  BY <1>1, <1>4, <2>1 DEF Slot!WriteEnd, WriterBound
<1>5. CASE Slot(p)!Close \/ Slot(p)!Crash
  BY <1>5 DEF Slot!Close, Slot!Crash, WriterBound
<1>6. CASE Slot(p)!Start
  <2>1. \A s \in Segments(p) : seg'[s].seq = IF s = file' THEN 0 ELSE seg[s].seq
    BY <1>1, <1>6 DEF Slot!Start, Slot!Empty
  <2>. QED  BY <1>1, <1>6, <2>1 DEF Slot!Start, WriterBound
<1>7. CASE Slot(p)!ReaderStep
  BY <1>7 DEF Slot!ReaderStep, Slot!ReadBegin, Slot!ReadWord, Slot!ReadSeq, Slot!ReadEnd, Slot!writer, WriterBound
<1>8. CASE UNCHANGED slotVars
  BY <1>8 DEF slotVars, WriterBound
<1>. QED
  BY <1>2, <1>3, <1>4, <1>5, <1>6, <1>7, <1>8 DEF Slot!Next, Slot!WriterStep, SlotWords, Slot!Words
-----------------------------------------------------------------------------
(* The connection of the order executor. *)

ExecutorParts == {"executor", "shutdown"}

\* The states of the threads, and the delay.
ThreadTypes ==
  /\ conn \in {"none", "opening", "open", "dead", "closing"} /\ delay \in 1..MaxDelay
  /\ mtx \in {"free", "io", "wd", "main"} /\ io \in {"none", "running", "lock", "join", "ended"}
  /\ rec \in {"none", "sleeping", "joining", "ended"}
  /\ main \in {"up", "lock", "join_rec", "close", "join_ws", "join_wd", "down"}
  /\ wd \in {"watch", "stale", "expired", "lock", "join", "ended"}

(***************************************************************************)
(* A thread that joins the sleeper holds reconnect_mtx_, and nobody else   *)
(* does: schedule_reconnect and disconnect exclude one another.            *)
(***************************************************************************)
JoinerHolds ==
  /\ io = "join" <=> mtx = "io"
  /\ wd = "join" <=> mtx = "wd"
  /\ main = "join_rec" <=> mtx = "main"

\* What disconnect() has established at each of its steps: no reconnection is
\* wanted, then no sleeper is about to connect, then no client thread is left.
ShutdownSteps ==
  /\ main # "up" => ~should
  /\ main \in {"close", "join_ws", "join_wd", "down"} => rec # "joining"
  /\ main \in {"join_wd", "down"} => io = "none"

ThreadInv == ThreadTypes /\ JoinerHolds /\ ShutdownSteps

-----------------------------------------------------------------------------
\* The client thread: it starts a sleeper at most, never a client.
LEMMA ClientKeeps ==
  ASSUME NEW p \in ExecutorParts, ThreadInv, Executor(p)!Opened \/ Executor(p)!Refused \/ Executor(p)!Silent \/ Executor(p)!Closed \/ Executor(p)!IoLocks \/ Executor(p)!IoStarts
  PROVE  ThreadInv'
<1> USE ExecutorAssumption DEF ThreadInv, ThreadTypes, JoinerHolds, ShutdownSteps, Executor!flags
<1>1. CASE Executor(p)!Opened
  BY <1>1 DEF Executor!Opened
<1>2. CASE Executor(p)!Refused
  BY <1>2 DEF Executor!Refused
<1>3. CASE Executor(p)!Silent
  BY <1>3 DEF Executor!Silent
<1>4. CASE Executor(p)!Closed
  BY <1>4 DEF Executor!Closed
<1>5. CASE Executor(p)!IoLocks
  BY <1>5 DEF Executor!IoLocks, Executor!Lock, Executor!Backoff, Executor!Least
<1>6. CASE Executor(p)!IoStarts
  BY <1>6 DEF Executor!IoStarts, Executor!JoinAndStart
<1>. QED  BY <1>1, <1>2, <1>3, <1>4, <1>5, <1>6

\* The sleeper: it goes on to connect only while should_reconnect_ is set.
LEMMA SleeperKeeps == ASSUME NEW p \in ExecutorParts, ThreadInv, Executor(p)!Sleeper PROVE ThreadInv'
<1> USE ExecutorAssumption DEF ThreadInv, ThreadTypes, JoinerHolds, ShutdownSteps, Executor!flags
<1>1. CASE Executor(p)!Wakes
  BY <1>1 DEF Executor!Wakes, Executor!MayConnect
<1>2. CASE Executor(p)!Connects
  BY <1>2 DEF Executor!Connects
<1>. QED  BY <1>1, <1>2 DEF Executor!Sleeper

LEMMA WatchdogKeeps == ASSUME NEW p \in ExecutorParts, ThreadInv, Executor(p)!WatchdogThread PROVE ThreadInv'
<1> USE ExecutorAssumption DEF ThreadInv, ThreadTypes, JoinerHolds, ShutdownSteps, Executor!flags
<1>1. CASE Executor(p)!FindsStale
  BY <1>1 DEF Executor!FindsStale
<1>2. CASE Executor(p)!Handles
  BY <1>2 DEF Executor!Handles
<1>3. CASE Executor(p)!Expired
  BY <1>3 DEF Executor!Expired
<1>4. CASE Executor(p)!WdLocks
  BY <1>4 DEF Executor!WdLocks, Executor!Lock, Executor!Backoff, Executor!Least
<1>5. CASE Executor(p)!WdStarts
  BY <1>5 DEF Executor!WdStarts, Executor!JoinAndStart
<1>6. CASE Executor(p)!WdEnds
  BY <1>6 DEF Executor!WdEnds
<1>. QED  BY <1>1, <1>2, <1>3, <1>4, <1>5, <1>6 DEF Executor!WatchdogThread

\* disconnect(): each of its steps establishes the next part of ShutdownSteps.
LEMMA DisconnectKeeps == ASSUME NEW p \in ExecutorParts, ThreadInv, Executor(p)!Stops \/ Executor(p)!MainThread PROVE ThreadInv'
<1> USE ExecutorAssumption DEF ThreadInv, ThreadTypes, JoinerHolds, ShutdownSteps, Executor!flags
<1>1. CASE Executor(p)!Stops
  BY <1>1 DEF Executor!Stops
<1>2. CASE Executor(p)!MainLocks
  BY <1>2 DEF Executor!MainLocks
<1>3. CASE Executor(p)!MainJoins
  BY <1>3 DEF Executor!MainJoins
<1>4. CASE Executor(p)!MainCloses
  BY <1>4 DEF Executor!MainCloses
<1>5. CASE Executor(p)!MainJoinsWs
  BY <1>5 DEF Executor!MainJoinsWs
<1>6. CASE Executor(p)!MainEnds
  BY <1>6 DEF Executor!MainEnds
<1>. QED  BY <1>1, <1>2, <1>3, <1>4, <1>5, <1>6 DEF Executor!MainThread

LEMMA ThreadSteps ==
  ASSUME NEW p \in ExecutorParts, ThreadInv, [Executor(p)!Next]_execVars PROVE ThreadInv'
<1>1. CASE Executor(p)!Opened \/ Executor(p)!Refused \/ Executor(p)!Silent \/ Executor(p)!Closed
           \/ Executor(p)!IoLocks \/ Executor(p)!IoStarts
  BY <1>1, ClientKeeps
<1>2. CASE Executor(p)!Sleeper
  BY <1>2, SleeperKeeps
<1>3. CASE Executor(p)!WatchdogThread
  BY <1>3, WatchdogKeeps
<1>4. CASE Executor(p)!Stops \/ Executor(p)!MainThread
  BY <1>4, DisconnectKeeps
<1>5. CASE UNCHANGED execVars
  BY <1>5 DEF execVars, ThreadInv, ThreadTypes, JoinerHolds, ShutdownSteps
<1>. QED  BY <1>1, <1>2, <1>3, <1>4, <1>5 DEF Executor!Next, Executor!IoThread
-----------------------------------------------------------------------------
(* The book and the messages between the bot and the exchange. *)

BotParts == {"book", "drops", "kill"}
Syms(p) == IF p = "book" THEN Symbols ELSE {Symbol}
Quantities(p) == IF p = "book" THEN {1} ELSE {1, -1}

\* The messages: a fill is of a quantity other than zero.
BotOrders(p) == [kind : {"order"}, sym : Syms(p), qty : Quantities(p), late : BOOLEAN]
Requests(p) == [kind : {"close", "cancel_all"}, sym : Syms(p), qty : {0}]
Fills(p) == [kind : {"FILLED"}, sym : Syms(p), qty : Int \ {0}]
Answers(p) == [kind : {"PENDING", "REJECTED", "CANCELLED", "CANCELLED_ALL"}, sym : Syms(p), qty : Int]
Accounts(p) == [kind : {"account"}, held : [Syms(p) -> Int]]
Upward(p) == BotOrders(p) \cup Requests(p)
Downward(p) == Fills(p) \cup Answers(p) \cup Accounts(p)

WireTypes(p) ==
  /\ xpos \in [Syms(p) -> Int] /\ resting \in SUBSET BotOrders(p)
  /\ up \in Seq(Upward(p)) /\ down \in Seq(Downward(p))

BookTypes(p) ==
  /\ pos \in [Syms(p) -> Int] /\ misses \in [Syms(p) -> 0..(MissLimit - 1)]
  /\ pending \in SUBSET Syms(p) /\ active \in SUBSET Syms(p) /\ closing \in SUBSET Syms(p)

LoopTypes(p) ==
  /\ pc \in {"top", "risk", "sltp", "trade", "sent"} /\ sym \in Syms(p)
  /\ killPc \in {"armed", "flagged", "cancelled", "uncancelled", "done", "undone"}
  /\ killed \in BOOLEAN

\* An order waits for a fill only while the symbol has no position, unless it was overtaken.
OrderOrPosition(s) == pos[s] = 0 \/ s \notin pending
ActiveEngaged(s) == (pos[s] # 0 \/ s \in pending) <=> s \in active
BookAgrees(p) == \A s \in Syms(p) \ overtaken : OrderOrPosition(s) /\ ActiveEngaged(s)

BookInv(p) == BookTypes(p) /\ BookAgrees(p)

\* The cancel of all orders is behind every order that was sent before the activation.
IsCancel(m) == m.kind = "cancel_all"
IsEarly(m) == m.kind = "order" /\ ~m.late
CancelIn(q) == \E j \in DOMAIN q : IsCancel(q[j])
CancelsEarly(q) == \A i \in DOMAIN q : IsEarly(q[i]) => \E j \in DOMAIN q : j > i /\ IsCancel(q[j])
RestingCovered == \A o \in resting : ~o.late => CancelIn(up)
KillInv ==
  /\ killed <=> killPc # "armed"
  /\ killPc \in {"cancelled", "done"} => CancelsEarly(up) /\ RestingCovered

BotInv(p) == WireTypes(p) /\ LoopTypes(p) /\ BookInv(p) /\ KillInv

-----------------------------------------------------------------------------
\* The symbols, and the first of them.
LEMMA SymsFacts == ASSUME NEW p \in BotParts
  PROVE IsFiniteSet(Syms(p)) /\ Syms(p) # {} /\ Bot(p)!NoSym \in Syms(p)
<1>1. IsFiniteSet(Syms(p))
  BY BotAssumption, FS_Singleton DEF Syms
<1>2. Syms(p) # {}
  BY BotAssumption DEF Syms
<1>3. Bot(p)!NoSym \in Syms(p)
  BY <1>2 DEF Bot!NoSym, Syms
<1>. QED  BY <1>1, <1>2, <1>3

LEMMA BotStarts == ASSUME NEW p \in BotParts, Bot(p)!Init PROVE BotInv(p)
<1>1. /\ xpos = [s \in Syms(p) |-> 0] /\ resting = {} /\ up = <<>> /\ down = <<>>
      /\ pos = [s \in Syms(p) |-> 0] /\ pending = {} /\ active = {} /\ closing = {}
      /\ misses = [s \in Syms(p) |-> 0] /\ sym \in Syms(p)
      /\ pc = "top" /\ killed = FALSE /\ killPc = "armed"
  BY SymsFacts DEF Bot!Init, Syms
<1>2. 0 \in 0..(MissLimit - 1)
  BY BotAssumption
<1>3. WireTypes(p) /\ LoopTypes(p)
  <2>1. <<>> \in Seq(Upward(p)) /\ <<>> \in Seq(Downward(p))
    BY EmptySeq
  <2>2. xpos \in [Syms(p) -> Int] /\ resting \in SUBSET BotOrders(p)
    BY <1>1
  <2>3. LoopTypes(p)
    BY <1>1, Zenon DEF LoopTypes
  <2>. QED  BY <1>1, <2>1, <2>2, <2>3, Zenon DEF WireTypes
<1>4. KillInv
  BY <1>1, Zenon DEF KillInv
<1>5. BookInv(p)
  BY <1>1, <1>2 DEF BookInv, BookTypes, BookAgrees, OrderOrPosition, ActiveEngaged
<1>. QED  BY <1>3, <1>4, <1>5 DEF BotInv

-----------------------------------------------------------------------------
(* Queues and the cancel in them. *)

\* A message other than an early order at the end.
LEMMA CancelsAppend ==
  ASSUME NEW M, NEW q \in Seq(M), NEW m \in M
  PROVE  /\ Append(q, m) \in Seq(M)
         /\ CancelsEarly(q) /\ ~IsEarly(m) => CancelsEarly(Append(q, m))
         /\ CancelIn(q) => CancelIn(Append(q, m))
         /\ IsCancel(m) => CancelsEarly(Append(q, m)) /\ CancelIn(Append(q, m))
<1>1. /\ Append(q, m) \in Seq(M) /\ Len(q) \in Nat /\ DOMAIN q = 1..Len(q)
      /\ DOMAIN Append(q, m) = 1..(Len(q) + 1)
      /\ \A j \in 1..Len(q) : Append(q, m)[j] = q[j]
      /\ Append(q, m)[Len(q) + 1] = m
  BY AppendProperties, LenProperties
<1> DEFINE r == Append(q, m)
           n == Len(q)
<1> HIDE DEF r
<1>2. \A i \in DOMAIN r : i \in 1..n \/ i = n + 1
  BY <1>1 DEF r
<1>3. 1..n \subseteq DOMAIN r /\ n + 1 \in DOMAIN r /\ (\A j \in 1..n : r[j] = q[j]) /\ r[n + 1] = m
  BY <1>1 DEF r
<1>4. ASSUME CancelsEarly(q), ~IsEarly(m) PROVE CancelsEarly(r)
  <2>1. SUFFICES ASSUME NEW i \in DOMAIN r, IsEarly(r[i]) PROVE \E j \in DOMAIN r : j > i /\ IsCancel(r[j])
    BY DEF CancelsEarly
  <2>2. i \in 1..n /\ IsEarly(q[i])
    BY <1>2, <1>3, <1>4, <2>1
  <2>3. PICK j \in 1..n : j > i /\ IsCancel(q[j])
    BY <1>1, <1>4, <2>2 DEF CancelsEarly
  <2>. QED  BY <1>3, <2>3
<1>5. CancelIn(q) => CancelIn(r)
  BY <1>1, <1>3 DEF CancelIn
<1>6. ASSUME IsCancel(m) PROVE CancelsEarly(r) /\ CancelIn(r)
  <2>1. IsCancel(r[n + 1]) /\ ~IsEarly(r[n + 1])
    BY <1>3, <1>6 DEF IsCancel, IsEarly
  <2>2. \A i \in DOMAIN r : IsEarly(r[i]) => n + 1 > i
    BY <1>1, <1>2, <2>1
  <2>. QED  BY <1>3, <2>1, <2>2 DEF CancelsEarly, CancelIn
<1>. QED  BY <1>1, <1>4, <1>5, <1>6 DEF r

\* Messages that are no orders at the end.
LEMMA CancelsConcat ==
  ASSUME NEW M, NEW q \in Seq(M), NEW c \in Seq(M), \A i \in 1..Len(c) : ~IsEarly(c[i])
  PROVE  /\ q \o c \in Seq(M)
         /\ CancelsEarly(q) => CancelsEarly(q \o c)
         /\ CancelIn(q) => CancelIn(q \o c)
<1>1. /\ q \o c \in Seq(M) /\ Len(q) \in Nat /\ Len(c) \in Nat /\ DOMAIN q = 1..Len(q)
      /\ DOMAIN (q \o c) = 1..(Len(q) + Len(c))
      /\ \A j \in 1..(Len(q) + Len(c)) : (q \o c)[j] = IF j <= Len(q) THEN q[j] ELSE c[j - Len(q)]
  BY ConcatProperties, LenProperties
<1> DEFINE r == q \o c
           n == Len(q)
<1> HIDE DEF r
<1>2. 1..n \subseteq DOMAIN r /\ \A j \in 1..n : r[j] = q[j]
  BY <1>1 DEF r
<1>3. \A i \in DOMAIN r : i \in 1..n \/ ~IsEarly(r[i])
  <2>1. \A i \in DOMAIN r : i \in 1..n \/ (i - n \in 1..Len(c) /\ r[i] = c[i - n])
    BY <1>1 DEF r
  <2>. QED  BY <2>1
<1>4. ASSUME CancelsEarly(q) PROVE CancelsEarly(r)
  <2>1. SUFFICES ASSUME NEW i \in DOMAIN r, IsEarly(r[i]) PROVE \E j \in DOMAIN r : j > i /\ IsCancel(r[j])
    BY DEF CancelsEarly
  <2>2. i \in 1..n /\ IsEarly(q[i])
    BY <1>2, <1>3, <2>1
  <2>3. PICK j \in 1..n : j > i /\ IsCancel(q[j])
    BY <1>1, <1>4, <2>2 DEF CancelsEarly
  <2>. QED  BY <1>2, <2>3
<1>5. CancelIn(q) => CancelIn(r)
  BY <1>1, <1>2 DEF CancelIn
<1>. QED  BY <1>1, <1>4, <1>5 DEF r

\* The head leaves.
LEMMA CancelsTail ==
  ASSUME NEW M, NEW q \in Seq(M), q # <<>>
  PROVE  /\ Tail(q) \in Seq(M) /\ Head(q) \in M
         /\ CancelsEarly(q) => CancelsEarly(Tail(q))
         /\ CancelsEarly(q) /\ IsEarly(Head(q)) => CancelIn(Tail(q))
         /\ CancelIn(q) /\ ~IsCancel(Head(q)) => CancelIn(Tail(q))
<1>1. /\ Tail(q) \in Seq(M) /\ Len(q) \in Nat /\ Len(q) >= 1 /\ DOMAIN q = 1..Len(q)
      /\ DOMAIN Tail(q) = 1..(Len(q) - 1) /\ Head(q) = q[1] /\ Head(q) \in M
      /\ \A j \in 1..(Len(q) - 1) : Tail(q)[j] = q[j + 1]
  BY HeadTailProperties, LenProperties, EmptySeq
<1> DEFINE r == Tail(q)
           n == Len(q)
<1> HIDE DEF r
<1>2. ASSUME NEW j \in 1..n, j > 1 PROVE j - 1 \in DOMAIN r /\ r[j - 1] = q[j]
  BY <1>1, <1>2 DEF r
<1>3. \A i \in DOMAIN r : i + 1 \in 1..n /\ i \in Nat /\ r[i] = q[i + 1]
  BY <1>1 DEF r
<1>4. ASSUME CancelsEarly(q) PROVE CancelsEarly(r)
  <2>1. SUFFICES ASSUME NEW i \in DOMAIN r, IsEarly(r[i]) PROVE \E j \in DOMAIN r : j > i /\ IsCancel(r[j])
    BY DEF CancelsEarly
  <2>2. i + 1 \in 1..n /\ i \in Nat /\ i + 1 > 1 /\ IsEarly(q[i + 1])
    BY <1>1, <1>3, <2>1
  <2>3. PICK j \in 1..n : j > i + 1 /\ IsCancel(q[j])
    BY <1>1, <1>4, <2>2 DEF CancelsEarly
  <2>4. j > 1 /\ j - 1 > i
    BY <1>1, <2>2, <2>3
  <2>5. j - 1 \in DOMAIN r /\ r[j - 1] = q[j]
    BY <1>2, <2>3, <2>4
  <2>. QED  BY <2>3, <2>4, <2>5
<1>5. ASSUME CancelsEarly(q), IsEarly(q[1]) PROVE CancelIn(r)
  <2>1. PICK j \in 1..n : j > 1 /\ IsCancel(q[j])
    BY <1>1, <1>5 DEF CancelsEarly
  <2>. QED  BY <1>2, <2>1 DEF CancelIn
<1>6. ASSUME CancelIn(q), ~IsCancel(q[1]) PROVE CancelIn(r)
  <2>1. PICK j \in 1..n : IsCancel(q[j])
    BY <1>1, <1>6 DEF CancelIn
  <2>2. j > 1
    BY <1>1, <1>6, <2>1
  <2>. QED  BY <1>2, <2>1, <2>2 DEF CancelIn
<1>. QED  BY <1>1, <1>4, <1>5, <1>6 DEF r
-----------------------------------------------------------------------------
(* The loop and the kill switch. *)

\* A message that is no early order goes out.
LEMMA SendsKeep ==
  ASSUME NEW p \in BotParts, up \in Seq(Upward(p)), KillInv, NEW m \in Upward(p), ~IsEarly(m),
         up' = Append(up, m), UNCHANGED <<resting, killed, killPc>>
  PROVE  up' \in Seq(Upward(p)) /\ KillInv'
<1>1. /\ up' \in Seq(Upward(p)) /\ (CancelsEarly(up) => CancelsEarly(up')) /\ (CancelIn(up) => CancelIn(up'))
  BY CancelsAppend
<1>2. RestingCovered => RestingCovered'
  BY <1>1 DEF RestingCovered
<1>. QED  BY <1>1, <1>2 DEF KillInv

\* What a step that leaves the messages and the exchange alone keeps.
LEMMA WireSame ==
  ASSUME NEW p \in BotParts, BotInv(p), UNCHANGED <<xpos, resting, up, down, killed, killPc>>
  PROVE  WireTypes(p)' /\ KillInv'
  BY DEF BotInv, WireTypes, KillInv, RestingCovered

LEMMA BookSame ==
  ASSUME NEW p, BookInv(p), UNCHANGED <<pos, misses, pending, active>>, closing' \in SUBSET Syms(p),
         overtaken' = overtaken
  PROVE  BookInv(p)'
  BY DEF BookInv, BookTypes, BookAgrees, OrderOrPosition, ActiveEngaged

LEMMA LoopKeeps ==
  ASSUME NEW p \in BotParts, BotInv(p), Bot(p)!Top \/ Bot(p)!Risk \/ Bot(p)!TickEnds
  PROVE  BotInv(p)'
<1>1. UNCHANGED <<xpos, resting, up, down, pos, pending, active, misses, closing, killed, killPc, overtaken, sym>>
      /\ pc' \in {"top", "risk", "sltp", "trade", "sent"}
  BY DEF Bot!Top, Bot!Risk, Bot!TickEnds, Bot!exchange, Bot!book, Bot!kill
<1>2. WireTypes(p)' /\ KillInv'
  BY <1>1, WireSame
<1>3. BookInv(p)'
  BY <1>1, BookSame DEF BotInv, BookInv, BookTypes
<1>. QED  BY <1>1, <1>2, <1>3 DEF BotInv, LoopTypes

\* The order is recorded: its symbol has no position, or is overtaken.
LEMMA AddPendingKeeps == ASSUME NEW p \in BotParts, BotInv(p), Bot(p)!AddPending PROVE BotInv(p)'
<1>1. /\ UNCHANGED <<xpos, resting, up, down, pos, misses, closing, killed, killPc, sym>>
      /\ pc' = "trade" /\ pending' = pending \cup {sym} /\ active' = active \cup {sym}
      /\ overtaken' = IF pos[sym] # 0 THEN overtaken \cup {sym} ELSE overtaken
  BY DEF Bot!AddPending, Bot!exchange, Bot!kill
<1>2. WireTypes(p)' /\ KillInv'
  BY <1>1, WireSame
<1>3. BookTypes(p)'
  BY <1>1 DEF BotInv, BookInv, BookTypes, LoopTypes
<1>4. ASSUME NEW s \in Syms(p), s \notin overtaken' PROVE (OrderOrPosition(s) /\ ActiveEngaged(s))'
  <2>1. OrderOrPosition(s) /\ ActiveEngaged(s)
    BY <1>1, <1>4 DEF BotInv, BookInv, BookAgrees
  <2>2. CASE s = sym
    BY <1>1, <1>4, <2>2 DEF OrderOrPosition, ActiveEngaged
  <2>3. CASE s # sym
    BY <1>1, <2>1, <2>3 DEF OrderOrPosition, ActiveEngaged
  <2>. QED  BY <2>2, <2>3
<1>. QED  BY <1>1, <1>2, <1>3, <1>4 DEF BotInv, LoopTypes, BookInv, BookAgrees

LEMMA SlTpKeeps == ASSUME NEW p \in BotParts, BotInv(p), Bot(p)!SlTp PROVE BotInv(p)'
<1>1. UNCHANGED <<xpos, resting, down, pos, pending, active, misses, killed, killPc, overtaken, sym>> /\ pc' = "trade"
  BY DEF Bot!SlTp, Bot!exchange, Bot!kill
<1>2. CASE UNCHANGED <<up, closing>>
  <2>1. WireTypes(p)' /\ KillInv'
    BY <1>1, <1>2, WireSame
  <2>2. BookInv(p)'
    BY <1>1, <1>2, BookSame DEF BotInv, BookInv, BookTypes
  <2>. QED  BY <1>1, <2>1, <2>2 DEF BotInv, LoopTypes
<1>3. ASSUME NEW s \in Syms(p), up' = Append(up, Bot(p)!Msg("close", s, 0)), closing' = closing \cup {s}
      PROVE  BotInv(p)'
  <2> DEFINE m == Bot(p)!Msg("close", s, 0)
  <2>1. m \in Upward(p) /\ ~IsEarly(m)
    BY DEF Bot!Msg, Upward, Requests, IsEarly
  <2> HIDE DEF m
  <2>2. up' \in Seq(Upward(p)) /\ KillInv'
    BY <1>1, <1>3, <2>1, SendsKeep DEF m, BotInv, WireTypes
  <2>3. BookInv(p)'
    BY <1>1, <1>3, BookSame DEF BotInv, BookInv, BookTypes
  <2>. QED  BY <1>1, <2>2, <2>3 DEF BotInv, WireTypes, LoopTypes
<1>4. UNCHANGED <<up, closing>>
      \/ \E s \in Syms(p) : up' = Append(up, Bot(p)!Msg("close", s, 0)) /\ closing' = closing \cup {s}
  BY DEF Bot!SlTp, Syms
<1>. QED  BY <1>2, <1>3, <1>4

LEMMA ExpireKeeps == ASSUME NEW p \in BotParts, NEW t \in Syms(p), BotInv(p), Bot(p)!CloseExpires(t) PROVE BotInv(p)'
<1>1. UNCHANGED <<xpos, resting, up, down, pos, pending, active, misses, killed, killPc, overtaken, sym, pc>>
      /\ closing' = closing \ {t}
  BY DEF Bot!CloseExpires, Bot!exchange, Bot!loop, Bot!kill
<1>2. WireTypes(p)' /\ KillInv'
  BY <1>1, WireSame
<1>3. BookInv(p)'
  BY <1>1, BookSame DEF BotInv, BookInv, BookTypes
<1>. QED  BY <1>1, <1>2, <1>3 DEF BotInv, LoopTypes

\* An order that goes out after the activation is a late one.
LEMMA SubmitKeeps == ASSUME NEW p \in BotParts, NEW t \in Syms(p), BotInv(p), Bot(p)!Submit(t) PROVE BotInv(p)'
<1>1. UNCHANGED <<xpos, resting, down, pos, pending, active, misses, closing, killed, killPc, overtaken>>
      /\ pc' = "sent" /\ sym' = t
  BY DEF Bot!Submit, Bot!exchange, Bot!book, Bot!kill
<1>2. PICK q \in Quantities(p) : up' = Append(up, Bot(p)!Order(t, q))
  BY DEF Bot!Submit, Quantities
<1> DEFINE m == Bot(p)!Order(t, q)
<1>3. m \in Upward(p) /\ (killed => ~IsEarly(m)) /\ up \in Seq(Upward(p))
  BY DEF Bot!Order, Upward, BotOrders, IsEarly, BotInv, LoopTypes, WireTypes
<1> HIDE DEF m
<1>4. up' \in Seq(Upward(p)) /\ KillInv'
  <2>1. CASE killed
    BY <1>1, <1>2, <1>3, <2>1, SendsKeep DEF m, BotInv
  <2>2. CASE ~killed
    <3>1. up' \in Seq(Upward(p))
      BY <1>2, <1>3, CancelsAppend DEF m
    <3>. QED  BY <1>1, <2>2, <3>1 DEF BotInv, KillInv
  <2>. QED  BY <2>1, <2>2
<1>5. BookInv(p)'
  BY <1>1, BookSame DEF BotInv, BookInv, BookTypes
<1>. QED  BY <1>1, <1>4, <1>5 DEF BotInv, WireTypes, LoopTypes

\* The flag comes first.
LEMMA ActivateKeeps == ASSUME NEW p \in BotParts, NEW who, BotInv(p), Bot(p)!Activate(who) PROVE BotInv(p)'
<1>1. UNCHANGED <<xpos, resting, up, down, pos, pending, active, misses, closing, overtaken, sym, pc>>
      /\ killPc' = "flagged" /\ killed' = TRUE
  BY DEF Bot!Activate, Bot!Flagged, Bot!exchange, Bot!book, Bot!loop
<1>2. BookInv(p)'
  BY <1>1, BookSame DEF BotInv, BookInv, BookTypes
<1>. QED  BY <1>1, <1>2 DEF BotInv, WireTypes, LoopTypes, KillInv

\* Then the cancel, behind all that was sent before.
LEMMA CancelKeeps == ASSUME NEW p \in BotParts, BotInv(p), Bot(p)!CancelAll PROVE BotInv(p)'
<1>1. UNCHANGED <<xpos, resting, down, pos, pending, active, misses, closing, overtaken, sym, pc>> /\ killed' = TRUE
  BY DEF Bot!CancelAll, Bot!Flagged, Bot!exchange, Bot!book, Bot!loop
<1>2. BookInv(p)'
  BY <1>1, BookSame DEF BotInv, BookInv, BookTypes
<1>3. CASE killPc' = "uncancelled" /\ UNCHANGED up
  BY <1>1, <1>2, <1>3 DEF BotInv, WireTypes, LoopTypes, KillInv
<1>4. CASE killPc' = "cancelled" /\ up' = Append(up, Bot(p)!Msg("cancel_all", Bot(p)!NoSym, 0))
  <2> DEFINE m == Bot(p)!Msg("cancel_all", Bot(p)!NoSym, 0)
  <2>1. m \in Upward(p) /\ IsCancel(m) /\ up \in Seq(Upward(p))
    BY SymsFacts DEF Bot!Msg, Upward, Requests, IsCancel, BotInv, WireTypes
  <2> HIDE DEF m
  <2>2. up' \in Seq(Upward(p)) /\ CancelsEarly(up') /\ CancelIn(up')
    BY <1>4, <2>1, CancelsAppend DEF m
  <2>. QED  BY <1>1, <1>2, <1>4, <2>2 DEF BotInv, WireTypes, LoopTypes, KillInv, RestingCovered
<1>. QED  BY <1>3, <1>4 DEF Bot!CancelAll

\* The instance of FiniteSets that Bot(p) brings is the one used here.
LEMMA CardinalityHere == ASSUME NEW p, NEW S PROVE Bot(p)!Cardinality(S) = Cardinality(S)
  BY DEF Bot!Cardinality, Cardinality

\* Closes are messages to the exchange.
LEMMA ClosesOnly == ASSUME NEW p \in BotParts, NEW S \in SUBSET Syms(p), NEW c \in Bot(p)!Closes(S)
  PROVE c \in Seq(Upward(p)) /\ \A i \in 1..Len(c) : ~IsEarly(c[i])
<1> DEFINE M == {Bot(p)!Msg("close", s, 0) : s \in S}
<1>0. IsFiniteSet(S)
  BY SymsFacts, FS_Subset
<1>1. Cardinality(S) \in Nat
  BY <1>0, FS_CardinalityType
<1>2. c \in [1..Cardinality(S) -> M]
  BY CardinalityHere DEF Bot!Closes
<1>3. M \subseteq Upward(p) /\ \A m \in M : ~IsEarly(m)
  BY DEF Bot!Msg, Upward, Requests, IsEarly
<1> HIDE DEF M
<1>4. c \in Seq(M)
  BY <1>1, <1>2
<1>. QED  BY <1>3, <1>4, SeqMonotonic, ElementOfSeq

LEMMA CloseAllKeeps == ASSUME NEW p \in BotParts, BotInv(p), Bot(p)!CloseAll PROVE BotInv(p)'
<1>1. UNCHANGED <<xpos, resting, down, pos, pending, active, misses, overtaken, sym, pc>> /\ killed' = TRUE
      /\ killPc \in {"cancelled", "uncancelled"}
      /\ killPc' = IF killPc = "cancelled" THEN "done" ELSE "undone"
  BY DEF Bot!CloseAll, Bot!Flagged, Bot!exchange, Bot!loop
<1>2. PICK S \in SUBSET Syms(p) : \E c \in Bot(p)!Closes(S) : up' = up \o c /\ closing' = closing \cup S
  <2>1. SUBSET {s \in Syms(p) : pos[s] # 0} \subseteq SUBSET Syms(p)
    OBVIOUS
  <2>. QED  BY <2>1 DEF Bot!CloseAll, Syms
<1>3. PICK c \in Bot(p)!Closes(S) : up' = up \o c
  BY <1>2
<1>4. c \in Seq(Upward(p)) /\ \A i \in 1..Len(c) : ~IsEarly(c[i])
  BY ClosesOnly
<1>5. up' \in Seq(Upward(p)) /\ (CancelsEarly(up) => CancelsEarly(up')) /\ (CancelIn(up) => CancelIn(up'))
  BY <1>3, <1>4, CancelsConcat DEF BotInv, WireTypes
<1>6. KillInv'
  <2>1. RestingCovered => RestingCovered'
    BY <1>1, <1>5 DEF RestingCovered
  <2>. QED  BY <1>1, <1>5, <2>1 DEF BotInv, KillInv
<1>7. BookInv(p)'
  BY <1>1, <1>2, BookSame DEF BotInv, BookInv, BookTypes
<1>. QED  BY <1>1, <1>5, <1>6, <1>7 DEF BotInv, WireTypes, LoopTypes

-----------------------------------------------------------------------------
(* The exchange. *)

\* Steps of the exchange leave the bot alone.
BotStands == UNCHANGED <<pos, pending, active, misses, closing, overtaken, sym, pc, killed, killPc>>

\* A message to the receiver.
LEMMA AnswersKeep ==
  ASSUME NEW p \in BotParts, down \in Seq(Downward(p)), NEW m \in Downward(p), down' = Append(down, m)
  PROVE  down' \in Seq(Downward(p))
  BY AppendProperties

\* The exchange answers of its own accord: it forgets resting orders, it gains none.
LEMMA ExchangeStands ==
  ASSUME NEW p \in BotParts, BotInv(p), BotStands, up' = up, xpos' \in [Syms(p) -> Int],
         resting' \in SUBSET resting, down' \in Seq(Downward(p))
  PROVE  BotInv(p)'
<1>1. BookInv(p)'
  BY BookSame DEF BotInv, BookInv, BookTypes, BotStands
<1>2. KillInv'
  BY DEF BotInv, KillInv, RestingCovered, BotStands
<1>. QED  BY <1>1, <1>2 DEF BotInv, WireTypes, LoopTypes, BotStands

\* What each of the messages to the receiver is.
LEMMA MessageTypes ==
  ASSUME NEW p \in BotParts, NEW s \in Syms(p)
  PROVE  /\ \A q \in Int \ {0} : Bot(p)!Msg("FILLED", s, q) \in Downward(p)
         /\ \A k \in {"PENDING", "REJECTED", "CANCELLED", "CANCELLED_ALL"}, q \in Int :
              Bot(p)!Msg(k, s, q) \in Downward(p)
  BY DEF Bot!Msg, Downward, Fills, Answers

LEMMA AccountType == ASSUME NEW p \in BotParts, xpos \in [Syms(p) -> Int] PROVE Bot(p)!Account \in Downward(p)
  BY DEF Bot!Account, Downward, Accounts

\* A tick fills or expires a resting order.
LEMMA RestingKeeps ==
  ASSUME NEW p \in BotParts, BotInv(p), NEW o \in resting, Bot(p)!RestingEnds(o) PROVE BotInv(p)'
<1>1. BotStands /\ up' = up /\ resting' \in SUBSET resting
  BY DEF Bot!RestingEnds, Bot!book, Bot!loop, Bot!kill, BotStands
<1>2. o \in BotOrders(p) /\ xpos \in [Syms(p) -> Int] /\ down \in Seq(Downward(p))
  BY DEF BotInv, WireTypes
<1>3. o.sym \in Syms(p) /\ o.qty \in Int \ {0} /\ 0 \in Int
  BY <1>2 DEF BotOrders, Quantities
<1>4. xpos' \in [Syms(p) -> Int] /\ down' \in Seq(Downward(p))
  <2>1. CASE xpos' = [xpos EXCEPT ![o.sym] = @ + o.qty] /\ down' = Append(down, Bot(p)!Msg("FILLED", o.sym, o.qty))
    <3>1. Bot(p)!Msg("FILLED", o.sym, o.qty) \in Downward(p)
      BY <1>3, MessageTypes
    <3>2. xpos' \in [Syms(p) -> Int]
      BY <1>2, <1>3, <2>1
    <3>. QED  BY <1>2, <2>1, <3>1, <3>2, AnswersKeep
  <2>2. CASE down' = Append(down, Bot(p)!Msg("CANCELLED", o.sym, 0)) /\ UNCHANGED xpos
    <3>1. Bot(p)!Msg("CANCELLED", o.sym, 0) \in Downward(p)
      BY <1>3, MessageTypes
    <3>. QED  BY <1>2, <2>2, <3>1, AnswersKeep
  <2>. QED  BY <2>1, <2>2 DEF Bot!RestingEnds
<1>. QED  BY <1>1, <1>4, ExchangeStands

\* A tick closes a position, or half of it.
LEMMA StopsKeeps == ASSUME NEW p \in BotParts, NEW t \in Syms(p), BotInv(p), Bot(p)!StopsOut(t) PROVE BotInv(p)'
<1>1. BotStands /\ up' = up /\ resting' = resting
  BY DEF Bot!StopsOut, Bot!book, Bot!loop, Bot!kill, BotStands
<1>2. xpos \in [Syms(p) -> Int] /\ down \in Seq(Downward(p)) /\ xpos[t] # 0
  BY DEF BotInv, WireTypes, Bot!StopsOut
<1>3. PICK n \in {Bot(p)!Abs(xpos[t]), (Bot(p)!Abs(xpos[t]) + 1) \div 2} :
        /\ xpos' = [xpos EXCEPT ![t] = xpos[t] - Bot(p)!Sign(xpos[t]) * n]
        /\ down' = Append(down, Bot(p)!Msg("FILLED", t, -(Bot(p)!Sign(xpos[t]) * n)))
  BY DEF Bot!StopsOut
<1> DEFINE x == xpos[t]
           k == Bot(p)!Sign(x) * n
<1>4. x \in Int /\ x # 0
  BY <1>2
<1> HIDE DEF x
<1>5. n \in Int /\ n > 0
  <2>1. Bot(p)!Abs(x) \in Int /\ Bot(p)!Abs(x) > 0
    BY <1>4 DEF Bot!Abs
  <2>2. \A a \in Int : a > 0 => (a + 1) \div 2 \in Int /\ (a + 1) \div 2 > 0
    OBVIOUS
  <2>. QED  BY <1>3, <2>1, <2>2 DEF x
<1>6. k \in Int \ {0} /\ -k \in Int \ {0}
  <2>1. Bot(p)!Sign(x) = 1 \/ Bot(p)!Sign(x) = -1
    BY DEF Bot!Sign
  <2>2. k = n \/ k = -n
    BY <1>5, <2>1
  <2> HIDE DEF k
  <2>. QED  BY <1>5, <2>2
<1> HIDE DEF k
<1>7. xpos' = [xpos EXCEPT ![t] = xpos[t] - k] /\ down' = Append(down, Bot(p)!Msg("FILLED", t, -k))
  BY <1>3 DEF k, x
<1>8. xpos' \in [Syms(p) -> Int]
  BY <1>2, <1>6, <1>7
<1>9. down' \in Seq(Downward(p))
  BY <1>2, <1>6, <1>7, MessageTypes, AnswersKeep
<1>. QED  BY <1>1, <1>8, <1>9, ExchangeStands

LEMMA OthersKeep == ASSUME NEW p \in BotParts, BotInv(p), Bot(p)!OtherClients PROVE BotInv(p)'
<1>1. BotStands /\ up' = up
  BY DEF Bot!OtherClients, Bot!book, Bot!loop, Bot!kill, BotStands
<1>2. xpos \in [Syms(p) -> Int] /\ down \in Seq(Downward(p)) /\ Bot(p)!NoSym \in Syms(p) /\ 0 \in Int
  BY SymsFacts DEF BotInv, WireTypes
<1>3. ASSUME NEW s \in Syms(p), NEW q \in {-1, 1}, xpos' = [xpos EXCEPT ![s] = @ + q] \/ UNCHANGED xpos,
             down' = Append(down, Bot(p)!Msg("FILLED", s, q)), UNCHANGED resting
      PROVE  BotInv(p)'
  <2>1. xpos' \in [Syms(p) -> Int] /\ q \in Int \ {0}
    BY <1>2, <1>3
  <2>2. down' \in Seq(Downward(p))
    BY <1>2, <1>3, <2>1, MessageTypes, AnswersKeep
  <2>. QED  BY <1>1, <1>3, <2>1, <2>2, ExchangeStands
<1>4. ASSUME NEW s \in Syms(p), NEW k \in {"CANCELLED", "CANCELLED_ALL"}, down' = Append(down, Bot(p)!Msg(k, s, 0)),
             UNCHANGED xpos, resting' \in SUBSET resting
      PROVE  BotInv(p)'
  <2>1. Bot(p)!Msg(k, s, 0) \in Downward(p)
    BY <1>2, MessageTypes
  <2>2. down' \in Seq(Downward(p))
    BY <1>2, <1>4, <2>1, AnswersKeep
  <2>. QED  BY <1>1, <1>2, <1>4, <2>2, ExchangeStands
<1>5. \/ \E s \in Syms(p), q \in {-1, 1} :
           /\ xpos' = [xpos EXCEPT ![s] = @ + q] \/ UNCHANGED xpos
           /\ down' = Append(down, Bot(p)!Msg("FILLED", s, q)) /\ UNCHANGED resting
      \/ \E s \in Syms(p) : down' = Append(down, Bot(p)!Msg("CANCELLED", s, 0)) /\ UNCHANGED <<xpos, resting>>
      \/ down' = Append(down, Bot(p)!Msg("CANCELLED_ALL", Bot(p)!NoSym, 0)) /\ UNCHANGED xpos /\ resting' \in SUBSET resting
  BY DEF Bot!OtherClients, Bot!HandleCancelAll, Bot!exchange, Syms
<1>. QED  BY <1>2, <1>3, <1>4, <1>5

LEMMA BroadcastKeeps == ASSUME NEW p \in BotParts, BotInv(p), Bot(p)!Broadcast \/ Bot(p)!Drop PROVE BotInv(p)'
<1>1. BotStands /\ up' = up /\ UNCHANGED <<xpos, resting>>
  BY DEF Bot!Broadcast, Bot!Drop, Bot!exchange, Bot!book, Bot!loop, Bot!kill, BotStands
<1>2. xpos \in [Syms(p) -> Int] /\ down \in Seq(Downward(p))
  BY DEF BotInv, WireTypes
<1>3. down' = Append(down, Bot(p)!Account) \/ down' = <<>>
  BY DEF Bot!Broadcast, Bot!Drop
<1>4. down' \in Seq(Downward(p))
  BY <1>2, <1>3, AccountType, AnswersKeep, EmptySeq
<1>. QED  BY <1>1, <1>2, <1>4, ExchangeStands

\* The exchange takes the next message; an early order that comes to rest has the cancel behind it.
LEMMA HandlesKeeps == ASSUME NEW p \in BotParts, BotInv(p), Bot(p)!ExchangeHandles PROVE BotInv(p)'
<1> DEFINE m == Head(up)
<1>1. BotStands /\ up # <<>> /\ up' = Tail(up)
  BY DEF Bot!ExchangeHandles, Bot!book, Bot!loop, Bot!kill, BotStands
<1>2. xpos \in [Syms(p) -> Int] /\ down \in Seq(Downward(p)) /\ up \in Seq(Upward(p)) /\ resting \in SUBSET BotOrders(p)
  BY DEF BotInv, WireTypes
<1>3. /\ up' \in Seq(Upward(p)) /\ m \in Upward(p)
      /\ CancelsEarly(up) => CancelsEarly(up')
      /\ CancelsEarly(up) /\ IsEarly(m) => CancelIn(up')
      /\ CancelIn(up) /\ ~IsCancel(m) => CancelIn(up')
  BY <1>1, <1>2, CancelsTail
<1>4. /\ m.kind = "order" => m \in BotOrders(p) /\ Bot(p)!HandleOrder(m)
      /\ m.kind = "close" => m.sym \in Syms(p) /\ Bot(p)!HandleClose(m.sym)
      /\ m.kind = "cancel_all" => Bot(p)!HandleCancelAll
      /\ m.kind \in {"order", "close", "cancel_all"}
  <2>1. /\ m.kind \in {"order", "close", "cancel_all"} /\ m.sym \in Syms(p)
        /\ m.kind = "order" => m \in BotOrders(p)
    BY <1>3 DEF Upward, BotOrders, Requests
  <2>. QED  BY <2>1 DEF Bot!ExchangeHandles
<1> HIDE DEF m
<1>5. SUFFICES /\ xpos' \in [Syms(p) -> Int] /\ down' \in Seq(Downward(p))
               /\ \/ m.kind = "order" /\ m \in BotOrders(p) /\ resting' \in SUBSET (resting \cup {m})
                  \/ m.kind = "close" /\ resting' = resting
                  \/ resting' = {}
  <2>1. BookInv(p)'
    BY <1>1, BookSame DEF BotInv, BookInv, BookTypes, BotStands
  <2>2. KillInv'
    <3>1. SUFFICES ASSUME killPc \in {"cancelled", "done"} PROVE CancelsEarly(up') /\ RestingCovered'
      BY <1>1 DEF BotInv, KillInv, BotStands
    <3>2. CancelsEarly(up) /\ RestingCovered
      BY <3>1 DEF BotInv, KillInv
    <3>3. CASE m.kind = "order" /\ m \in BotOrders(p) /\ resting' \in SUBSET (resting \cup {m})
      <4>1. ASSUME NEW o \in resting', ~o.late PROVE CancelIn(up')
        <5>1. CASE o = m
          BY <1>3, <3>2, <3>3, <4>1, <5>1 DEF IsEarly
        <5>2. CASE o \in resting
          BY <1>3, <3>2, <3>3, <4>1, <5>2 DEF IsCancel, RestingCovered
        <5>. QED  BY <3>3, <5>1, <5>2
      <4>. QED  BY <1>3, <3>2, <4>1 DEF RestingCovered
    <3>4. CASE m.kind = "close" /\ resting' = resting
      BY <1>3, <3>2, <3>4 DEF RestingCovered, IsCancel
    <3>5. CASE resting' = {}
      BY <1>3, <3>2, <3>5 DEF RestingCovered
    <3>. QED  BY <1>5, <3>3, <3>4, <3>5
  <2>3. resting' \in SUBSET BotOrders(p)
    BY <1>2, <1>5
  <2>. QED  BY <1>1, <1>3, <1>5, <2>1, <2>2, <2>3 DEF BotInv, WireTypes, LoopTypes, BotStands
<1>6. CASE m.kind = "order"
  <2>1. m \in BotOrders(p) /\ m.sym \in Syms(p) /\ m.qty \in Int \ {0}
    BY <1>4, <1>6 DEF BotOrders, Quantities
  <2>2. \A k \in {"FILLED", "PENDING", "REJECTED"} : Bot(p)!Msg(k, m.sym, m.qty) \in Downward(p)
    BY <2>1, MessageTypes
  <2>3. /\ \/ xpos' = [xpos EXCEPT ![m.sym] = @ + m.qty]
           \/ xpos' = xpos
        /\ resting' \in SUBSET (resting \cup {m})
        /\ \/ \E k \in {"FILLED", "PENDING", "REJECTED"} : down' = Append(down, Bot(p)!Msg(k, m.sym, m.qty))
           \/ down' = down
    BY <1>4, <1>6 DEF Bot!HandleOrder, Bot!exchange
  <2>4. xpos' \in [Syms(p) -> Int]
    BY <1>2, <2>1, <2>3
  <2>5. down' \in Seq(Downward(p))
    BY <1>2, <2>2, <2>3, AnswersKeep
  <2>. QED  BY <1>6, <2>1, <2>3, <2>4, <2>5
<1>7. CASE m.kind = "close"
  <2>1. PICK s \in Syms(p) : s = m.sym
    BY <1>4, <1>7
  <2>2. xpos[s] \in Int /\ (xpos[s] # 0 => -xpos[s] \in Int \ {0})
    BY <1>2
  <2>3. /\ resting' = resting
        /\ \/ xpos[s] # 0 /\ xpos' = [xpos EXCEPT ![s] = 0] /\ down' = Append(down, Bot(p)!Msg("FILLED", s, -xpos[s]))
           \/ UNCHANGED <<xpos, down>>
    BY <1>4, <1>7, <2>1 DEF Bot!HandleClose, Bot!exchange
  <2>4. xpos' \in [Syms(p) -> Int]
    BY <1>2, <2>3
  <2>5. down' \in Seq(Downward(p))
    BY <1>2, <2>2, <2>3, MessageTypes, AnswersKeep
  <2>. QED  BY <1>7, <2>3, <2>4, <2>5
<1>8. CASE m.kind = "cancel_all"
  <2>1. resting' = {} /\ xpos' = xpos /\ down' = Append(down, Bot(p)!Msg("CANCELLED_ALL", Bot(p)!NoSym, 0))
    BY <1>4, <1>8 DEF Bot!HandleCancelAll
  <2>2. Bot(p)!NoSym \in Syms(p) /\ 0 \in Int
    BY SymsFacts
  <2>3. down' \in Seq(Downward(p))
    BY <1>2, <2>1, <2>2, MessageTypes, AnswersKeep
  <2>. QED  BY <1>2, <2>1, <2>3
<1>. QED  BY <1>4, <1>6, <1>7, <1>8
-----------------------------------------------------------------------------
(* The receiver. *)

\* A fill: apply_fill.
LEMMA FillKeeps ==
  ASSUME NEW p \in BotParts, BookInv(p), NEW t \in Syms(p), NEW q \in Int \ {0}, Bot(p)!ApplyFill(t, q),
         overtaken' = overtaken
  PROVE  BookInv(p)'
<1>1. /\ pos \in [Syms(p) -> Int] /\ misses \in [Syms(p) -> 0..(MissLimit - 1)] /\ pos[t] \in Int
      /\ pending \in SUBSET Syms(p) /\ active \in SUBSET Syms(p) /\ closing \in SUBSET Syms(p)
  BY DEF BookInv, BookTypes
<1>2. ASSUME NEW v \in Int, pos' = [pos EXCEPT ![t] = v], pending' = pending \ {t},
             misses' = misses, closing' \in SUBSET Syms(p),
             \/ v # 0 /\ active' = active /\ (pos[t] # 0 \/ t \in pending)
             \/ v = 0 /\ pos[t] # 0 /\ active' = Bot(p)!ReleasedByClose(t)
      PROVE  BookInv(p)'
  <2>1. pos' \in [Syms(p) -> Int] /\ \A s \in Syms(p) : pos'[s] = IF s = t THEN v ELSE pos[s]
    BY <1>1, <1>2
  <2>2. active' = active \/ active' = active \ {t}
    BY <1>2 DEF Bot!ReleasedByClose
  <2>3. BookTypes(p)'
    BY <1>1, <1>2, <2>1, <2>2 DEF BookTypes
  <2>4. ASSUME NEW s \in Syms(p), s \notin overtaken PROVE (OrderOrPosition(s) /\ ActiveEngaged(s))'
    <3>1. OrderOrPosition(s) /\ ActiveEngaged(s)
      BY <2>4 DEF BookInv, BookAgrees
    <3>2. CASE s # t
      BY <1>2, <2>1, <2>2, <3>1, <3>2 DEF OrderOrPosition, ActiveEngaged
    <3>3. CASE s = t /\ v # 0
      BY <1>2, <2>1, <3>1, <3>3 DEF OrderOrPosition, ActiveEngaged
    <3>4. CASE s = t /\ v = 0
      BY <1>2, <2>1, <3>1, <3>4 DEF OrderOrPosition, ActiveEngaged, Bot!ReleasedByClose
    <3>. QED  BY <3>2, <3>3, <3>4
  <2>. QED  BY <2>3, <2>4 DEF BookInv, BookAgrees
<1> DEFINE a == pos[t]
<1>3. a \in Int
  BY <1>1
<1>4. CASE /\ pos[t] # 0 /\ Bot(p)!Sign(q) = Bot(p)!Sign(pos[t])
           /\ pos' = [pos EXCEPT ![t] = pos[t] + q] /\ pending' = pending \ {t}
           /\ UNCHANGED <<active, misses, closing>>
  <2>1. a # 0 /\ Bot(p)!Sign(q) = Bot(p)!Sign(a)
    BY <1>4
  <2> HIDE DEF a
  <2>2. a + q \in Int /\ a + q # 0
    BY <1>3, <2>1 DEF Bot!Sign
  <2>. QED  BY <1>1, <1>2, <1>4, <2>2 DEF a
<1>5. CASE /\ pos[t] # 0 /\ pending' = pending \ {t} /\ closing' = closing \ {t} /\ UNCHANGED misses
           /\ IF Bot(p)!Abs(q) < Bot(p)!Abs(pos[t])
              THEN pos' = [pos EXCEPT ![t] = pos[t] + q] /\ UNCHANGED active
              ELSE pos' = [pos EXCEPT ![t] = 0] /\ active' = Bot(p)!ReleasedByClose(t)
  <2>1. CASE Bot(p)!Abs(q) < Bot(p)!Abs(a)
    <3> HIDE DEF a
    <3>1. a + q \in Int /\ a + q # 0
      BY <1>3, <2>1 DEF Bot!Abs
    <3>. QED  BY <1>1, <1>2, <1>5, <2>1, <3>1 DEF a
  <2>2. CASE ~(Bot(p)!Abs(q) < Bot(p)!Abs(a))
    BY <1>1, <1>2, <1>5, <2>2
  <2>. QED  BY <2>1, <2>2
<1>6. CASE /\ pos[t] = 0 /\ t \in pending /\ pos' = [pos EXCEPT ![t] = q] /\ pending' = pending \ {t}
           /\ UNCHANGED <<active, misses, closing>>
  BY <1>1, <1>2, <1>6
<1>7. CASE UNCHANGED <<pos, pending, active, misses, closing>>
  BY <1>1, <1>7, BookSame
<1>. QED  BY <1>4, <1>5, <1>6, <1>7 DEF Bot!ApplyFill, Bot!Opens, Bot!book

\* The account broadcast: sync_position and reconcile_positions.
LEMMA AccountKeeps ==
  ASSUME NEW p \in BotParts, BookInv(p), NEW h \in [Syms(p) -> Int], Bot(p)!OnAccount(h), overtaken' = overtaken
  PROVE  BookInv(p)'
<1>1. /\ pos \in [Syms(p) -> Int] /\ misses \in [Syms(p) -> 0..(MissLimit - 1)] /\ MissLimit \in Nat \ {0}
      /\ pending \in SUBSET Syms(p) /\ active \in SUBSET Syms(p) /\ closing \in SUBSET Syms(p)
  BY BotAssumption DEF BookInv, BookTypes
<1> DEFINE miss == Bot(p)!Misses(h)
           held == Bot(p)!Synced(h)
           gone == Bot(p)!Ghosts(h)
<1>2. /\ pos' = [s \in Syms(p) |-> IF s \in gone THEN 0 ELSE held[s]]
      /\ misses' = [s \in Syms(p) |-> IF s \in gone THEN 0 ELSE miss[s]]
      /\ active' = (active \cup {s \in Syms(p) : pos'[s] # 0 /\ pos[s] = 0}) \ gone
      /\ closing' = closing \ gone /\ pending' = pending
  BY DEF Bot!OnAccount, Syms
<1>3. ASSUME NEW s \in Syms(p)
      PROVE  /\ miss[s] = IF h[s] # 0 THEN 0 ELSE IF pos[s] = 0 THEN misses[s] ELSE misses[s] + 1
             /\ miss[s] \in Nat /\ (s \in gone <=> miss[s] >= MissLimit)
  <2>1. miss[s] = IF h[s] # 0 THEN 0 ELSE IF pos[s] = 0 THEN misses[s] ELSE misses[s] + 1
    BY DEF Bot!Misses, Syms
  <2>2. misses[s] \in Nat
    BY <1>1
  <2>. QED  BY <2>1, <2>2 DEF Bot!Ghosts, Syms
<1>4. ASSUME NEW s \in Syms(p)
      PROVE  /\ held[s] \in Int
             /\ h[s] = 0 \/ (pos[s] = 0 /\ s \in pending) => held[s] = pos[s]
             /\ h[s] # 0 /\ ~(pos[s] = 0 /\ s \in pending) => held[s] # 0
  <2>1. held[s] = IF h[s] = 0 \/ (pos[s] = 0 /\ s \in pending) THEN pos[s]
                  ELSE IF pos[s] = 0 THEN h[s] ELSE Bot(p)!Sign(pos[s]) * Bot(p)!Abs(h[s])
    BY DEF Bot!Synced, Syms
  <2> DEFINE a == pos[s]
             b == h[s]
             c == Bot(p)!Sign(a) * Bot(p)!Abs(b)
  <2>2. a \in Int /\ b \in Int
    BY <1>1
  <2> HIDE DEF a, b
  <2>3. c \in Int /\ (b # 0 => c # 0)
    <3>1. Bot(p)!Sign(a) = 1 \/ Bot(p)!Sign(a) = -1
      BY DEF Bot!Sign
    <3>2. Bot(p)!Abs(b) \in Int /\ (b # 0 => Bot(p)!Abs(b) # 0)
      BY <2>2 DEF Bot!Abs
    <3> DEFINE d == Bot(p)!Abs(b)
    <3>3. c = d \/ c = -d
      BY <3>1, <3>2
    <3> HIDE DEF c, d
    <3>4. d \in Int /\ (b # 0 => d # 0)
      BY <3>2 DEF d
    <3>. QED  BY <3>3, <3>4
  <2> HIDE DEF c
  <2>. QED  BY <2>1, <2>2, <2>3 DEF a, b, c
<1>5. ASSUME NEW s \in Syms(p) PROVE s \in gone => h[s] = 0 /\ pos[s] # 0
  <2>1. misses[s] \in Nat /\ misses[s] < MissLimit
    BY <1>1
  <2>. QED  BY <1>1, <1>3, <2>1
<1> HIDE DEF miss, held, gone
<1>6. ASSUME NEW s \in Syms(p) PROVE pos'[s] \in Int /\ misses'[s] \in 0..(MissLimit - 1)
  BY <1>1, <1>2, <1>3, <1>4
<1>7. BookTypes(p)'
  <2>1. pos' \in [Syms(p) -> Int] /\ misses' \in [Syms(p) -> 0..(MissLimit - 1)]
    BY <1>2, <1>6
  <2>2. active' \in SUBSET Syms(p) /\ closing' \in SUBSET Syms(p) /\ pending' \in SUBSET Syms(p)
    BY <1>1, <1>2
  <2>. QED  BY <2>1, <2>2 DEF BookTypes
<1>8. ASSUME NEW s \in Syms(p), s \notin overtaken PROVE (OrderOrPosition(s) /\ ActiveEngaged(s))'
  <2>1. OrderOrPosition(s) /\ ActiveEngaged(s)
    BY <1>8 DEF BookInv, BookAgrees
  <2>2. CASE s \in gone
    <3>1. pos'[s] = 0 /\ s \notin active' /\ s \notin pending'
      BY <1>2, <1>5, <2>1, <2>2 DEF OrderOrPosition
    <3>. QED  BY <3>1 DEF OrderOrPosition, ActiveEngaged
  <2>3. CASE s \notin gone
    <3>1. pos'[s] = held[s] /\ (s \in active' <=> s \in active \/ (pos'[s] # 0 /\ pos[s] = 0)) /\ pending' = pending
      BY <1>2, <2>3
    <3>2. CASE s \in pending
      BY <1>4, <2>1, <3>1, <3>2 DEF OrderOrPosition, ActiveEngaged
    <3>3. CASE s \notin pending
      BY <1>4, <2>1, <3>1, <3>3 DEF OrderOrPosition, ActiveEngaged
    <3>. QED  BY <3>2, <3>3
  <2>. QED  BY <2>2, <2>3
<1>. QED  BY <1>7, <1>8 DEF BookInv, BookAgrees

\* The other answers.
LEMMA CancelledKeeps ==
  ASSUME NEW p \in BotParts, BookInv(p), NEW P \in SUBSET Syms(p), UNCHANGED <<pos, misses, overtaken>>,
         pending' = pending \ P, active' = active \ {s \in P : s \in pending /\ pos[s] = 0} \/ active' = active \ {s \in P : pos[s] = 0},
         closing' \in SUBSET Syms(p)
  PROVE  BookInv(p)'
<1>1. BookTypes(p)'
  BY DEF BookInv, BookTypes
<1>2. ASSUME NEW s \in Syms(p), s \notin overtaken PROVE (OrderOrPosition(s) /\ ActiveEngaged(s))'
  <2>1. OrderOrPosition(s) /\ ActiveEngaged(s)
    BY <1>2 DEF BookInv, BookAgrees
  <2>. QED  BY <2>1 DEF OrderOrPosition, ActiveEngaged
<1>. QED  BY <1>1, <1>2 DEF BookInv, BookAgrees

LEMMA ReceiveKeeps == ASSUME NEW p \in BotParts, BotInv(p), Bot(p)!Receive PROVE BotInv(p)'
<1> DEFINE m == Head(down)
<1>1. UNCHANGED <<xpos, resting, up, overtaken, sym, pc, killed, killPc>> /\ down # <<>> /\ down' = Tail(down)
  BY DEF Bot!Receive, Bot!exchange, Bot!loop, Bot!kill
<1>2. down' \in Seq(Downward(p)) /\ m \in Downward(p)
  BY <1>1, HeadTailProperties DEF BotInv, WireTypes
<1>3. WireTypes(p)' /\ KillInv' /\ LoopTypes(p)'
  BY <1>1, <1>2 DEF BotInv, WireTypes, LoopTypes, KillInv, RestingCovered
<1>4. /\ m.kind \in {"FILLED", "PENDING", "REJECTED", "CANCELLED", "CANCELLED_ALL", "account"}
      /\ m.kind = "FILLED" => m.sym \in Syms(p) /\ m.qty \in Int \ {0} /\ Bot(p)!ApplyFill(m.sym, m.qty)
      /\ m.kind = "PENDING" => UNCHANGED <<pos, pending, active, misses, closing>>
      /\ m.kind \in {"REJECTED", "CANCELLED"} =>
           /\ m.sym \in Syms(p) /\ UNCHANGED <<pos, misses>> /\ closing' = closing \ {m.sym} /\ pending' = pending \ {m.sym}
           /\ active' = IF pos[m.sym] # 0 THEN active ELSE active \ {m.sym}
      /\ m.kind = "CANCELLED_ALL" =>
           /\ UNCHANGED <<pos, misses, closing>> /\ pending' = {} /\ active' = active \ {s \in pending : pos[s] = 0}
      /\ m.kind = "account" => m.held \in [Syms(p) -> Int] /\ Bot(p)!OnAccount(m.held)
  <2>1. /\ m.kind \in {"FILLED", "PENDING", "REJECTED", "CANCELLED", "CANCELLED_ALL", "account"}
        /\ m.kind = "FILLED" => m.sym \in Syms(p) /\ m.qty \in Int \ {0}
        /\ m.kind \in {"REJECTED", "CANCELLED"} => m.sym \in Syms(p)
        /\ m.kind = "account" => m.held \in [Syms(p) -> Int]
    BY <1>2 DEF Downward, Fills, Answers, Accounts
  <2>. QED  BY <2>1 DEF Bot!Receive, Bot!CancelPending, Bot!book
<1> HIDE DEF m
<1>5. BookInv(p) /\ closing \in SUBSET Syms(p) /\ pending \in SUBSET Syms(p) /\ overtaken' = overtaken
  BY <1>1 DEF BotInv, BookInv, BookTypes
<1>6. BookInv(p)'
  <2>1. CASE m.kind = "FILLED"
    BY <1>4, <1>5, <2>1, FillKeeps
  <2>2. CASE m.kind = "PENDING"
    BY <1>4, <1>5, <2>2, BookSame
  <2>3. CASE m.kind \in {"REJECTED", "CANCELLED"}
    <3>1. PICK t \in Syms(p) : t = m.sym
      BY <1>4, <2>3
    <3>2. active' = active \ {s \in {t} : pos[s] = 0} /\ pending' = pending \ {t} /\ UNCHANGED <<pos, misses, overtaken>>
          /\ closing' \in SUBSET Syms(p) /\ {t} \in SUBSET Syms(p)
      BY <1>4, <1>5, <2>3, <3>1
    <3>. QED  BY <1>5, <3>2, CancelledKeeps
  <2>4. CASE m.kind = "CANCELLED_ALL"
    <3>1. pending' = pending \ Syms(p) /\ active' = active \ {s \in Syms(p) : s \in pending /\ pos[s] = 0}
          /\ UNCHANGED <<pos, misses, overtaken>> /\ closing' \in SUBSET Syms(p)
      BY <1>4, <1>5, <2>4
    <3>. QED  BY <1>5, <3>1, CancelledKeeps
  <2>5. CASE m.kind = "account"
    BY <1>4, <1>5, <2>5, AccountKeeps
  <2>. QED  BY <1>4, <2>1, <2>2, <2>3, <2>4, <2>5
<1>. QED  BY <1>3, <1>6 DEF BotInv

LEMMA BotSteps ==
  ASSUME NEW p \in BotParts, BotInv(p), [Bot(p)!Next]_botVars PROVE BotInv(p)'
<1>1. CASE UNCHANGED botVars
  BY <1>1 DEF botVars, BotInv, WireTypes, LoopTypes, BookInv, BookTypes, BookAgrees, OrderOrPosition, ActiveEngaged, KillInv,
         RestingCovered
<1>2. CASE \E s \in Syms(p) : Bot(p)!Submit(s) \/ Bot(p)!CloseExpires(s) \/ Bot(p)!StopsOut(s)
  BY <1>2, SubmitKeeps, ExpireKeeps, StopsKeeps
<1>3. CASE \E o \in resting : Bot(p)!RestingEnds(o)
  BY <1>3, RestingKeeps
<1>4. CASE (\E who \in {"loop", "monitor"} : Bot(p)!Activate(who)) \/ Bot(p)!CancelAll \/ Bot(p)!CloseAll
  BY <1>4, ActivateKeeps, CancelKeeps, CloseAllKeeps
<1>5. CASE Bot(p)!Top \/ Bot(p)!Risk \/ Bot(p)!SlTp \/ Bot(p)!AddPending \/ Bot(p)!TickEnds
  BY <1>5, LoopKeeps, SlTpKeeps, AddPendingKeeps
<1>6. CASE Bot(p)!ExchangeHandles \/ Bot(p)!OtherClients \/ Bot(p)!Broadcast \/ Bot(p)!Drop \/ Bot(p)!Receive
  BY <1>6, HandlesKeeps, OthersKeep, BroadcastKeeps, ReceiveKeeps
<1>. QED  BY <1>1, <1>2, <1>3, <1>4, <1>5, <1>6 DEF Bot!Next, Syms

\* What the properties ask for.
LEMMA BotSound == ASSUME NEW p \in BotParts, BotInv(p)
  PROVE Bot(p)!TypeOK /\ Bot(p)!EngagedIffActive /\ Bot(p)!KillCancelsEarlier
<1>1. Bot(p)!TypeOK
  BY DEF Bot!TypeOK, BotInv, WireTypes, LoopTypes, BookInv, BookTypes, BotOrders, Syms, Quantities
<1>2. Bot(p)!EngagedIffActive
  BY DEF Bot!EngagedIffActive, Bot!Engaged, BotInv, BookInv, BookAgrees, ActiveEngaged, Syms
<1>3. Bot(p)!KillCancelsEarlier
  BY DEF Bot!KillCancelsEarlier, Bot!CancelArrived, BotInv, KillInv, RestingCovered, CancelIn, IsCancel
<1>. QED  BY <1>1, <1>2, <1>3
-----------------------------------------------------------------------------
(* The bot, one part at a time. *)

\* The invariant of the part that is followed.
PartInv ==
  /\ part \in BotParts \cup ExecutorParts \cup SlotParts
  /\ part \in BotParts => BotInv(part)
  /\ part \in ExecutorParts => ThreadInv
  /\ part \in SlotParts => SlotInv(part) /\ WriterBound(part)

LEMMA PartStarts == Init => PartInv
<1> SUFFICES ASSUME Init PROVE PartInv
  OBVIOUS
<1>1. part \in BotParts \cup ExecutorParts \cup SlotParts
  BY DEF Init, BotParts, ExecutorParts, SlotParts
<1>2. ASSUME NEW p \in BotParts, part = p PROVE BotInv(p)
  <2>1. Bot(p)!Init
    BY <1>2 DEF Init, BotParts, Bot!Init, Bot!NoSym
  <2>. QED  BY <2>1, BotStarts
<1>4. ThreadInv
  BY ExecutorAssumption DEF Init, Executor!Init, ThreadInv, ThreadTypes, JoinerHolds, ShutdownSteps
<1>5. ASSUME NEW p \in SlotParts, part = p PROVE SlotInv(p) /\ WriterBound(p)
  <2>1. Slot(p)!Init
    <3>1. CASE p = "half"
      BY <1>5, <3>1 DEF Init, Slot!Init, Slot!Segments, Slot!Empty, Slot!Words
    <3>2. CASE p # "half"
      BY <1>5, <3>2 DEF Init, SlotParts
    <3>. QED  BY <3>1, <3>2
  <2>2. SlotInv(p)
    BY <2>1, SlotStarts
  <2>3. WriterBound(p)
    BY <2>1, SlotAssumption DEF WriterBound, Writes, Segments, Starts, Slot!Init, Slot!Segments, Slot!Empty
  <2>. QED  BY <2>2, <2>3
<1>. QED  BY <1>1, <1>2, <1>4, <1>5 DEF PartInv

LEMMA PartSteps == PartInv /\ [Next]_vars => PartInv'
<1> SUFFICES ASSUME PartInv, [Next]_vars PROVE PartInv'
  OBVIOUS
<1>1. part' = part
  BY DEF Next, vars
<1>2. \A p \in BotParts : part = p => [Bot(p)!Next]_botVars
  BY DEF Next, vars, BotParts
<1>3. \A p \in ExecutorParts : part = p => [Executor(p)!Next]_execVars
  BY DEF Next, vars, ExecutorParts
<1>4. \A p \in SlotParts : part = p => [Slot(p)!Next]_slotVars
  BY DEF Next, vars, SlotParts
<1>5. ASSUME NEW p \in BotParts, part = p PROVE BotInv(p)'
  BY <1>2, <1>5, BotSteps DEF PartInv
<1>6. part \in BotParts => BotInv(part)'
  BY <1>1, <1>5
<1>7. part \in ExecutorParts => ThreadInv'
  BY <1>3, ThreadSteps DEF PartInv
<1>8. ASSUME NEW p \in SlotParts, part = p PROVE SlotInv(p)' /\ WriterBound(p)'
  BY <1>4, <1>8, SlotSteps, BoundSteps DEF PartInv
<1>9. part \in SlotParts => SlotInv(part)' /\ WriterBound(part)'
  BY <1>1, <1>8
<1>. QED  BY <1>1, <1>6, <1>7, <1>9 DEF PartInv

\* The invariant is inductive.
LEMMA PartInvariant == Spec => []PartInv
  BY PartStarts, PartSteps, PTL DEF Spec

(***************************************************************************)
(* The symbols in active_symbols_ are those with a position or a pending   *)
(* order, whatever the symbols, the number of orders, of lost messages and *)
(* of messages about other clients' orders, through closes by the exchange *)
(* and the kill switch; except a symbol that had a position when           *)
(* add_pending_order recorded an order for it.                             *)
(***************************************************************************)
THEOREM EngagedExactly == Spec => []EngagedIffActive
<1>1. PartInv => EngagedIffActive
  BY BotSound DEF PartInv, EngagedIffActive, BotParts
<1>. QED  BY <1>1, PartInvariant, PTL

(***************************************************************************)
(* Once the cancel of all orders that activate() sent has reached the      *)
(* exchange, no order rests there that was sent before the activation,     *)
(* whichever thread activates and wherever the loop's tick was: the flag   *)
(* is set before the cancel, and both use the one connection.              *)
(***************************************************************************)
THEOREM KillCancels == Spec => []KillCancelsEarlier
<1>1. PartInv => KillCancelsEarlier
  BY BotSound DEF PartInv, KillCancelsEarlier, BotParts
<1>. QED  BY <1>1, PartInvariant, PTL

(***************************************************************************)
(* After disconnect() has returned no client thread runs and no sleeper is *)
(* about to start one, for every backoff, with refused attempts, and with  *)
(* threads that sit in a handler for as long as they like.                 *)
(***************************************************************************)
THEOREM DisconnectIsFinal == Spec => []DownStaysDown
<1>1. PartInv => DownStaysDown
  BY DEF PartInv, ExecutorParts, ThreadInv, ThreadTypes, ShutdownSteps, DownStaysDown, Executor!TypeOK, Executor!DownStaysDown
<1>. QED  BY <1>1, PartInvariant, PTL

(***************************************************************************)
(* schedule_reconnect on two threads and disconnect() exclude one another: *)
(* reconnect_mtx_ is held exactly by the thread that joins the sleeper.    *)
(***************************************************************************)
THEOREM JoinsUnderTheLock == Spec => [](part \in ExecutorParts => JoinerHolds)
<1>1. PartInv => (part \in ExecutorParts => JoinerHolds)
  BY DEF PartInv, ThreadInv
<1>. QED  BY <1>1, PartInvariant, PTL

(***************************************************************************)
(* A snapshot that read_snapshot accepts has both its words from the same  *)
(* write, for any number of writes, when the writer crashes in the middle  *)
(* of one and when it closes and starts again; and the sequence number of  *)
(* a segment is at most twice the number of writes.                        *)
(***************************************************************************)
THEOREM SnapshotsAreWhole == Spec => []NotTorn
<1> SUFFICES PartInv => NotTorn
  BY PartInvariant, PTL
<1>1. ASSUME NEW p \in SlotParts, SlotInv(p), WriterBound(p) PROVE Slot(p)!TypeOK /\ Slot("slot")!NotTorn
  <2>1. \A s \in Segments(p) : seg[s].seq \in Nat
    BY <1>1 DEF SlotInv, SlotTypes, Slots
  <2>2. Writes(p) \in Nat /\ writes \in Nat /\ writes <= Writes(p) /\ Starts(p) \in Nat \ {0}
    BY <1>1, SlotAssumption DEF Writes, Starts, WriterBound, SlotInv, SlotTypes
  <2>3. \A s \in Segments(p) : seg[s].seq \in 0..(2 * Writes(p))
    BY <1>1, <2>1, <2>2 DEF WriterBound
  <2>4. Slot(p)!TypeOK
    BY <1>1, <2>2, <2>3 DEF Slot!TypeOK, SlotInv, SlotTypes, Slot!Segments, Segments, Starts, Writes, SlotWords, Slot!Words
  <2>5. Slot("slot")!NotTorn
    BY <1>1 DEF Slot!NotTorn, SlotInv, Whole
  <2>. QED  BY <2>4, <2>5
<1>. QED  BY <1>1 DEF PartInv, NotTorn, SlotParts
=============================================================================
