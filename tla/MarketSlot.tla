------------------------------ MODULE MarketSlot ------------------------------
(***************************************************************************)
(* One slot of the shared segment /hft_market: written by the Python bot   *)
(* (communication/shm_market_data_writer.py), read by the C++ bot          *)
(* (ipc/shm_market_data.h, polled by core/bot_loop.cpp).  A snapshot is    *)
(* two words with the same number; the sequence number is odd while it is  *)
(* written.  The writer may close (the file is removed), crash (the file   *)
(* stays) and start again; the reader maps the file once.                  *)
(***************************************************************************)
EXTENDS Naturals

CONSTANTS MaxWrites, MaxStarts,  \* bounds
          Crashes,               \* may the writer crash?
          Sinks                  \* may the copy of the data sink below the second load of seq?

Words == {1, 2}
Segments == 1..MaxStarts
Empty == [seq |-> 0, word |-> [w \in Words |-> 0]]

VARIABLES
  seg,                  \* the segments; a removed file keeps its memory while it is mapped
  file, mapped,         \* segment of the file (0: none), segment of the reader
  wpc, base, todo,      \* writer: step, seq read at the start, words still to write
  writes, starts,
  rpc, seq1, loaded, copy, \* reader: step, first seq, what was loaded, the copy
  accepted              \* the last copy read_snapshot returned true for

writer == <<wpc, base, todo, writes, starts>>
reader == <<rpc, seq1, loaded, copy, accepted>>
vars == <<seg, file, mapped, writer, reader>>

\* The first start has been made, and the reader has mapped its segment.
Init ==
  /\ seg = [s \in Segments |-> Empty] /\ file = 1 /\ mapped = 1
  /\ wpc = "idle" /\ base = 0 /\ todo = {} /\ writes = 0 /\ starts = 1
  /\ rpc = "idle" /\ seq1 = 0 /\ loaded = {} /\ copy = [seq |-> 0, word |-> [w \in Words |-> 0]]
  /\ accepted = [w \in Words |-> 0]

-----------------------------------------------------------------------------
(* The writer.  It always writes the segment it started with, `file`.       *)

WriteBegin ==
  /\ wpc = "idle" /\ writes < MaxWrites /\ writes' = writes + 1
  /\ base' = seg[file].seq /\ seg' = [seg EXCEPT ![file].seq = @ + 1]
  /\ wpc' = "data" /\ todo' = Words
  /\ UNCHANGED <<file, mapped, starts, reader>>

WriteWord(w) ==
  /\ wpc = "data" /\ w \in todo /\ todo' = todo \ {w}
  /\ seg' = [seg EXCEPT ![file].word[w] = writes]
  /\ UNCHANGED <<file, mapped, wpc, base, writes, starts, reader>>

WriteEnd ==
  /\ wpc = "data" /\ todo = {} /\ wpc' = "idle"
  /\ seg' = [seg EXCEPT ![file].seq = base + 2]
  /\ UNCHANGED <<file, mapped, base, todo, writes, starts, reader>>

\* close() removes the file.
Close ==
  /\ wpc = "idle" /\ starts < MaxStarts /\ wpc' = "off" /\ file' = 0
  /\ UNCHANGED <<seg, mapped, base, todo, writes, starts, reader>>

Crash ==
  /\ Crashes /\ wpc \in {"idle", "data"} /\ wpc' = "off"
  /\ UNCHANGED <<seg, file, mapped, base, todo, writes, starts, reader>>

\* init() opens the file or makes another, and clears it.
Start ==
  /\ wpc = "off" /\ starts < MaxStarts /\ wpc' = "idle" /\ starts' = starts + 1 /\ todo' = {}
  /\ file' = IF file = 0 THEN starts + 1 ELSE file
  /\ seg' = [seg EXCEPT ![file'] = Empty]
  /\ UNCHANGED <<mapped, base, writes, reader>>

-----------------------------------------------------------------------------
(* read_snapshot *)

\* Mutant: the test of the parity is the wrong way round.
ReadableOdd(s) == s % 2 = 1
Readable(s) == s # 0 /\ s % 2 = 0

ReadBegin ==
  /\ rpc = "idle" /\ Readable(seg[mapped].seq)
  /\ seq1' = seg[mapped].seq /\ rpc' = "copy" /\ loaded' = {}
  /\ UNCHANGED <<seg, file, mapped, writer, copy, accepted>>

ReadWord(w) ==
  /\ rpc = "copy" /\ w \notin loaded /\ loaded' = loaded \cup {w}
  /\ copy' = [copy EXCEPT !.word[w] = seg[mapped].word[w]]
  /\ UNCHANGED <<seg, file, mapped, writer, rpc, seq1, accepted>>

ReadSeq ==
  /\ rpc = "copy" /\ 0 \notin loaded /\ (Sinks \/ Words \subseteq loaded)
  /\ loaded' = loaded \cup {0} /\ copy' = [copy EXCEPT !.seq = seg[mapped].seq]
  /\ UNCHANGED <<seg, file, mapped, writer, rpc, seq1, accepted>>

\* Mutant: the copy is used whatever the second sequence number says.
ConsistentAlways == TRUE
Consistent == copy.seq = seq1

ReadEnd ==
  /\ rpc = "copy" /\ loaded = Words \cup {0} /\ rpc' = "idle"
  /\ accepted' = IF Consistent THEN copy.word ELSE accepted
  /\ UNCHANGED <<seg, file, mapped, writer, seq1, loaded, copy>>

-----------------------------------------------------------------------------
WriterStep == WriteBegin \/ (\E w \in Words : WriteWord(w)) \/ WriteEnd
ReaderStep == ReadBegin \/ (\E w \in Words : ReadWord(w)) \/ ReadSeq \/ ReadEnd
Next == WriterStep \/ Close \/ Crash \/ Start \/ ReaderStep

\* Both programs run; a writer that stopped is started again.
Spec == Init /\ [][Next]_vars /\ WF_vars(WriterStep) /\ WF_vars(Start) /\ WF_vars(ReaderStep)

-----------------------------------------------------------------------------
(* The words of the slot, the sequence number and the program counters of  *)
(* the writer and the reader stay in their ranges.                         *)
TypeOK ==
  /\ file \in 0..MaxStarts /\ mapped \in Segments /\ wpc \in {"idle", "data", "off"} /\ todo \subseteq Words
  /\ rpc \in {"idle", "copy"} /\ loaded \subseteq Words \cup {0}
  /\ \A s \in Segments : seg[s].seq \in 0..(2 * MaxWrites)

(***************************************************************************)
(* A snapshot read_snapshot returns is one that was written: both words    *)
(* come from the same write.                                               *)
(***************************************************************************)
NotTorn == accepted[1] = accepted[2]

(***************************************************************************)
(* The latest snapshot wins: a snapshot that was written is read, or a     *)
(* later one is.                                                           *)
(***************************************************************************)
Unread(k) == writes >= k /\ accepted[1] < k
LatestRead == \A k \in 1..MaxWrites : Unread(k) ~> ~Unread(k)
=============================================================================
