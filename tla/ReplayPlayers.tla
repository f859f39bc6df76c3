--------------------------- MODULE ReplayPlayers ---------------------------
(***************************************************************************)
(* Three panels that play back what the feed has delivered while the feed  *)
(* goes on: MarketDepthReplay (candles), TickReplay (fills), TradeReplay   *)
(* (candles, fills and closed trades merged).  Each holds a position, a    *)
(* playing flag and an interval that an effect sets up again whenever one  *)
(* of its dependencies changes.  The feed broadcasts with a fixed period.  *)
(***************************************************************************)
EXTENDS Integers, Sequences, FiniteSets

CONSTANTS Player,      \* "depth", "tick" or "trade"
          Cap,         \* frames of slice(-100)
          MinFrames,   \* candles the depth replay needs (10)
          MaxEvents,   \* bound: events of the symbol the feed keeps
          FeedPeriod,  \* time units between two broadcasts
          Steps,       \* intervals the speed buttons choose, in time units
          MaxClicks    \* bound: clicks of the user

VARIABLES feed,        \* events of the selected symbol, oldest first
          position,    \* currentIdx, position, step
          playing, interval,
          armed,       \* time since the interval was set up, or Off
          quiet,       \* time since the last broadcast
          clicks

vars == <<feed, position, playing, interval, armed, quiet, clicks>>

Off == -1
Least(x, y) == IF x < y THEN x ELSE y
Greatest(x, y) == IF x > y THEN x ELSE y

-----------------------------------------------------------------------------
(* What is played. *)

IsCandle(e) == e.type = "candle"

\* The sort of TradeReplay uses c.time of a candle; candles of the wire carry
\* `timestamp`, so a candle's time is undefined and counts as 0.
TimeKey(e) == IF IsCandle(e) THEN 0 ELSE e.time

\* The places in the feed of its candles, and of the events that are played: the
\* last Cap candles, the fills, or everything.
CandlesOf(list) == {i \in DOMAIN list : IsCandle(list[i])}
Played(list) ==
  CASE Player = "depth" -> {i \in CandlesOf(list) : Cardinality({j \in CandlesOf(list) : j > i}) < Cap}
    [] Player = "tick" -> DOMAIN list \ CandlesOf(list)
    [] Player = "trade" -> DOMAIN list

\* Whether place j is played before place i: the trade replay sorts, and keeps the
\* order of equal times.
Earlier(list, j, i) ==
  LET tj == TimeKey(list[j])  ti == TimeKey(list[i])
  IN IF Player = "trade" /\ tj # ti THEN tj < ti ELSE j < i

Timeline(list) ==
  [k \in 1 .. Cardinality(Played(list)) |->
     list[CHOOSE i \in Played(list) : Cardinality({j \in Played(list) : Earlier(list, j, i)}) = k - 1]]

Total == Len(Timeline(feed))

\* Without enough candles the depth replay has no data and no interval.
HasData(list) == Player # "depth" \/ Cardinality(CandlesOf(list)) >= MinFrames

\* TickReplay clamps the position to the ticks there are.
Shown(p, n) == IF Player = "tick" THEN Least(p, Greatest(0, n - 1)) ELSE p

-----------------------------------------------------------------------------
Init == /\ feed = <<>> /\ position = (IF Player = "depth" THEN Off ELSE 0)
        /\ playing = FALSE /\ interval \in Steps /\ armed = Off /\ quiet = 0 /\ clicks = 0

\* The effect sets the interval up when playing, and not without data.
Arm(isPlaying, list) == IF isPlaying /\ HasData(list) THEN 0 ELSE Off

\* Dependencies on the data: the depth replay's is replayData, which every
\* broadcast makes anew; the others' is a length.
Restarts(old, new) == Player = "depth" \/ Len(Timeline(old)) # Len(Timeline(new))

\* One unit of time; a broadcast or an interval that is due comes first.
Clock ==
  /\ quiet < FeedPeriod /\ armed < interval
  /\ quiet' = quiet + 1 /\ armed' = (IF armed = Off THEN Off ELSE armed + 1)
  /\ UNCHANGED <<feed, position, playing, interval, clicks>>

\* A broadcast: with a new event, or with the ones that are there.  Fills
\* stand for closed trades too.
Broadcast ==
  /\ quiet = FeedPeriod /\ quiet' = 0
  /\ \E type \in {"candle", "fill"} :
       feed' = IF Len(feed) < MaxEvents THEN Append(feed, [type |-> type, time |-> Len(feed) + 1]) ELSE feed
  /\ armed' = IF Restarts(feed, feed') THEN Arm(playing, feed') ELSE armed
  /\ UNCHANGED <<position, playing, interval, clicks>>

\* The interval fires: one event further, or stop at the last.
Fire ==
  /\ armed # Off /\ armed = interval
  /\ IF position >= Total - 1 THEN playing' = FALSE /\ armed' = Off /\ UNCHANGED position
     ELSE position' = position + 1 /\ armed' = 0 /\ UNCHANGED playing
  /\ UNCHANGED <<feed, interval, quiet, clicks>>

Click == clicks < MaxClicks /\ clicks' = clicks + 1 /\ UNCHANGED quiet

\* The depth and trade replays start over at the end; the tick replay does not.
PlayPause ==
  /\ Click /\ HasData(feed) /\ (Player \in {"tick", "trade"} => Total > 0)
  /\ position' = IF Player # "tick" /\ (position < 0 \/ position >= Total - 1) THEN 0 ELSE position
  /\ playing' = ~playing /\ armed' = Arm(~playing, feed)
  /\ UNCHANGED <<feed, interval>>

Stop == playing' = FALSE /\ armed' = Off

handleStep ==
  /\ Click /\ HasData(feed) /\ Total > 0 /\ Stop
  /\ \E dir \in {-1, 1} : position' = Greatest(0, Least(Total - 1, position + dir))
  /\ UNCHANGED <<feed, interval>>

\* Start and End buttons of the tick replay, the scrubber of the depth
\* replay, handleJump(0) and handleJump(1) of the trade replay.
Jump ==
  /\ Click /\ HasData(feed) /\ Total > 0 /\ Stop
  /\ position' \in {0, IF Player = "trade" THEN Total ELSE Total - 1}
  /\ UNCHANGED <<feed, interval>>

setSpeed ==
  /\ Click /\ interval' \in Steps
  /\ armed' = IF interval' # interval THEN Arm(playing, feed) ELSE armed
  /\ UNCHANGED <<feed, position, playing>>

\* Another symbol, with fewer events; the position stays.
SelectSymbol ==
  /\ Click /\ feed' = SubSeq(feed, 1, Len(feed) \div 2)
  /\ armed' = IF Restarts(feed, feed') THEN Arm(playing, feed') ELSE armed
  /\ UNCHANGED <<position, playing, interval>>

Next == Clock \/ Broadcast \/ Fire \/ PlayPause \/ handleStep \/ Jump \/ setSpeed \/ SelectSymbol

\* Time passes, and the feed and the interval act when they are due.
Spec == Init /\ [][Next]_vars /\ WF_vars(Clock) /\ WF_vars(Broadcast) /\ WF_vars(Fire)

-----------------------------------------------------------------------------
TypeOK ==
  /\ position \in -1..MaxEvents /\ playing \in BOOLEAN /\ interval \in Steps
  /\ armed \in -1..interval /\ quiet \in 0..FeedPeriod

(***************************************************************************)
(* The interval runs exactly while the panel plays something: a pause, the *)
(* end of the events or a symbol without candles leaves no interval that   *)
(* moves the position, and a play button that shows "pause" is backed by   *)
(* one.                                                                    *)
(***************************************************************************)
IntervalIffPlaying == (armed # Off) <=> (playing /\ HasData(feed))

(***************************************************************************)
(* The event shown is one of the events there are (currentEvent, frame,    *)
(* currentTick are not undefined), whatever the feed dropped.              *)
(***************************************************************************)
ShownExists == Total > 0 => Shown(position, Total) < Total

(***************************************************************************)
(* Once the user leaves it alone, a replay that was started comes to its   *)
(* end and stops, although the feed goes on broadcasting.                  *)
(***************************************************************************)
PlaybackEnds == playing ~> ~playing

(***************************************************************************)
(* "Merge into timeline": the trade replay plays events in the order of    *)
(* their times.                                                            *)
(***************************************************************************)
TimelineInOrder == \A i \in 1..(Total - 1) : Timeline(feed)[i].time <= Timeline(feed)[i + 1].time
=============================================================================
