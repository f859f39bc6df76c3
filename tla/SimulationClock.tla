-------------------------- MODULE SimulationClock --------------------------
(***************************************************************************)
(* Who decides how fast the simulation runs: the speed buttons of the      *)
(* header, the space bar and the replay panel of the browser (App.jsx,     *)
(* Header.jsx, useAppShortcuts.js, ReplayControls.jsx), and the exchange   *)
(* server that makes the candles (ws_message_handler.py, ws_broadcast.py). *)
(*                                                                         *)
(* One browser, one open connection with messages in order.  The server    *)
(* is one event loop: a handler and a stretch of the broadcast loop        *)
(* between two awaits are one step each.  Candles are numbered.            *)
(***************************************************************************)
EXTENDS Integers, Sequences, FiniteSets

CONSTANTS MaxCandles,  \* bound: candles the server makes
          MaxClicks,   \* bound: what the user does
          Controls     \* which of "speed", "space", "replay", "scrub" are used

VARIABLES
  paused, speedEvent, tickSpeed, offset,  \* _replay_paused, _speed_event, 1 / _tick_interval, _replay_offset
  loop,          \* where _broadcast_loop is: check, wait, woken, sleep
  made,          \* candles made so far
  up, down,      \* messages to the server and to the browser
  replayPaused, simSpeed,  \* what the browser believes and shows
  have,          \* candleMap
  scrubOffset, debounce,   \* ReplayControls: the slider, and the value its timer will send
  asked,         \* history: what the last use of the space bar asked for
  since,         \* history: candles made since the last pause
  clicks

server == <<paused, speedEvent, tickSpeed, offset, loop, made>>
panel  == <<scrubOffset, debounce>>
view   == <<replayPaused, simSpeed, have>>
vars   == <<server, up, down, view, panel, asked, since, clicks>>

Speeds == {0, 1, 2, 5}
NoTimer == -1

Init ==
  /\ paused = FALSE /\ speedEvent = TRUE /\ tickSpeed = 1 /\ offset = 0
  /\ loop = "check" /\ made = 1
  /\ up = <<>> /\ down = <<>>
  /\ replayPaused = FALSE /\ simSpeed = 1 /\ have = {1}
  /\ scrubOffset = 0 /\ debounce = NoTimer
  /\ asked = "nothing" /\ since = 0 /\ clicks = 0

-----------------------------------------------------------------------------
(* The server. *)

State(p) == [type |-> "replay_state", paused |-> p]

\* asyncio.Event.set wakes the task that waits, whatever happens next.
Wake(l) == IF l = "wait" THEN "woken" ELSE l

Pause ==
  /\ paused' = TRUE /\ speedEvent' = FALSE
  /\ down' = Append(down, State(TRUE))
  /\ since' = IF paused THEN since ELSE 0
  /\ UNCHANGED <<tickSpeed, offset, loop>>

Resume(answers) ==
  /\ paused' = FALSE /\ speedEvent' = TRUE /\ loop' = Wake(loop)
  /\ down' = down \o answers

\* A speed while running only changes the interval; speed_set is not read by the browser.
SetSpeed(s) ==
  IF s = 0 THEN Pause
  ELSE /\ tickSpeed' = s
       /\ IF paused THEN Resume(<<State(FALSE)>>) ELSE UNCHANGED <<paused, speedEvent, loop, down>>
       /\ UNCHANGED <<offset, since>>

\* The candle `offset` steps before the newest, if there is one.
Scrub(off) ==
  /\ offset' = off
  /\ down' = Append(down, [type |-> "candles", cs |-> {made - off} \cap 1..made])
  /\ UNCHANGED <<paused, speedEvent, tickSpeed, loop, since>>

\* Mutant: a resume is not answered.
ReplayQuietly(msg) ==
  CASE msg.action = "pause"  -> Pause
    [] msg.action = "resume" -> Resume(<<>>) /\ offset' = 0 /\ UNCHANGED <<tickSpeed, since>>
    [] OTHER                 -> Scrub(msg.offset)

Replay(msg) ==
  CASE msg.action = "pause"  -> Pause
    [] msg.action = "resume" -> Resume(<<State(FALSE)>>) /\ offset' = 0 /\ UNCHANGED <<tickSpeed, since>>
    [] OTHER                 -> Scrub(msg.offset)

Handle ==
  /\ up # <<>>
  /\ up' = Tail(up)
  /\ LET msg == Head(up) IN IF msg.type = "set_speed" THEN SetSpeed(msg.speed) ELSE Replay(msg)
  /\ UNCHANGED <<made, view, panel, asked, clicks>>

Check == loop' = IF paused THEN "wait" ELSE "sleep"

LoopChecks ==
  /\ loop = "check"
  /\ Check
  /\ UNCHANGED <<paused, speedEvent, tickSpeed, offset, made, up, down, view, panel, asked, since, clicks>>

LoopWoken ==
  /\ loop = "woken"
  /\ loop' = IF paused THEN "check" ELSE "sleep"
  /\ UNCHANGED <<paused, speedEvent, tickSpeed, offset, made, up, down, view, panel, asked, since, clicks>>

\* The sleep ends and the candle is made, whatever was decided during the sleep.
LoopMakes ==
  /\ loop = "sleep" /\ made < MaxCandles
  /\ loop' = "check" /\ made' = made + 1
  /\ down' = Append(down, [type |-> "candles", cs |-> {made + 1}])
  /\ since' = since + 1
  /\ UNCHANGED <<paused, speedEvent, tickSpeed, offset, up, view, panel, asked, clicks>>

-----------------------------------------------------------------------------
(* The browser. *)

Receive ==
  /\ down # <<>>
  /\ down' = Tail(down)
  /\ LET msg == Head(down) IN
     IF msg.type = "replay_state"
     THEN replayPaused' = msg.paused /\ UNCHANGED have
     ELSE have' = have \cup msg.cs /\ UNCHANGED replayPaused
  /\ UNCHANGED <<server, up, simSpeed, panel, asked, since, clicks>>

\* The effect of App that follows replayPaused.
OutOfStep == replayPaused # (simSpeed = 0)

Followed(p) == IF p THEN 0 ELSE 1

SyncEffect ==
  /\ OutOfStep
  /\ simSpeed' = Followed(replayPaused)
  /\ UNCHANGED <<server, up, down, replayPaused, have, panel, asked, since, clicks>>

Click(kind) == kind \in Controls /\ clicks < MaxClicks /\ clicks' = clicks + 1

handleSpeedChange(s) ==
  /\ Click("speed")
  /\ simSpeed' = s
  /\ up' = Append(up, [type |-> "set_speed", speed |-> s])
  /\ asked' = "nothing"
  /\ UNCHANGED <<server, down, replayPaused, have, panel, since>>

\* The space bar changes the number in the store and sends nothing.
SpaceBar ==
  /\ Click("space")
  /\ simSpeed' = IF simSpeed = 0 THEN 1 ELSE 0
  /\ asked' = IF simSpeed = 0 THEN "resume" ELSE "pause"
  /\ UNCHANGED <<server, up, down, replayPaused, have, panel, since>>

toggleReplay ==
  /\ Click("replay")
  /\ up' = Append(up, [type |-> "replay", action |-> IF replayPaused THEN "resume" ELSE "pause"])
  /\ asked' = "nothing"
  /\ UNCHANGED <<server, down, view, panel, since>>

MaxOffset == Cardinality(have) - 1

\* The slider and the two step buttons; the value is sent when the slider rests.
handleScrub(val) ==
  /\ Click("scrub") /\ replayPaused
  /\ scrubOffset' = val /\ debounce' = val
  /\ asked' = "nothing"
  /\ UNCHANGED <<server, up, down, view, since>>

ScrubTimer ==
  /\ debounce # NoTimer
  /\ up' = Append(up, [type |-> "replay", action |-> "scrub", offset |-> debounce])
  /\ debounce' = NoTimer
  /\ UNCHANGED <<server, down, view, scrubOffset, asked, since, clicks>>

\* The bounds are used up, or the loop waits and nobody acts.
Stop ==
  /\ (loop = "sleep" /\ made = MaxCandles) \/ loop = "wait"
  /\ up = <<>> /\ down = <<>>
  /\ clicks = MaxClicks /\ ~OutOfStep /\ debounce = NoTimer
  /\ UNCHANGED vars

Next ==
  \/ Handle \/ LoopChecks \/ LoopWoken \/ LoopMakes
  \/ Receive \/ SyncEffect
  \/ \E s \in Speeds : handleSpeedChange(s)
  \/ SpaceBar \/ toggleReplay
  \/ \E val \in 0..MaxOffset : handleScrub(val)
  \/ ScrubTimer
  \/ Stop

Spec == Init /\ [][Next]_vars

\* The event loops of server and browser run what is ready; users need not click.
LiveSpec ==
  /\ Spec
  /\ WF_vars(Handle) /\ WF_vars(LoopChecks) /\ WF_vars(LoopWoken) /\ WF_vars(LoopMakes)
  /\ WF_vars(Receive) /\ WF_vars(SyncEffect) /\ WF_vars(ScrubTimer)

-----------------------------------------------------------------------------
TypeOK ==
  /\ paused \in BOOLEAN /\ speedEvent \in BOOLEAN /\ tickSpeed \in Speeds \ {0}
  /\ offset \in 0..MaxCandles - 1 /\ loop \in {"check", "wait", "woken", "sleep"}
  /\ made \in 1..MaxCandles
  /\ replayPaused \in BOOLEAN /\ simSpeed \in Speeds /\ have \subseteq 1..made
  /\ scrubOffset \in 0..MaxCandles - 1 /\ debounce \in -1..MaxCandles - 1
  /\ asked \in {"nothing", "pause", "resume"} /\ clicks \in 0..MaxClicks

\* Nothing is under way: all messages are handled and the effect has run.
Quiet == up = <<>> /\ down = <<>> /\ ~OutOfStep /\ debounce = NoTimer

\* When nothing is under way the browser shows "Pause" exactly while the server is
\* paused: however speed buttons, space bar and replay panel were used, the
\* replay_state answers of _handle_set_speed and _handle_replay suffice.
PauseShown == Quiet => ((simSpeed = 0) = paused)

\* A pause stops the market after at most the candle whose sleep had begun: later
\* turns of _broadcast_loop see the flag.
AtMostOneAfterPause == paused => since <= 1

\* A resume reaches the waiting broadcast loop: it never waits while the simulation
\* is running (the event is set whenever the flag is cleared).
LeftWaiting == loop = "wait" /\ ~paused
LoopWakes == LeftWaiting ~> ~LeftWaiting

\* The browser settles: the effect of App does not fight with the buttons for ever.
Settles == <>[]Quiet

\* "Sync simSpeed when replay is paused/resumed": the speed shown is the server's.
SpeedShown == Quiet /\ ~paused => simSpeed = tickSpeed

\* The help overlay calls the space bar "Pause / resume simulation".
SpacePauses == Quiet => /\ (asked = "pause" => paused)
                        /\ (asked = "resume" => ~paused)

\* "Scrub: N candles back" is where the server is, while the panel shows it.
OffsetShown == Quiet /\ replayPaused => scrubOffset = offset

Newest == CHOOSE m \in have : \A c \in have : c <= m

\* "scrub to view history": the newest candle shown is the one scrubbed to.
HistoryShown == Quiet /\ replayPaused /\ scrubOffset = offset => Newest = made - offset
=============================================================================
