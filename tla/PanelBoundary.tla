--------------------------- MODULE PanelBoundary ---------------------------
(***************************************************************************)
(* What stands between a sidebar panel that cannot be drawn and the page:  *)
(* ChunkRetryBoundary.jsx around the lazily loaded panel, and              *)
(* PanelErrorBoundary.jsx around that.  React.lazy is external: it starts  *)
(* one import at the first render and remembers its outcome, a failure     *)
(* too.  One panel; the delays of the retry timers are not modelled.       *)
(***************************************************************************)
EXTENDS Naturals

CONSTANTS MaxRetries,  \* automatic retries (3)
          DisableAfter,\* errors before the panel may be disabled (3)
          MaxClicks,   \* bound: clicks of the user
          MaxChanges   \* bound: changes of the network and of the data

VARIABLES
  net,      \* the server of the chunks can be reached
  faulty,   \* the panel throws on the present data
  lazy,     \* React.lazy: unstarted, pending, resolved, rejected
  chunk,    \* the state of ChunkRetryBoundary
  timers,   \* its timers that are armed
  outer,    \* the state of PanelErrorBoundary
  asked,    \* history: the user asked for a retry and nothing has come of it
  autos,    \* history: automatic retries of this boundary
  manuals,  \* history: retries of this boundary that the user asked for
  clicks, changes

vars == <<net, faulty, lazy, chunk, timers, outer, asked, autos, manuals, clicks, changes>>

Fresh == [hasError |-> FALSE, retryCount |-> 0]

Init ==
  /\ net \in BOOLEAN /\ faulty = FALSE /\ lazy = "unstarted"
  /\ chunk = Fresh /\ timers = 0
  /\ outer = [hasError |-> FALSE, errorCount |-> 0, disabled |-> FALSE]
  /\ asked = FALSE /\ autos = 0 /\ manuals = 0 /\ clicks = 0 /\ changes = 0

-----------------------------------------------------------------------------
(* What is on the screen. *)

Mounted == ~outer.hasError /\ ~outer.disabled
Children == Mounted /\ ~chunk.hasError
Drawn == Children /\ lazy = "resolved" /\ ~faulty
LoadFailed == Mounted /\ chunk.hasError /\ chunk.retryCount >= MaxRetries
Loading == Mounted /\ ~LoadFailed /\ (chunk.hasError \/ lazy \in {"unstarted", "pending"})

-----------------------------------------------------------------------------
(* Rendering. *)

\* The first render starts the import.
StartImport ==
  /\ Children /\ lazy = "unstarted"
  /\ lazy' = "pending"
  /\ UNCHANGED <<net, faulty, chunk, timers, outer, asked, autos, manuals, clicks, changes>>

ImportEnds ==
  /\ lazy = "pending"
  /\ lazy' = IF net THEN "resolved" ELSE "rejected"
  /\ UNCHANGED <<net, faulty, chunk, timers, outer, asked, autos, manuals, clicks, changes>>

Caught(c) == [hasError |-> TRUE, retryCount |-> IF c.retryCount < MaxRetries THEN c.retryCount + 1 ELSE c.retryCount]

\* Mutant: no timer for the first retry, whose delay is 0.
ArmedIfDelayed(c) == c.retryCount < MaxRetries /\ c.retryCount > 0
Armed(c) == c.retryCount < MaxRetries

\* A chunk that failed to load throws; the inner boundary catches it.
ChunkThrows ==
  /\ Children /\ lazy = "rejected"
  /\ chunk' = Caught(chunk)
  /\ timers' = IF Armed(chunk) THEN timers + 1 ELSE timers
  /\ UNCHANGED <<net, faulty, lazy, outer, asked, autos, manuals, clicks, changes>>

RetryTimer ==
  /\ timers > 0
  /\ timers' = timers - 1
  /\ chunk' = [chunk EXCEPT !.hasError = FALSE]
  /\ autos' = IF chunk.hasError THEN autos + 1 ELSE autos
  /\ UNCHANGED <<net, faulty, lazy, outer, asked, manuals, clicks, changes>>

\* Any other error: the inner boundary renders the panel again, which throws again,
\* and the outer one catches it and takes the inner one down.
PanelThrows ==
  /\ Children /\ lazy = "resolved" /\ faulty
  /\ outer' = [outer EXCEPT !.hasError = TRUE, !.errorCount = @ + 1]
  /\ chunk' = Fresh /\ timers' = 0 /\ autos' = 0 /\ manuals' = 0
  /\ UNCHANGED <<net, faulty, lazy, asked, clicks, changes>>

-----------------------------------------------------------------------------
(* The user, the network and the data. *)

Click == clicks < MaxClicks /\ clicks' = clicks + 1

handleManualRetry ==
  /\ Click /\ LoadFailed
  /\ chunk' = Fresh /\ manuals' = manuals + 1 /\ asked' = TRUE
  /\ UNCHANGED <<net, faulty, lazy, timers, outer, autos, changes>>

handleReset ==
  /\ Click /\ outer.hasError
  /\ outer' = [outer EXCEPT !.hasError = FALSE]
  /\ UNCHANGED <<net, faulty, lazy, chunk, timers, asked, autos, manuals, changes>>

handleDisable ==
  /\ Click /\ outer.hasError /\ outer.errorCount >= DisableAfter
  /\ outer' = [outer EXCEPT !.hasError = FALSE, !.disabled = TRUE]
  /\ UNCHANGED <<net, faulty, lazy, chunk, timers, asked, autos, manuals, changes>>

ReEnable ==
  /\ Click /\ outer.disabled
  /\ outer' = [outer EXCEPT !.disabled = FALSE]
  /\ UNCHANGED <<net, faulty, lazy, chunk, timers, asked, autos, manuals, changes>>

Changes ==
  /\ changes < MaxChanges /\ changes' = changes + 1
  /\ \/ net' = ~net /\ asked' = FALSE /\ UNCHANGED faulty
     \/ faulty' = ~faulty /\ UNCHANGED <<net, asked>>
  /\ UNCHANGED <<lazy, chunk, timers, outer, autos, manuals, clicks>>

Next ==
  \/ StartImport \/ ImportEnds \/ ChunkThrows \/ RetryTimer \/ PanelThrows
  \/ handleManualRetry \/ handleReset \/ handleDisable \/ ReEnable \/ Changes

Spec == Init /\ [][Next]_vars

\* The browser ends imports, fires timers and renders; nobody needs to click.
LiveSpec ==
  /\ Spec
  /\ WF_vars(StartImport) /\ WF_vars(ImportEnds) /\ WF_vars(ChunkThrows)
  /\ WF_vars(RetryTimer) /\ WF_vars(PanelThrows)

-----------------------------------------------------------------------------
TypeOK ==
  /\ net \in BOOLEAN /\ faulty \in BOOLEAN
  /\ lazy \in {"unstarted", "pending", "resolved", "rejected"}
  /\ chunk \in [hasError : BOOLEAN, retryCount : 0..MaxRetries]
  /\ timers \in Nat
  /\ outer \in [hasError : BOOLEAN, errorCount : Nat, disabled : BOOLEAN]
  /\ autos \in Nat /\ manuals \in Nat /\ asked \in BOOLEAN

\* A chunk that cannot be loaded is tried again three times by itself and no more,
\* then three times for each time the user asks (ChunkRetryBoundary.componentDidCatch).
RetriesBounded == autos <= MaxRetries * (1 + manuals)

\* The skeleton is not for ever: the panel is drawn, or the user is told that it
\* failed, or it is left to the outer boundary.
LoadingEnds == Loading ~> ~Loading

\* While the outer boundary shows its error the panel is down, the inner boundary
\* starts anew, and an error never coexists with "Disabled".
OuterReplacesInner == (outer.hasError => chunk = Fresh /\ timers = 0 /\ ~outer.disabled)

\* "Chunk failed to load after 3 retries": it is said when they have been made.
FailedAfterRetries == LoadFailed => autos >= MaxRetries

\* "automatically retries with a cache-busting query param" and the Retry button:
\* a retry with the network up loads the panel.
RetryLoads == asked ~> (Drawn \/ ~net \/ faulty \/ ~asked)
=============================================================================
