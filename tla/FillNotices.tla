----------------------------- MODULE FillNotices -----------------------------
(***************************************************************************)
(* What tells the user of fills: the list of the last fills                *)
(* (useExchangeData.js), the toast and sound for a new one                 *)
(* (useNotifications.js), the webhooks and the daily summary of            *)
(* AlertWebhook.jsx, and the mute button of NotificationCenter.jsx.        *)
(* The exchange reports an order when it is accepted, in a "fill" message  *)
(* also when it rests, and again, with the same id, when the engine fills  *)
(* it, in a "fills_batch".  Effects run at renders; several messages can   *)
(* arrive before one.                                                      *)
(***************************************************************************)
EXTENDS Naturals, Sequences, FiniteSets, SequencesExt

CONSTANTS MaxOrders,    \* bound: orders
          MaxBatch,     \* bound: orders of one batch
          MaxDays,      \* bound: midnights
          FillCap,      \* fills kept (50)
          SeenCap,      \* keys remembered before the set is cut (500)
          SeenKeep      \* keys left by the cut (200)

VARIABLES status,       \* status[o]: "none", "PENDING" or "FILLED"
          fills,        \* the last fills, newest first
          rendered,     \* the effects have run since the last message
          head,         \* prevFillHead: key of the newest fill last seen
          toasted,      \* orders a toast was shown for
          muted,        \* the notification centre shows "Unmute"
          hook,         \* the webhook panel is open, with a webhook for all events
          seen,         \* seenFillsRef, in the order of insertion
          sent,         \* orders reported to the webhook, in order
          day,          \* today
          dayFills,     \* dayFillsRef
          reported,     \* reported[d]: fills reported on day d
          summaries     \* daily summaries sent

vars == <<status, fills, rendered, head, toasted, muted, hook, seen, sent, day, dayFills,
          reported, summaries>>

Orders == 1 .. MaxOrders
NoHead == 0
Days == 1 .. MaxDays
NoDay == 0
Entry == [id : Orders, status : {"PENDING", "FILLED"}]

TypeOK ==
  /\ status \in [Orders -> {"none", "PENDING", "FILLED"}]
  /\ ToSet(fills) \subseteq Entry /\ Len(fills) <= FillCap
  /\ Len(seen) <= SeenCap /\ toasted \subseteq Orders
  /\ dayFills \in [date : {NoDay} \cup Days, count : Nat]

Init ==
  /\ status = [o \in Orders |-> "none"] /\ fills = <<>> /\ rendered = TRUE
  /\ head = NoHead /\ toasted = {} /\ muted = FALSE
  /\ hook = FALSE /\ seen = <<>> /\ sent = <<>>
  /\ day = 1 /\ dayFills = [date |-> NoDay, count |-> 0]
  /\ reported = [d \in Days |-> 0] /\ summaries = <<>>

-----------------------------------------------------------------------------
(* Messages of the exchange. *)

Newest(list, n) == SubSeq(list, 1, IF Len(list) < n THEN Len(list) ELSE n)

\* New entries go to the front; the list is cut.
Received(entries) ==
  /\ fills' = Newest(entries \o fills, FillCap)
  /\ rendered' = FALSE
  /\ UNCHANGED <<head, toasted, muted, hook, seen, sent, day, dayFills, reported, summaries>>

\* The reply to an order: filled at once, or resting.
FillMessage(o, st) ==
  /\ status[o] = "none" /\ \A p \in Orders : p < o => status[p] # "none"
  /\ status' = [status EXCEPT ![o] = st]
  /\ Received(<<[id |-> o, status |-> st]>>)

\* A finite set of numbers as an increasing list.
Sorted(K) ==
  CHOOSE s \in [1 .. Cardinality(K) -> K] : \A i, j \in DOMAIN s : i < j => s[i] < s[j]

\* The engine fills resting orders.
FillsBatch(S) ==
  /\ S # {} /\ Cardinality(S) <= MaxBatch /\ \A o \in S : status[o] = "PENDING"
  /\ status' = [o \in Orders |-> IF o \in S THEN "FILLED" ELSE status[o]]
  /\ LET ids == Sorted(S)
     IN Received([i \in DOMAIN ids |-> [id |-> ids[i], status |-> "FILLED"]])

-----------------------------------------------------------------------------
(* Effects. *)

\* "Notify on new fills": the newest one, when its key is new and it is filled.
\* The sound is played with the toast; the mute button is not asked.
Notify == fills # <<>> /\ fills[1].id # head /\ fills[1].status = "FILLED"

Toast ==
  /\ toasted' = IF Notify THEN toasted \cup {fills[1].id} ELSE toasted
  /\ head' = IF fills = <<>> THEN head ELSE fills[1].id

\* Where a key is met first, from the newest on; which of those are new, and filled.
KeysAt == {i \in DOMAIN fills : \A j \in 1 .. i - 1 : fills[j].id # fills[i].id}
NewAt == {i \in KeysAt : fills[i].id \notin ToSet(seen)}
NewFilledAt == {i \in NewAt : fills[i].status = "FILLED"}

\* The keys at these places, in their order.
Keys(K) == LET at == Sorted(K) IN [k \in DOMAIN at |-> fills[at[k]].id]

\* Mutant: the cut keeps half as many keys as there are fills.
CutShort(list) == IF Len(list) > SeenCap THEN SubSeq(list, Len(list) - (FillCap \div 2) + 1, Len(list)) ELSE list

\* The set of keys is cut to the last ones.
Cut(list) == IF Len(list) > SeenCap THEN SubSeq(list, Len(list) - SeenKeep + 1, Len(list)) ELSE list

\* Every fill whose key is new is marked, and reported if it is filled; the first
\* of a day starts a new count.
Webhooks ==
  IF ~hook THEN UNCHANGED <<seen, sent, dayFills, reported>>
  ELSE LET n == Cardinality(NewFilledAt)
       IN /\ seen' = Cut(seen \o Keys(NewAt))
          /\ sent' = sent \o Keys(NewFilledAt)
          /\ dayFills' = IF n = 0 THEN dayFills
                         ELSE [date |-> day, count |-> n + (IF dayFills.date = day THEN dayFills.count ELSE 0)]
          /\ reported' = [reported EXCEPT ![day] = @ + n]

Render ==
  /\ ~rendered /\ rendered' = TRUE
  /\ Toast /\ Webhooks
  /\ UNCHANGED <<status, fills, muted, hook, day, summaries>>

\* The webhook panel appears: the fills there are history.
OpenHooks ==
  /\ ~hook /\ rendered /\ hook' = TRUE
  /\ seen' = Keys(KeysAt)
  /\ UNCHANGED <<status, fills, rendered, head, toasted, muted, sent, day, dayFills, reported, summaries>>

ToggleSound ==
  /\ muted' = ~muted
  /\ UNCHANGED <<status, fills, rendered, head, toasted, hook, seen, sent, day, dayFills, reported, summaries>>

-----------------------------------------------------------------------------
(* Days. *)

Midnight ==
  /\ day < MaxDays /\ day' = day + 1
  /\ UNCHANGED <<status, fills, rendered, head, toasted, muted, hook, seen, sent, dayFills, reported, summaries>>

Over == hook /\ dayFills.date # NoDay /\ dayFills.date # day /\ dayFills.count > 0

\* The timer of a minute, when the count is of an earlier day.
DailySummary ==
  /\ Over /\ summaries' = Append(summaries, dayFills)
  /\ dayFills' = [date |-> day, count |-> 0]
  /\ UNCHANGED <<status, fills, rendered, head, toasted, muted, hook, seen, sent, day, reported>>

Next ==
  \/ Render \/ OpenHooks \/ ToggleSound \/ Midnight \/ DailySummary
  \/ \E o \in Orders, st \in {"PENDING", "FILLED"} : FillMessage(o, st)
  \/ \E S \in SUBSET Orders : FillsBatch(S)

\* The browser renders, and its timers run.
Spec == Init /\ [][Next]_vars /\ WF_vars(Render) /\ WF_vars(DailySummary)

-----------------------------------------------------------------------------
(***************************************************************************)
(* No order is reported to a webhook twice, although only the last keys    *)
(* are remembered: what the cut forgets is no longer among the fills.      *)
(***************************************************************************)
ReportedOnce == \A i, j \in DOMAIN sent : sent[i] = sent[j] => i = j

(***************************************************************************)
(* A daily summary is sent once and counts what was reported on its day.   *)
(***************************************************************************)
SummariesAreExact ==
  /\ \A i \in DOMAIN summaries : summaries[i].count = reported[summaries[i].date]
  /\ \A i, j \in DOMAIN summaries : summaries[i].date = summaries[j].date => i = j

(***************************************************************************)
(* A webhook for the event "Order Filled" hears of every order that is     *)
(* filled while the panel is open.                                         *)
(***************************************************************************)
EveryFillReported ==
  [][hook /\ Render => \A i \in DOMAIN fills : fills[i].status = "FILLED" /\ fills[i].id \notin ToSet(sent)
                          => \E j \in DOMAIN sent' : sent'[j] = fills[i].id]_vars

(***************************************************************************)
(* "Notify on new fills": every order that is filled gets its toast.       *)
(***************************************************************************)
EveryFillToasted == rendered => \A o \in Orders : status[o] = "FILLED" => o \in toasted

(***************************************************************************)
(* "Daily summary at UTC midnight": once a day with fills is over, its     *)
(* summary is sent.                                                        *)
(***************************************************************************)
EveryDaySummarised ==
  \A d \in Days : (hook /\ day > d /\ reported[d] > 0) ~> (\E i \in DOMAIN summaries : summaries[i].date = d)

(***************************************************************************)
(* After "Sound disabled" no fill is heard.                                *)
(***************************************************************************)
MutedIsSilent == [][Render => ~(muted /\ Notify)]_vars
=============================================================================
