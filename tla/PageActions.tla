----------------------------- MODULE PageActions ----------------------------
(***************************************************************************)
(* The parts of the page with which the user acts and keeps records. They  *)
(* share no variable (localStorage keys, toasts and orders are each part's *)
(* own), so each behaviour of this specification follows one part, chosen  *)
(* at the start, while the others stand still.                             *)
(***************************************************************************)
EXTENDS Integers

CONSTANTS Lots, Prices, Balances, Leverages, Percents, Quantities,  \* the form and the
          DefaultBalance, ServerLeverage, Visible, Fields,           \* exchange's account
          MaxSubmits, FormActs,                    \* bounds: submissions, other events
          Symbols, First, SliceCounts, BotActs,    \* the execution bot, bound: clicks
          MaxPrice, MaxAlerts, MaxRuns, MaxToasts, MaxOthers,  \* price alerts and toasts
          MaxOrders, MaxBatch, MaxDays, FillCap, SeenCap, SeenKeep,  \* fills and webhooks
          Tags, Window, Winning, Flat, MaxTrades, JournalActs,       \* the journal
          Tabs, TabNames, TabRows, TabTicks, TabTimers,  \* saved backtests, several tabs
          Tab, Names, MaxRows, MaxTicks, MaxTimers,      \* the same in one tab
          MaxSaves, Keep                                 \* and in both

ASSUME FormAssumption ==
  /\ Lots \in Nat /\ Prices \subseteq Nat \ {0} /\ Balances \subseteq Nat /\ Percents \subseteq Nat
  /\ Quantities \subseteq Nat /\ DefaultBalance \in Nat
  /\ MaxSubmits \in Nat /\ FormActs \in Nat
ASSUME BotAssumption ==
  First \in Symbols /\ SliceCounts \subseteq Nat /\ BotActs \in Nat
ASSUME AlertsAssumption ==
  MaxPrice \in Nat /\ MaxAlerts \in Nat /\ MaxRuns \in Nat \ {0} /\ MaxToasts \in Nat \ {0}
\* What the cut of the keys leaves covers the fills, those of now and of before.
ASSUME FillsAssumption ==
  /\ MaxOrders \in Nat /\ MaxBatch \in Nat /\ MaxDays \in Nat \ {0} /\ FillCap \in Nat \ {0}
  /\ SeenCap \in Nat /\ SeenKeep \in Nat
  /\ 2 * FillCap - 1 <= SeenKeep /\ SeenKeep <= SeenCap
ASSUME JournalAssumption ==
  MaxTrades \in Nat /\ JournalActs \in Nat /\ Window \in Nat
ASSUME TabsAssumption ==
  /\ MaxSaves \in Nat /\ Keep \in Nat \ {0}
  /\ TabRows \in Nat /\ TabTicks \in Nat /\ TabTimers \in Nat
  /\ MaxRows \in Nat /\ MaxTicks \in Nat /\ MaxTimers \in Nat

VARIABLE part  \* the part that this behaviour follows

\* OrderForm and what an order goes through
VARIABLES orderType, filled, quantity, leverage, trailing, price, balance, isOpen,
          connected, trading, tradingActive, submitting, lastMsg, clears, orders, promise,
          up, down, result, acts
formVars == <<orderType, filled, quantity, leverage, trailing, price, balance, isOpen,
              connected, trading, tradingActive, submitting, lastMsg, clears, orders,
              promise, up, down, result, acts>>

\* ExecutionBot
VARIABLES strategy, slices, symbol, botConnected, running, done, sliceIdx, prices,
          intervals, intervalRef, started, order, sent, planned, mounted, botActs
execVars == <<strategy, slices, symbol, botConnected, running, done, sliceIdx, prices,
              intervals, intervalRef, started, order, sent, planned, mounted, botActs>>

\* PriceAlerts, its toasts and webhooks
VARIABLES alertSymbol, alertPrice, alerts, made, triggered, queued, runs, turn, fired,
          toasts, others, hook, seen, alertSent
alertVars == <<alertSymbol, alertPrice, alerts, made, triggered, queued, runs, turn, fired,
               toasts, others, hook, seen, alertSent>>

\* the notices of fills
VARIABLES status, fills, rendered, head, toasted, muted, fillHook, fillSeen, fillSent, day,
          dayFills, reported, summaries
fillVars == <<status, fills, rendered, head, toasted, muted, fillHook, fillSeen, fillSent,
              day, dayFills, reported, summaries>>

\* the journal of trades
VARIABLES closed, journalMounted, data, storage, editing, draft, filterTag, filterWin,
          saved, unseen, lost, journalActs
journalVars == <<closed, journalMounted, data, storage, editing, draft, filterTag,
                 filterWin, saved, unseen, lost, journalActs>>

\* the saved backtests
VARIABLES store, btSaved, ticked, rows, rowsTicked, event, unsaved, compare, saves, gone
savedVars == <<store, btSaved, ticked, rows, rowsTicked, event, unsaved, compare, saves,
               gone>>

Form == INSTANCE OrderForm WITH Typed <- Quantities, MaxActs <- FormActs

Bot == INSTANCE ExecutionBot WITH
  connected <- botConnected, acts <- botActs, MaxActs <- BotActs

Alerts == INSTANCE PriceAlerts WITH
  symbol <- alertSymbol, price <- alertPrice, sent <- alertSent

Fills == INSTANCE FillNotices WITH
  hook <- fillHook, seen <- fillSeen, sent <- fillSent

Journal == INSTANCE TradeJournal WITH
  mounted <- journalMounted, acts <- journalActs, MaxActs <- JournalActs

TwoTabs == INSTANCE SavedBacktests WITH
  saved <- btSaved, Names <- TabNames, MaxRows <- TabRows, MaxTicks <- TabTicks,
  MaxTimers <- TabTimers, Quota <- FALSE
OneTab == INSTANCE SavedBacktests WITH saved <- btSaved, Tabs <- {Tab}, Quota <- TRUE

vars == <<part, formVars, execVars, alertVars, fillVars, journalVars, savedVars>>

Init ==
  /\ part \in {"form", "bot", "alerts", "fills", "journal", "tabs", "one"}
  /\ Form!Init /\ (part # "form" => quantity = 0)
  /\ Bot!Init /\ (part # "bot" => slices = 0)
  /\ Alerts!Init /\ (part # "alerts" => alertSymbol = First)
  /\ Fills!Init
  /\ Journal!Init /\ (part # "journal" => journalMounted = {})
  /\ IF part = "one" THEN OneTab!Init ELSE TwoTabs!Init

\* The parts that are not followed stand still.
Next ==
  \/ part = "form" /\ Form!Next
     /\ UNCHANGED <<part, execVars, alertVars, fillVars, journalVars, savedVars>>
  \/ part = "bot" /\ Bot!Next
     /\ UNCHANGED <<part, formVars, alertVars, fillVars, journalVars, savedVars>>
  \/ part = "alerts" /\ Alerts!Next
     /\ UNCHANGED <<part, formVars, execVars, fillVars, journalVars, savedVars>>
  \/ part = "fills" /\ Fills!Next
     /\ UNCHANGED <<part, formVars, execVars, alertVars, journalVars, savedVars>>
  \/ part = "journal" /\ Journal!Next
     /\ UNCHANGED <<part, formVars, execVars, alertVars, fillVars, savedVars>>
  \/ part = "tabs" /\ TwoTabs!Next
     /\ UNCHANGED <<part, formVars, execVars, alertVars, fillVars, journalVars>>
  \/ part = "one" /\ OneTab!Next
     /\ UNCHANGED <<part, formVars, execVars, alertVars, fillVars, journalVars>>

\* Each part has the fairness of its own specification.
Fairness ==
  /\ WF_formVars(part = "form" /\ Form!CloseSeen)
  /\ WF_formVars(part = "form" /\ Form!Reopen)
  /\ \A id \in 1..MaxSubmits : WF_formVars(part = "form" /\ Form!AckTimeout(id))
  /\ \A k \in 1..BotActs : WF_execVars(part = "bot" /\ \E iv \in intervals : iv.id = k /\ Bot!Tick(iv))
  /\ \A t \in Tabs : WF_savedVars(part = "tabs" /\ TwoTabs!StorageEvent(t))
  /\ WF_savedVars(part = "one" /\ OneTab!CompareTimeout(Tab))

Spec == Init /\ [][Next]_vars /\ Fairness

-----------------------------------------------------------------------------
(***************************************************************************)
(* Orders of the page.  The form has one order under way, what it says of  *)
(* an order is what the exchange did with that order, and it sends no      *)
(* trailing stop with the flag off; a run of the execution bot sends no    *)
(* slice too many, and none after Stop, its end or its panel's removal.    *)
(***************************************************************************)
OrdersUnderControl ==
  /\ [](part = "form" =>
         Form!TypeOK /\ Form!OneOrderUnderWay /\ Form!AnswerIsItsOwn /\ Form!TrailingOnlyWithFlag)
  /\ [](part = "bot" => Bot!TypeOK /\ Bot!NeverTooMany)
  /\ [][part = "bot" => Bot!SliceNeedsRun]_vars

(***************************************************************************)
(* What the user is told.  A price alert is announced for one hit of its   *)
(* life (but for that one in as many runs of its effect as React lets      *)
(* follow each other), and once React has settled none that is active is   *)
(* hit by the price on the screen or was announced before; a fill is       *)
(* reported to the webhooks at most once although old keys are forgotten,  *)
(* and a daily summary is sent once and counts its own day.                *)
(***************************************************************************)
NoticesExact ==
  /\ part = "alerts" =>
       Alerts!TypeOK /\ Alerts!OneHitEach /\ Alerts!ActiveIsNotHit /\ Alerts!TriggeredIsListed
  /\ part = "fills" => Fills!TypeOK /\ Fills!ReportedOnce /\ Fills!SummariesAreExact

(***************************************************************************)
(* What the user saved is kept and shown.  A note on a trade stays in the  *)
(* journal and in its view through edits, new trades and reloads, unless   *)
(* a view that was already on the page when the note was saved elsewhere   *)
(* saves later (both panels are on the page by default), or its own write  *)
(* fails; a view does not show what was saved elsewhere while it was on    *)
(* the page; the exported file is a table.  Saved backtests are shown in   *)
(* both panels of every tab that has heard of the last write, and none is  *)
(* lost by a single tab unless it was deleted or pushed out.               *)
(***************************************************************************)
SavedIsShown ==
  /\ part = "journal" => Journal!TypeOK /\ Journal!SavedIsStored /\ Journal!SavedIsShown
                       /\ Journal!CsvIsTable
  /\ part = "tabs" => TwoTabs!TypeOK /\ TwoTabs!TabsShowTheStore
  /\ part = "one" => OneTab!TypeOK /\ OneTab!TabsShowTheStore /\ OneTab!NoBacktestLost

(***************************************************************************)
(* What the user waits for ends: the form comes back from "submitting", a  *)
(* run of the bot and a comparison end, and a tab that shows another list  *)
(* than the stored one catches up.                                         *)
(***************************************************************************)
Waiting(t) ==
  \/ part = "form" /\ submitting
  \/ part = "bot" /\ running
  \/ part = "one" /\ compare[Tab].loading
  \/ part = "tabs" /\ TwoTabs!Lagging(t)
WaitsEnd == \A t \in Tabs : Waiting(t) ~> ~Waiting(t)
=============================================================================
