----------------------------- MODULE PriceAlerts -----------------------------
(***************************************************************************)
(* PriceAlerts.jsx, the toasts it raises (useToastStore.js, shown by       *)
(* NotificationCenter.jsx as well) and the webhooks AlertWebhook.jsx calls *)
(* for them.  The panel gets the price of the selected symbol only.  The   *)
(* effect raises a toast for every alert that is hit, in the order they    *)
(* were set, and asks for a note that it was; the toast renders the page   *)
(* at once, with a new onAlert on which the effect depends, so the effect  *)
(* runs again, and until React has rendered the note it announces the same *)
(* alerts again.  React ends such a row of renders after MaxRuns of them   *)
(* by an error, which the panel's boundary catches.  All this is over      *)
(* before the next event.                                                  *)
(***************************************************************************)
EXTENDS Naturals, Sequences, FiniteSets, SequencesExt

CONSTANTS Symbols,      \* symbols the user can select
          MaxPrice,     \* bound: prices are 1 .. MaxPrice, 0 is "not known yet"
          MaxAlerts,    \* bound: alerts set
          MaxRuns,      \* runs of the effect that React lets follow each other (50)
          MaxToasts,    \* toasts kept on the screen (5)
          MaxOthers     \* bound: toasts of other origin

VARIABLES symbol,       \* the selected symbol
          price,        \* price[s]: last price of s
          alerts,       \* the list of alerts, oldest first
          made,         \* number of alerts set so far, the source of ids
          triggered,    \* ids of alerts that were hit, as the panel knows
          queued,       \* ids whose note waits to be rendered
          runs,         \* runs of the effect for the last hit, 0 once React has settled
          turn,         \* number of hits the panel has announced
          fired,        \* what onAlert was called for: [id, turn, right], right if the
                        \*   alert's own symbol was there
          toasts,       \* the toasts on the screen, oldest first
          others,       \* toasts of other origin so far
          hook,         \* the webhook panel is open, with a webhook for price alerts
          seen,         \* seenToastsRef: toasts the webhook panel has looked at
          sent          \* alerts reported to the webhook

noteVars == <<triggered, queued, runs, turn, fired>>
vars == <<symbol, price, alerts, made, noteVars, toasts, others, hook, seen, sent>>

Ids == 1 .. MaxAlerts
Alert == [id : Ids, symbol : Symbols, above : BOOLEAN, threshold : 1 .. MaxPrice]
Toast == [kind : {"alert", "other"}, n : Nat]

TypeOK ==
  /\ symbol \in Symbols /\ price \in [Symbols -> 0 .. MaxPrice]
  /\ ToSet(alerts) \subseteq Alert /\ triggered \subseteq Ids
  /\ queued \subseteq Ids /\ runs \in 0 .. MaxRuns
  /\ ToSet(toasts) \subseteq Toast /\ Len(toasts) <= MaxToasts
  /\ seen \subseteq Toast /\ sent \subseteq Ids

Init ==
  /\ symbol \in Symbols /\ price = [s \in Symbols |-> 0]
  /\ alerts = <<>> /\ made = 0
  /\ triggered = {} /\ queued = {} /\ runs = 0 /\ turn = 0 /\ fired = {}
  /\ toasts = <<>> /\ others = 0 /\ hook = FALSE /\ seen = {} /\ sent = {}

-----------------------------------------------------------------------------
(* Toasts. *)

\* addToast, once for each of the new toasts: the oldest go, at most MaxToasts stay.
AddToasts(list, new) ==
  LET all == list \o new
  IN SubSeq(all, IF Len(all) <= MaxToasts THEN 1 ELSE Len(all) - MaxToasts + 1, Len(all))

\* The webhook panel's effect on the toasts now on the screen.
Dispatch(list, open) ==
  /\ seen' = IF open THEN seen \cup ToSet(list) ELSE seen
  /\ sent' = IF open
             THEN sent \cup {t.n : t \in {u \in ToSet(list) \ seen : u.kind = "alert"}}
             ELSE sent

-----------------------------------------------------------------------------
(* The alerts' effect. *)

Hit(a, p) == p # 0 /\ IF a.above THEN p >= a.threshold ELSE p <= a.threshold

\* A finite set of numbers as an increasing list.
Sorted(K) ==
  CHOOSE s \in [1 .. Cardinality(K) -> K] : \A i, j \in DOMAIN s : i < j => s[i] < s[j]

\* Alerts not triggered yet that price p hits, in order.
HitAt(list, p, done) == {i \in DOMAIN list : list[i].id \notin done /\ Hit(list[i], p)}
Hits(list, p, done) ==
  LET at == Sorted(HitAt(list, p, done)) IN [k \in DOMAIN at |-> list[at[k]]]

\* A run of the effect with this list, symbol, prices and set of noted alerts: every
\* alert that is hit raises its toast and has its note queued; the webhook panel sees
\* what is left of the toasts.
Announce(list, s, prices, done, now) ==
  LET hit == Hits(list, prices[s], done)
      left == AddToasts(toasts, [i \in DOMAIN hit |-> [kind |-> "alert", n |-> hit[i].id]])
  IN /\ queued' = queued \cup {a.id : a \in ToSet(hit)}
     /\ turn' = now
     /\ fired' = fired \cup {[id |-> a.id, turn |-> now, right |-> Hit(a, prices[a.symbol])] : a \in ToSet(hit)}
     /\ toasts' = left /\ Dispatch(left, hook)

\* An event's render, and the first run of the effect after it.
Check(list, s, prices, done) ==
  LET some == HitAt(list, prices[s], done) # {}
  IN /\ runs = 0 /\ runs' = IF some THEN 1 ELSE 0
     /\ triggered' = done
     /\ Announce(list, s, prices, done, IF some THEN turn + 1 ELSE turn)

\* A toast has rendered the page before the notes were: the effect runs with the old set.
Rerun ==
  /\ runs \in 1 .. MaxRuns - 1 /\ runs' = runs + 1
  /\ Announce(alerts, symbol, price, triggered, turn)
  /\ UNCHANGED <<symbol, price, alerts, made, triggered, others, hook>>

\* React renders the notes; the effect has nothing to announce any more.
Apply ==
  /\ runs # 0 /\ runs' = 0
  /\ triggered' = triggered \cup queued /\ queued' = {}
  /\ UNCHANGED <<symbol, price, alerts, made, turn, fired, toasts, others, hook, seen, sent>>

\* React's limit is reached: the boundary takes the panel away, with the alerts in it.
GivesUp ==
  /\ runs = MaxRuns /\ runs' = 0
  /\ alerts' = <<>> /\ triggered' = {} /\ queued' = {}
  /\ UNCHANGED <<symbol, price, made, turn, fired, toasts, others, hook, seen, sent>>

\* addAlert: the form sets alerts for the symbol selected now.
AddAlert(above, t) ==
  LET a == [id |-> made + 1, symbol |-> symbol, above |-> above, threshold |-> t]
  IN /\ made < MaxAlerts /\ made' = made + 1
     /\ alerts' = Append(alerts, a)
     /\ Check(alerts', symbol, price, triggered)
     /\ UNCHANGED <<symbol, price, others, hook>>

RemoveAlert(i) ==
  /\ i \in DOMAIN alerts
  /\ alerts' = RemoveAt(alerts, i)
  /\ Check(alerts', symbol, price, triggered \ {alerts[i].id})
  /\ UNCHANGED <<symbol, price, made, others, hook>>

\* The feed has a new price.
PriceMoves(s, p) ==
  /\ price[s] # p /\ price' = [price EXCEPT ![s] = p]
  /\ Check(alerts, symbol, price', triggered)
  /\ UNCHANGED <<symbol, alerts, made, others, hook>>

SelectSymbol(s) ==
  /\ symbol # s /\ symbol' = s
  /\ Check(alerts, s, price, triggered)
  /\ UNCHANGED <<price, alerts, made, others, hook>>

-----------------------------------------------------------------------------
(* Toasts of other origin: fills, connections, and the buttons "Mark all     *)
(* read" and "Mute" of the notification centre, which each raise one.        *)
(* They come when the alerts' effect is through.                             *)

OtherToast ==
  /\ runs = 0 /\ others < MaxOthers /\ others' = others + 1
  /\ LET now == AddToasts(toasts, <<[kind |-> "other", n |-> others']>>)
     IN toasts' = now /\ Dispatch(now, hook)
  /\ UNCHANGED <<symbol, price, alerts, made, noteVars, hook>>

\* A toast's time is over, or its cross is clicked here or in the centre.
RemoveToast(i) ==
  /\ runs = 0 /\ i \in DOMAIN toasts
  /\ toasts' = RemoveAt(toasts, i)
  /\ Dispatch(toasts', hook)
  /\ UNCHANGED <<symbol, price, alerts, made, noteVars, others, hook>>

ClearAll ==
  /\ runs = 0 /\ toasts # <<>> /\ toasts' = <<>>
  /\ UNCHANGED <<symbol, price, alerts, made, noteVars, others, hook, seen, sent>>

\* The webhook panel appears; nothing has been looked at yet.
OpenHooks ==
  /\ runs = 0 /\ ~hook /\ hook' = TRUE /\ seen' = ToSet(toasts)
  /\ sent' = sent \cup {t.n : t \in {u \in ToSet(toasts) : u.kind = "alert"}}
  /\ UNCHANGED <<symbol, price, alerts, made, noteVars, toasts, others>>

Next ==
  \/ Rerun \/ Apply \/ GivesUp \/ OtherToast \/ ClearAll \/ OpenHooks
  \/ \E above \in BOOLEAN, t \in 1 .. MaxPrice : AddAlert(above, t)
  \/ \E i \in DOMAIN alerts : RemoveAlert(i)
  \/ \E s \in Symbols : SelectSymbol(s) \/ \E p \in 1 .. MaxPrice : PriceMoves(s, p)
  \/ \E i \in DOMAIN toasts : RemoveToast(i)

Spec == Init /\ [][Next]_vars

-----------------------------------------------------------------------------
(***************************************************************************)
(* An alert is announced for one hit in its life, however often the price  *)
(* crosses its threshold, whichever symbol is selected and whatever other  *)
(* alerts are hit meanwhile.                                               *)
(***************************************************************************)
OneHitEach == \A f, g \in fired : f.id = g.id => f.turn = g.turn

(***************************************************************************)
(* For that hit it is announced once ("if (triggered.has(alert.id))        *)
(* continue").                                                             *)
(***************************************************************************)
FiresOnce == OneHitEach /\ runs <= 1

(***************************************************************************)
(* No alert is overlooked: one that is listed as active when React has     *)
(* settled is not hit by the price on the screen, also when several are    *)
(* hit by one price.                                                       *)
(***************************************************************************)
ActiveIsNotHit ==
  runs = 0 => \A a \in ToSet(alerts) : a.id \in triggered \/ ~Hit(a, price[symbol])

(***************************************************************************)
(* Only alerts that are still listed are noted as triggered, and each of   *)
(* them was announced; an active one never was.                            *)
(***************************************************************************)
TriggeredIsListed ==
  /\ triggered \subseteq {a.id : a \in ToSet(alerts)}
  /\ triggered \subseteq {f.id : f \in fired}
  /\ runs = 0 => {a.id : a \in ToSet(alerts)} \cap {f.id : f \in fired} \subseteq triggered

(***************************************************************************)
(* The user's alerts stay until they are removed.                          *)
(***************************************************************************)
AlertsStay == [][Len(alerts') >= Len(alerts) - 1]_vars

(***************************************************************************)
(* An alert is announced for the symbol it was set for: "Alert when        *)
(* {symbol} on {exchange} goes".                                           *)
(***************************************************************************)
AlertIsOfItsSymbol == \A f \in fired : f.right

(***************************************************************************)
(* With the webhook panel open, every alert that is announced is reported  *)
(* ("Price Alert" among the events of a webhook).                          *)
(***************************************************************************)
AlertReachesWebhook == [][hook => \A f \in fired' \ fired : f.id \in sent']_vars
=============================================================================
