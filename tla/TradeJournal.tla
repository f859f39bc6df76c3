---------------------------- MODULE TradeJournal ----------------------------
(***************************************************************************)
(* Notes and tags on closed trades: the hook hooks/useTradeJournal.ts over *)
(* hooks/useLocalStorage.ts, and its users, components/TradeHistory (a tab *)
(* and a panel) and components/TradeJournal (a panel); both panels are in  *)
(* the default layout.  Each user holds a copy of the whole journal, read  *)
(* when it is mounted and written back whole when it changes; no user      *)
(* hears of another's write.  Of a note only what matters is kept: has it  *)
(* text, commas, line breaks.  A trade is its number, by time of close.    *)
(***************************************************************************)
EXTENDS Naturals, FiniteSets

CONSTANTS Tags,
          Window,        \* trades an account message carries (20)
          Winning, Flat, \* trades with a profit, and with a result of 0
          MaxTrades, MaxActs \* bounds

VARIABLES
  closed,      \* number of trades closed so far
  mounted,     \* views on the page
  data,        \* of each view, its copy of the journal
  storage,     \* the journal in localStorage
  editing,     \* of each view, the trade whose editor is open, 0 for none
  draft,       \* of each view, what the editor holds
  filterTag, filterWin, \* of the panel TradeJournal
  saved,       \* history: what was last saved for each key, in any view
  unseen,      \* history: of each view, keys saved elsewhere since it was mounted
  lost,        \* history: keys that a view with an older copy wrote over, or whose
               \*   write failed, since they were saved
  acts

filters == <<filterTag, filterWin>>
notes == <<saved, unseen, lost>>
vars == <<closed, mounted, data, storage, editing, draft, filters, notes, acts>>

Histories == {"tab", "panel"}
Views == Histories \cup {"journal"}
Trades == 1..MaxTrades
Notes == {{}, {"text"}, {"text", "comma", "newline"}}
NoEntry == [note |-> {}, tags |-> {}]

\* tradeKey has the entry price in it, tradeKeyFromId has not.
Key(v, t) == <<t, IF v \in Histories THEN "history" ELSE "journal">>
Keys == Trades \X {"history", "journal"}

Empty == [k \in Keys |-> NoEntry]

Init ==
  /\ closed = 0 /\ mounted \in SUBSET Views /\ storage = Empty /\ data = [v \in Views |-> Empty]
  /\ editing = [v \in Views |-> 0] /\ draft = [v \in Views |-> NoEntry]
  /\ filterTag = "none" /\ filterWin = "all"
  /\ saved = Empty /\ unseen = [v \in Views |-> {}] /\ lost = {} /\ acts = 0

\* extractTradesFromAccounts: the trades of the last account message.
allTrades == {t \in 1..closed : t + Window > closed}

Entry(v, t) == data[v][Key(v, t)]

\* What the panel lists.  Its wins and losses are not those of TradeHistory.
filteredTrades ==
  {t \in allTrades : /\ filterTag # "none" => filterTag \in Entry("journal", t).tags
                     /\ filterWin = "win" => t \in Winning
                     /\ filterWin = "loss" => t \notin Winning}

wins == {t \in allTrades : t \in Winning \cup Flat}

-----------------------------------------------------------------------------
(* The hook. *)

Act == acts < MaxActs /\ acts' = acts + 1

\* A note without text removes the entry, and its tags with it.
Stored(e) == IF "text" \in e.note THEN e ELSE NoEntry

\* The view's copy changes and the effect writes it back whole; a failure of the write
\* is caught and ignored.
Save(v, t, e, written) ==
  LET k == Key(v, t)
      d == [data[v] EXCEPT ![k] = Stored(e)]
  IN /\ data' = [data EXCEPT ![v] = d]
     /\ storage' = IF written THEN d ELSE storage
     /\ saved' = [saved EXCEPT ![k] = e]
     /\ unseen' = [w \in Views |-> IF w = v THEN unseen[w] \ {k}
                                 ELSE IF w \in mounted THEN unseen[w] \cup {k} ELSE unseen[w]]
     /\ lost' = IF written THEN (lost \cup unseen[v]) \ {k} ELSE lost \cup {k}

\* exportJournalCSV: commas and line breaks of a note are replaced.
Escaped(n) == n \ {"comma", "newline"}

ExportRow(v, t) ==
  LET n == Escaped(Entry(v, t).note) IN
  [columns |-> IF "comma" \in n THEN 12 ELSE 11, lines |-> IF "newline" \in n THEN 2 ELSE 1,
   note |-> Entry(v, t).note, tags |-> Entry(v, t).tags]

-----------------------------------------------------------------------------
(* The views. *)

TradeCloses ==
  /\ Act /\ closed < MaxTrades /\ closed' = closed + 1
  /\ UNCHANGED <<mounted, data, storage, editing, draft, filters, notes>>

Mount(v) ==
  /\ Act /\ v \notin mounted
  /\ mounted' = mounted \cup {v} /\ data' = [data EXCEPT ![v] = storage]
  /\ editing' = [editing EXCEPT ![v] = 0] /\ draft' = [draft EXCEPT ![v] = NoEntry]
  /\ IF v = "journal" THEN filterTag' = "none" /\ filterWin' = "all" ELSE UNCHANGED filters
  /\ unseen' = [unseen EXCEPT ![v] = {}]
  /\ UNCHANGED <<closed, storage, saved, lost>>

\* A tab or panel is left, or the page is reloaded.
Unmount(v) ==
  /\ Act /\ v \in mounted /\ mounted' = mounted \ {v}
  /\ UNCHANGED <<closed, data, storage, editing, draft, filters, notes>>

Listed(v) == IF v = "journal" THEN filteredTrades ELSE allTrades

\* The button of a trade: opens its editor with its entry, or closes it.
ToggleEditor(v, t) ==
  /\ Act /\ v \in mounted /\ t \in Listed(v)
  /\ IF editing[v] = t
     THEN editing' = [editing EXCEPT ![v] = 0] /\ UNCHANGED draft
     ELSE /\ editing' = [editing EXCEPT ![v] = t]
          /\ draft' = [draft EXCEPT ![v] = Entry(v, t)]
  /\ UNCHANGED <<closed, mounted, data, storage, filters, notes>>

\* The editor is shown while its trade is listed.
Editor(v) == v \in mounted /\ editing[v] # 0 /\ editing[v] \in Listed(v)

TypeNote(v, n) ==
  /\ Act /\ Editor(v) /\ draft' = [draft EXCEPT ![v].note = n]
  /\ UNCHANGED <<closed, mounted, data, storage, editing, filters, notes>>

toggleTag(g) ==
  /\ Act /\ Editor("journal")
  /\ draft' = [draft EXCEPT !["journal"].tags = IF g \in @ THEN @ \ {g} ELSE @ \cup {g}]
  /\ UNCHANGED <<closed, mounted, data, storage, editing, filters, notes>>

\* saveNote keeps the tags of the entry, saveEntry takes those of the editor.
Written(v) == IF v \in Histories THEN [draft[v] EXCEPT !.tags = Entry(v, editing[v]).tags] ELSE draft[v]

SaveClick(v) ==
  /\ Act /\ Editor(v)
  /\ \E written \in BOOLEAN : Save(v, editing[v], Written(v), written)
  /\ editing' = [editing EXCEPT ![v] = 0]
  /\ draft' = IF v = "journal" THEN [draft EXCEPT ![v] = NoEntry] ELSE draft
  /\ UNCHANGED <<closed, mounted, filters>>

DeleteClick(v) ==
  /\ Act /\ v \in Histories /\ Editor(v)
  /\ \E written \in BOOLEAN : Save(v, editing[v], NoEntry, written)
  /\ editing' = [editing EXCEPT ![v] = 0] /\ draft' = [draft EXCEPT ![v] = NoEntry]
  /\ UNCHANGED <<closed, mounted, filters>>

SetFilter(g, w) ==
  /\ Act /\ "journal" \in mounted /\ filterTag' = g /\ filterWin' = w
  /\ UNCHANGED <<closed, mounted, data, storage, editing, draft, notes>>

Next ==
  \/ TradeCloses
  \/ \E v \in Views : \/ Mount(v) \/ Unmount(v) \/ SaveClick(v) \/ DeleteClick(v)
                      \/ \E t \in Trades : ToggleEditor(v, t)
                      \/ \E n \in Notes : TypeNote(v, n)
  \/ \E g \in Tags : toggleTag(g)
  \/ \E g \in Tags \cup {"none"}, w \in {"all", "win", "loss"} : SetFilter(g, w)

Spec == Init /\ [][Next]_vars

-----------------------------------------------------------------------------
TypeOK ==
  /\ closed \in 0..MaxTrades /\ mounted \subseteq Views
  /\ \A k \in Keys : storage[k].note \in Notes /\ storage[k].tags \subseteq Tags
  /\ \A v \in Views : editing[v] \in 0..closed

\* A note that was saved in any view survives edits of other notes, new trades, views that
\* come and go and page reloads, unless a view that was on the page when it was saved
\* elsewhere saves later, or its own write fails: then its whole older copy is the journal.
SavedIsStored == \A k \in Keys \ lost : storage[k].note = saved[k].note

\* And a view shows it, unless the note was saved elsewhere while the view was on the page.
SavedIsShown ==
  \A v \in mounted, t \in Trades :
    Key(v, t) \notin lost \cup unseen[v] => Entry(v, t).note = saved[Key(v, t)].note

\* "survives page reloads": the journal in storage has every note that was saved.
NoNoteLost == \A k \in Keys : storage[k].note = saved[k].note

\* What is saved in one view of the history is shown in the other.
ViewsAgree ==
  Histories \subseteq mounted => \A t \in Trades : Entry("tab", t).note = Entry("panel", t).note

\* The exported file is a table: one line and as many columns as its header for each trade.
CsvIsTable ==
  \A v \in Histories, t \in Trades : ExportRow(v, t).columns = 11 /\ ExportRow(v, t).lines = 1

\* Tags that were saved on a trade are there.
TagsAreSaved ==
  "journal" \in mounted =>
    \A t \in Trades : Key("journal", t) \notin lost =>
      Entry("journal", t).tags = saved[Key("journal", t)].tags

\* "Export trades with journal notes as CSV": the notes of the journal panel are in the file.
ExportHasJournal ==
  \A v \in Histories \cap mounted, t \in allTrades :
    saved[Key("journal", t)].note # {} => ExportRow(v, t).note # {}

\* "Wins" are the wins the history counts.
WinsAgree == filterWin = "win" /\ filterTag = "none" => filteredTrades = wins
=============================================================================
