-------------------------- MODULE SessionRecorder --------------------------
(***************************************************************************)
(* The Session Replay panel: useSessionRecorder records the accounts once  *)
(* a second, stops with a summary, keeps the newest recordings in state    *)
(* and in localStorage, imports them from files; SessionReplay plays one   *)
(* back.  handleFileImport waits for the file's text, so importRecording   *)
(* runs with the list of the render in which the file was picked.          *)
(***************************************************************************)
EXTENDS Integers, SequencesExt

CONSTANTS NAccounts,  \* accounts 1 .. NAccounts of a snapshot, in key order
          Levels,     \* equities an account can have
          MaxTrades,  \* bound: closed trades of one account
          MaxSnaps,   \* MAX_SNAPSHOTS
          MaxSaved,   \* recordings kept by slice(0, 20)
          MaxIds,     \* bound: recordings started
          Files,      \* recordings in files: subset of {"full", "bare"}
          Candles     \* TRUE when the feed delivers candles

VARIABLES market,     \* what the last render passed to updateData
          rec,        \* recordingRef: the running recording, or NoRec
          saved,      \* savedRecordings
          storage,    \* localStorage
          apart,      \* history: a write changed only one of these two
          picked,     \* a file being read, with the list captured and whether the panel
                      \* that picked it is still here, or NoFile
          viewing,    \* the recording on the screen, or NoRec
          seekIdx, isPlaying,
          mounted,
          started,    \* recordings started so far (their ids)
          deleted     \* history: ids the user deleted, and storage with him

vars == <<market, rec, saved, storage, picked, viewing, seekIdx, isPlaying, mounted, started,
          apart, deleted>>

Accounts == 1..NAccounts
NoMeta == [empty |-> TRUE]
NoRec == [id |-> 0, snaps |-> <<>>, meta |-> NoMeta]
NoFile == [file |-> "none", base |-> <<>>, here |-> FALSE]
Greater(x, y) == IF x > y THEN x ELSE y

-----------------------------------------------------------------------------
(* The summary stopRecording computes. *)

\* Snapshot by snapshot, and within one account by account.
Equities(snaps) ==
  FlattenSeq([s \in DOMAIN snaps |-> [a \in Accounts |-> snaps[s].equity[a]]])

\* One peak for all accounts; the largest fall below it, in percent.
Drawdown(snaps) ==
  FoldLeft(LAMBDA acc, e : LET peak == Greater(acc.peak, e)
                           IN [peak |-> peak, dd |-> Greater(acc.dd, ((peak - e) * 100) \div peak)],
           [peak |-> 0, dd |-> 0], Equities(snaps))

TradesOf(snap) == FoldLeft(LAMBDA sum, a : sum + snap.trades[a], 0, [a \in Accounts |-> a])

\* trade_history is cumulative: the last snapshot has them all.
TotalTrades(snaps) == IF snaps = <<>> THEN 0 ELSE TradesOf(Last(snaps))

Summary(snaps) == [trades |-> TotalTrades(snaps), peak |-> Drawdown(snaps).peak, dd |-> Drawdown(snaps).dd]

-----------------------------------------------------------------------------
(* The list of recordings. *)

\* [rec, ...savedRecordings].slice(0, 20)
Front1(r, list) == LET all == <<r>> \o list IN SubSeq(all, 1, IF Len(all) < MaxSaved THEN Len(all) ELSE MaxSaved)

\* A finite set of places as an increasing list; a list without the recordings of an id.
Sorted(K) ==
  CHOOSE s \in [1 .. Cardinality(K) -> K] : \A i, j \in DOMAIN s : i < j => s[i] < s[j]
Without(list, id) ==
  LET at == Sorted({i \in DOMAIN list : list[i].id # id}) IN [k \in DOMAIN at |-> list[at[k]]]

\* setSavedRecordings of a panel that is gone does nothing; localStorage is
\* written all the same, unless setItem throws, which is caught.
persistRecordings(list, here) ==
  /\ saved' = IF here THEN list ELSE saved
  /\ \/ storage' = list /\ apart' = IF here THEN FALSE ELSE mounted
     \/ storage' = storage /\ apart' = IF here THEN TRUE ELSE apart

Init == /\ market = [equity |-> [a \in Accounts |-> CHOOSE l \in Levels : \A m \in Levels : l <= m],
                     trades |-> [a \in Accounts |-> 0], candles |-> FALSE]
        /\ rec = NoRec /\ saved = <<>> /\ storage = <<>> /\ apart = FALSE /\ picked = NoFile
        /\ viewing = NoRec /\ seekIdx = 0 /\ isPlaying = FALSE /\ mounted = TRUE
        /\ started = 0 /\ deleted = {}

\* A message of the exchange: a new equity, a closed trade, a first candle.
Market ==
  /\ \/ \E a \in Accounts, l \in Levels : market' = [market EXCEPT !.equity[a] = l]
     \/ \E a \in Accounts : market.trades[a] < MaxTrades /\ market' = [market EXCEPT !.trades[a] = @ + 1]
     \/ Candles /\ market' = [market EXCEPT !.candles = TRUE]
  /\ UNCHANGED <<rec, saved, storage, picked, viewing, seekIdx, isPlaying, mounted, started, apart, deleted>>

startRecording ==
  /\ mounted /\ rec = NoRec /\ started < MaxIds
  /\ started' = started + 1
  /\ rec' = [id |-> started + 1, snaps |-> <<>>, meta |-> NoMeta]
  /\ UNCHANGED <<market, saved, storage, picked, viewing, seekIdx, isPlaying, mounted, apart, deleted>>

\* The interval of one second.  `candles` is the feed's array of candles, and
\* the loop calls slice on every entry: with a candle there the call throws
\* before the snapshot is pushed.
captureSnapshot ==
  /\ mounted /\ rec # NoRec /\ Len(rec.snaps) < MaxSnaps
  /\ ~market.candles
  /\ rec' = [rec EXCEPT !.snaps = Append(@, [equity |-> market.equity, trades |-> market.trades])]
  /\ UNCHANGED <<market, saved, storage, picked, viewing, seekIdx, isPlaying, mounted, started, apart, deleted>>

\* "Stop & Save": the recording joins the list and is shown.
stopRecording ==
  /\ mounted /\ rec # NoRec
  /\ LET done == [rec EXCEPT !.meta = Summary(rec.snaps)]
     IN persistRecordings(Front1(done, saved), TRUE) /\ viewing' = done /\ seekIdx' = 0
  /\ rec' = NoRec
  /\ UNCHANGED <<market, picked, isPlaying, mounted, started, deleted>>

\* Every recording with the id goes; the one on the screen stays there.
deleteRecording(id) ==
  /\ mounted /\ \E i \in DOMAIN saved : saved[i].id = id
  /\ persistRecordings(Without(saved, id), TRUE)
  /\ deleted' = (IF apart' THEN deleted ELSE deleted \cup {id})
  /\ UNCHANGED <<market, rec, picked, viewing, seekIdx, isPlaying, mounted, started>>

\* handleFileImport up to `await file.text()`.
PickFile ==
  /\ mounted /\ picked = NoFile
  /\ \E f \in Files : picked' = [file |-> f, base |-> saved, here |-> TRUE]
  /\ UNCHANGED <<market, rec, saved, storage, viewing, seekIdx, isPlaying, mounted, started, apart, deleted>>

\* A file has one snapshot and its metadata; a bare one has metadata {},
\* which passes the format check.
FromFile(f) ==
  LET snap == [equity |-> [a \in Accounts |-> CHOOSE l \in Levels : \A m \in Levels : l <= m], trades |-> [a \in Accounts |-> 0]]
  IN [id |-> MaxIds + 1, snaps |-> <<snap>>, meta |-> IF f = "full" THEN Summary(<<snap>>) ELSE NoMeta]

\* The rest of handleFileImport: importRecording with the captured list.
importRecording ==
  /\ picked # NoFile
  /\ persistRecordings(Front1(FromFile(picked.file), picked.base), picked.here)
  /\ picked' = NoFile
  /\ UNCHANGED <<market, rec, viewing, seekIdx, isPlaying, mounted, started, deleted>>

-----------------------------------------------------------------------------
(* The player. *)

View ==
  /\ mounted /\ \E i \in DOMAIN saved : viewing' = saved[i]
  /\ seekIdx' = 0
  /\ UNCHANGED <<market, rec, saved, storage, picked, isPlaying, mounted, started, apart, deleted>>

Close ==
  /\ viewing # NoRec /\ viewing' = NoRec
  /\ UNCHANGED <<market, rec, saved, storage, picked, seekIdx, isPlaying, mounted, started, apart, deleted>>

Visible == viewing # NoRec /\ seekIdx < Len(viewing.snaps)

PlayPause ==
  /\ Visible /\ isPlaying' = ~isPlaying
  /\ UNCHANGED <<market, rec, saved, storage, picked, viewing, seekIdx, mounted, started, apart, deleted>>

PlayTick ==
  /\ isPlaying /\ viewing # NoRec
  /\ IF seekIdx >= Len(viewing.snaps) - 1 THEN isPlaying' = FALSE /\ UNCHANGED seekIdx
     ELSE seekIdx' = seekIdx + 1 /\ UNCHANGED isPlaying
  /\ UNCHANGED <<market, rec, saved, storage, picked, viewing, mounted, started, apart, deleted>>

\* The chevrons; the slider is limited to the same range.
handleSeek ==
  /\ Visible
  /\ \E d \in {-1, 1} :
       seekIdx' = LET last == Len(viewing.snaps) - 1 IN Greater(0, IF seekIdx + d < last THEN seekIdx + d ELSE last)
  /\ UNCHANGED <<market, rec, saved, storage, picked, viewing, isPlaying, mounted, started, apart, deleted>>

\* The panel is hidden or its category collapsed: all but localStorage, and a
\* file being read, is gone.
Unmount ==
  /\ mounted /\ mounted' = FALSE
  /\ rec' = NoRec /\ saved' = <<>> /\ viewing' = NoRec /\ seekIdx' = 0 /\ isPlaying' = FALSE
  /\ picked' = [picked EXCEPT !.here = FALSE] /\ apart' = FALSE
  /\ UNCHANGED <<market, storage, started, deleted>>

Mount ==
  /\ ~mounted /\ mounted' = TRUE /\ saved' = storage /\ apart' = FALSE
  /\ UNCHANGED <<market, rec, storage, picked, viewing, seekIdx, isPlaying, started, deleted>>

Delete == \E id \in 1..(MaxIds + 1) : deleteRecording(id)

Next == \/ Market \/ startRecording \/ captureSnapshot \/ stopRecording \/ Delete \/ PickFile \/ importRecording
        \/ View \/ Close \/ PlayPause \/ PlayTick \/ handleSeek \/ Unmount \/ Mount

Spec == Init /\ [][Next]_vars

\* The recording interval of a mounted panel fires.
RecordingSpec == Spec /\ WF_vars(captureSnapshot)

-----------------------------------------------------------------------------
TypeOK ==
  /\ rec.id \in 0..MaxIds /\ Len(rec.snaps) <= MaxSnaps
  /\ Len(saved) <= MaxSaved /\ Len(storage) <= MaxSaved
  /\ isPlaying \in BOOLEAN /\ mounted \in BOOLEAN /\ apart \in BOOLEAN /\ seekIdx \in Nat

IdsOf(list) == {list[i].id : i \in DOMAIN list}

(***************************************************************************)
(* What the panel lists is what localStorage holds, after any stops,       *)
(* deletions, imports and remounts, unless a write failed or came from a   *)
(* panel closed while its file was being read: a reload shows that list.   *)
(***************************************************************************)
ListIsStored == mounted /\ ~apart => saved = storage

(***************************************************************************)
(* The same without the exception ("Stop & Save").                         *)
(***************************************************************************)
ListSurvives == mounted => saved = storage

(***************************************************************************)
(* A stored recording that is on the list stays stored until the user      *)
(* deletes it or MaxSaved newer ones push it out ("Stop & Save").  One     *)
(* that the list has lost in a write that failed goes with the next.       *)
(***************************************************************************)
RecordingsStay ==
  \A id \in IdsOf(storage) : ~apart \/ id \in IdsOf(saved) =>
    id \in IdsOf(storage') \/ id \in deleted' \/ Len(storage') = MaxSaved
SavedIsKept == [][RecordingsStay]_vars

(***************************************************************************)
(* A recording deleted from the list and from storage does not come back   *)
(* to either (an import of the file aside).                                *)
(***************************************************************************)
DeletedIsGone ==
  \A id \in deleted \cap (1..MaxIds) : id \notin IdsOf(storage) \cup IdsOf(saved)

(***************************************************************************)
(* totalTrades of a recording counts every closed trade once: it never     *)
(* exceeds the trades closed so far (trade_history is cumulative).         *)
(***************************************************************************)
TradesCountedOnce ==
  \A i \in DOMAIN storage : storage[i].id <= MaxIds => storage[i].meta.trades <= TradesOf(market)

(***************************************************************************)
(* maxDrawdown is the largest fall of an account's equity from an earlier  *)
(* value to a later one of the recording, in percent.                      *)
(***************************************************************************)
LargestFall(snaps) ==
  LET Fall(s, t, a) == ((snaps[s].equity[a] - snaps[t].equity[a]) * 100) \div snaps[s].equity[a]
      later == {Fall(p[1], p[2], a) : p \in {q \in (DOMAIN snaps) \X (DOMAIN snaps) : q[1] <= q[2]}, a \in Accounts}
  IN IF snaps = <<>> THEN 0 ELSE CHOOSE x \in later : \A y \in later : y <= x
MaxDrawdownIsLargestFall ==
  \A i \in DOMAIN storage : storage[i].meta # NoMeta => storage[i].meta.dd = LargestFall(storage[i].snaps)

(***************************************************************************)
(* The position of the player is a snapshot of the recording on screen.    *)
(***************************************************************************)
SeekInRange == viewing # NoRec => seekIdx <= Greater(0, Len(viewing.snaps) - 1)

(***************************************************************************)
(* A recording that is drawn has the summary its header prints.            *)
(***************************************************************************)
DrawnHasSummary == Visible => viewing.meta # NoMeta

(***************************************************************************)
(* "REC n snapshots": a running recording takes a snapshot or is stopped.  *)
(***************************************************************************)
NothingYet == rec # NoRec /\ rec.snaps = <<>>
RecordingCaptures == NothingYet ~> ~NothingYet
=============================================================================
