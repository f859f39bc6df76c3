------------------------------ MODULE NativeBot -----------------------------
(***************************************************************************)
(* The C++ bot: its trading loop and book, the connection of its order     *)
(* executor, and the market data it reads from shared memory.  Each is     *)
(* modelled against its own environment (the exchange, the socket, the     *)
(* writer), so a behaviour of this specification follows one part, with    *)
(* one of its fault models, while the others stand still.                  *)
(***************************************************************************)
EXTENDS Integers, FiniteSets

CONSTANTS Symbols, Symbol,       \* the symbols of the bot, one of them
          MissLimit,             \* SYNC_MISS_LIMIT
          MaxDelay,              \* cap of the reconnection delay
          BookOrders, DropOrders, KillOrders,     \* bounds: orders of the bot
          MaxDrops, MaxOthers,                    \* bounds: losses, messages about other clients
          LongWrites, ShortWrites, MaxStarts      \* bounds: writes, starts of the writer

ASSUME BotAssumption ==
  /\ IsFiniteSet(Symbols) /\ Symbol \in Symbols /\ MissLimit \in Nat \ {0}
  /\ BookOrders \in Nat /\ DropOrders \in Nat /\ KillOrders \in Nat
  /\ MaxDrops \in Nat /\ MaxOthers \in Nat
ASSUME ExecutorAssumption == MaxDelay \in Nat \ {0}
ASSUME SlotAssumption == LongWrites \in Nat /\ ShortWrites \in Nat /\ MaxStarts \in Nat \ {0}

VARIABLE part  \* the part that this behaviour follows

\* the trading loop, the book and the kill switch
VARIABLES xpos, resting, up, down, pos, pending, active, misses, closing, pc, canTrade, sym,
          killed, killPc, killer, overtaken, orders, drops, others
botVars == <<xpos, resting, up, down, pos, pending, active, misses, closing, pc, canTrade,
             sym, killed, killPc, killer, overtaken, orders, drops, others>>

\* the connection of the order executor
VARIABLES conn, connected, should, cancel, delay, mtx, io, rec, wd, main
execVars == <<conn, connected, should, cancel, delay, mtx, io, rec, wd, main>>

\* a slot of the shared market data
VARIABLES seg, file, mapped, wpc, base, todo, writes, starts, rpc, seq1, loaded, copy,
          accepted
slotVars == <<seg, file, mapped, wpc, base, todo, writes, starts, rpc, seq1, loaded, copy,
              accepted>>

\* The bot is alone with the exchange and hears everything (book); or messages to it are
\* lost, other clients trade the account and answers overtake add_pending_order (drops);
\* or the kill switch is activated (kill).
Bot(p) == INSTANCE HftBot WITH
  Symbols <- IF p = "book" THEN Symbols ELSE {Symbol},
  Units <- IF p = "book" THEN {1} ELSE {1, -1},
  MaxOrders <- CASE p = "book" -> BookOrders [] p = "drops" -> DropOrders [] OTHER -> KillOrders,
  MaxDrops <- IF p = "drops" THEN MaxDrops ELSE 0,
  MaxOthers <- IF p = "drops" THEN MaxOthers ELSE 0,
  Kills <- p = "kill", FastFills <- p # "book"

\* Attempts to connect succeed (executor), or they may fail and the threads may be slow
\* (shutdown).
Executor(p) == INSTANCE OrderExecutor WITH
  Refuses <- p = "shutdown", SlowThreads <- p = "shutdown", Shutdown <- TRUE

\* The writer goes on (slot), crashes and stays away (half), or closes and starts again
\* (restart).
Slot(p) == INSTANCE MarketSlot WITH
  MaxWrites <- IF p = "slot" THEN LongWrites ELSE ShortWrites,
  MaxStarts <- IF p = "restart" THEN MaxStarts ELSE 1,
  Crashes <- p = "half", Sinks <- FALSE

vars == <<part, botVars, execVars, slotVars>>

Init ==
  /\ part \in {"book", "drops", "kill", "executor", "shutdown", "slot", "half", "restart"}
  /\ IF part = "book" THEN Bot("book")!Init ELSE Bot("kill")!Init
  /\ Executor("executor")!Init
  /\ IF part = "restart" THEN Slot("restart")!Init ELSE Slot("slot")!Init

\* The parts that are not followed stand still.
Next ==
  \/ part = "book" /\ Bot("book")!Next /\ UNCHANGED <<part, execVars, slotVars>>
  \/ part = "drops" /\ Bot("drops")!Next /\ UNCHANGED <<part, execVars, slotVars>>
  \/ part = "kill" /\ Bot("kill")!Next /\ UNCHANGED <<part, execVars, slotVars>>
  \/ part = "executor" /\ Executor("executor")!Next /\ UNCHANGED <<part, botVars, slotVars>>
  \/ part = "shutdown" /\ Executor("shutdown")!Next /\ UNCHANGED <<part, botVars, slotVars>>
  \/ part = "slot" /\ Slot("slot")!Next /\ UNCHANGED <<part, botVars, execVars>>
  \/ part = "half" /\ Slot("half")!Next /\ UNCHANGED <<part, botVars, execVars>>
  \/ part = "restart" /\ Slot("restart")!Next /\ UNCHANGED <<part, botVars, execVars>>

\* Each part has the fairness of its own specification.
Fairness ==
  /\ WF_botVars(part = "book" /\ Bot("book")!AddPending)
  /\ WF_botVars(part = "book" /\ Bot("book")!ExchangeHandles)
  /\ WF_botVars(part = "book" /\ Bot("book")!Receive)
  /\ WF_botVars(part = "book" /\ Bot("book")!Broadcast)
  /\ WF_botVars(part = "drops" /\ Bot("drops")!AddPending)
  /\ WF_botVars(part = "drops" /\ Bot("drops")!ExchangeHandles)
  /\ WF_botVars(part = "drops" /\ Bot("drops")!Receive)
  /\ WF_botVars(part = "drops" /\ Bot("drops")!Broadcast)
  /\ WF_execVars(part = "executor" /\ Executor("executor")!IoThread)
  /\ WF_execVars(part = "executor" /\ Executor("executor")!Sleeper)
  /\ WF_execVars(part = "executor" /\ Executor("executor")!WatchdogThread)
  /\ WF_execVars(part = "executor" /\ Executor("executor")!MainThread)
  /\ WF_slotVars(part = "slot" /\ Slot("slot")!WriterStep)
  /\ WF_slotVars(part = "slot" /\ Slot("slot")!ReaderStep)

Spec == Init /\ [][Next]_vars /\ Fairness

-----------------------------------------------------------------------------
(***************************************************************************)
(* A position of the exchange comes to be on the book with its size while  *)
(* it lasts (no message lost), and one that the exchange closed without    *)
(* the bot hearing of it leaves the book (messages lost, reconcile).       *)
(***************************************************************************)
Astray(s) ==
  \/ part = "book" /\ Bot("book")!Unbooked(s)
  \/ part = "drops" /\ s = Symbol /\ Bot("drops")!Ghost(s)
BookFollowsExchange == \A s \in Symbols : Astray(s) ~> ~Astray(s)

(***************************************************************************)
(* A symbol is in active_symbols_ exactly while it has a position or an    *)
(* order on its way: no second order is stacked on it, and nothing blocks  *)
(* it for ever.  So it is through lost messages, fills and cancels of      *)
(* other clients, closes by the exchange and the kill switch, unless a     *)
(* position came on the book between the submission of an order and        *)
(* add_pending_order.                                                      *)
(***************************************************************************)
EngagedIffActive ==
  /\ part = "book" => Bot("book")!TypeOK /\ Bot("book")!EngagedIffActive
  /\ part = "drops" => Bot("drops")!TypeOK /\ Bot("drops")!EngagedIffActive
  /\ part = "kill" => Bot("kill")!TypeOK /\ Bot("kill")!EngagedIffActive

(***************************************************************************)
(* However far the loop's tick had come when the kill switch was           *)
(* activated, once the cancel of all orders has reached the exchange no    *)
(* order rests there that was sent before the activation.                  *)
(***************************************************************************)
KillCancelsEarlier == part = "kill" => Bot("kill")!KillCancelsEarlier

(***************************************************************************)
(* An executor that lost its connection has one again or is being shut     *)
(* down, and no thread keeps reconnect_mtx_ while it joins another.        *)
(***************************************************************************)
ComesBack ==
  /\ part = "executor" /\ Executor("executor")!Lost ~> ~Executor("executor")!Lost
  /\ part = "executor" /\ mtx # "free" ~> mtx = "free"

(***************************************************************************)
(* After disconnect() has returned no client runs and no sleeper starts    *)
(* another one, whatever the threads were doing at the time.               *)
(***************************************************************************)
DownStaysDown ==
  /\ part \in {"executor", "shutdown"} => Executor("shutdown")!TypeOK
  /\ part = "shutdown" => Executor("shutdown")!DownStaysDown

(***************************************************************************)
(* A snapshot read_snapshot accepts is one that was written, also when the *)
(* writer crashes in the middle of one or closes and starts again.         *)
(***************************************************************************)
NotTorn ==
  /\ part = "slot" => Slot("slot")!TypeOK
  /\ part = "half" => Slot("half")!TypeOK
  /\ part = "restart" => Slot("restart")!TypeOK
  /\ part \in {"slot", "half", "restart"} => Slot("slot")!NotTorn

(***************************************************************************)
(* The latest snapshot wins: one that was written is read, or a later is.  *)
(***************************************************************************)
LatestRead == \A k \in 1..LongWrites : part = "slot" /\ Slot("slot")!Unread(k) ~> ~Slot("slot")!Unread(k)
=============================================================================
