---------------------------- MODULE LiveTrading ----------------------------
(***************************************************************************)
(* The live trading daemon (apps/live.py) between its database and the     *)
(* brokerage (KIS).  One process runs the loop                             *)
(*                                                                         *)
(*   poll telegram -> reconcile -> build the context -> run_cycle -> sleep *)
(*                                                                         *)
(* and every database transaction and every HTTP call of the loop is a     *)
(* step of its own, so that the exchange may move, and the process may     *)
(* die, between any two of them.  The process keeps no state across a      *)
(* restart except the three tables it writes: orders (with their fill      *)
(* snapshot), positions and kill_switch.                                   *)
(*                                                                         *)
(* What the strategy, the gate and the order generator decide is           *)
(* abstracted to what the order lifecycle can tell apart: which held       *)
(* symbols are signalled for exit, which are topped up, which new symbols  *)
(* pass the gate, and the quantities.                                      *)
(***************************************************************************)
EXTENDS Integers, FiniteSets

CONSTANTS
  Symbols,        \* the tradable symbols
  OrderIds,       \* the uuid4 order_id values an order may be given
  None,           \* no row, no value
  MaxQty,         \* bound: shares of one purchase, or held by hand
  MaxPositions,   \* GateConfig.max_positions
  MaxCrashes,     \* bound: deaths of the process
  MaxLost,        \* bound: order requests or answers lost by the network
  MaxManual,      \* bound: trades made outside the bot in the same account
  PartialFills    \* may the exchange fill an order in more than one piece?

ASSUME BoundAssumption ==
  /\ MaxQty \in Nat \ {0}
  /\ {MaxPositions, MaxCrashes, MaxLost, MaxManual} \subseteq Nat
  /\ PartialFills \in BOOLEAN

Sides == {"buy", "sell"}
OrderStatus ==
  {"submitted", "unknown", "partial", "filled", "cancelled", "rejected"}

\* The statuses list_unresolved() selects: the outcome is not final yet.
UNRESOLVED_STATUSES == {"submitted", "unknown", "partial"}

VARIABLES
  \* The database.
  orders,       \* order_id -> row of table orders with its fill snapshot
  positions,    \* symbol -> row of table positions
  killSwitch,   \* the single row of table kill_switch
  \* The exchange.
  kis,          \* order_id -> what KIS knows of an accepted order
  account,      \* symbol -> shares in the account
  \* The process: where it is in main() and its local variables.
  pc,
  booting,      \* is this the reconcile() before the loop?
  todo,         \* order_ids resolve_unknown() has still to query
  answer,       \* the OrderResult whose status is about to be written
  results,      \* OrderResults of resolve_unknown() not yet recorded
  remaining,    \* position_changes()'s running quantity per symbol
  balance,      \* the quantities broker.positions() returned
  plan,         \* the orders of this cycle not yet submitted
  sending,      \* the order_id of the order being submitted
  \* Ghost: how often each fault has happened.
  faults

dbVars   == <<orders, positions, killSwitch>>
kisVars  == <<kis, account>>
procVars == <<pc, booting, todo, answer, results, remaining, balance, plan,
              sending>>
vars     == <<dbVars, kisVars, procVars, faults>>

Quantities == 1..MaxQty

OrderRow == [symbol : Symbols, side : Sides, qty : Nat \ {0},
             status : OrderStatus, odno : BOOLEAN, filled : Nat]
PositionRow == [qty : Nat \ {0}, entry : OrderIds]
KisRow   == [filled : Nat, state : {"working", "cancelled", "rejected"}]
Result   == [order : OrderIds, status : OrderStatus, filled : Nat]
Request  == [symbol : Symbols, side : Sides, qty : Nat \ {0}]

Job      == [side : Sides, left : Nat \ {0}]

\* A missing row, answer, id or quantity is told from a present one.
ASSUME NoneAssumption ==
  None \notin Int \cup OrderIds \cup OrderRow \cup PositionRow \cup KisRow
              \cup Result \cup Job

Places   == {"down", "halted", "boot", "poll", "resolve", "record", "decide",
             "submit", "send", "ack", "nack"}

\* Well-formedness: every table, local variable and bound has its type; a
\* positions row always has a positive quantity.
TypeOK ==
  /\ orders \in [OrderIds -> OrderRow \cup {None}]
  /\ positions \in [Symbols -> PositionRow \cup {None}]
  /\ killSwitch \in BOOLEAN
  /\ kis \in [OrderIds -> KisRow \cup {None}]
  /\ account \in [Symbols -> Nat]
  /\ pc \in Places
  /\ booting \in BOOLEAN
  /\ todo \in SUBSET OrderIds
  /\ answer \in Result \cup {None}
  /\ results \in SUBSET Result
  /\ remaining \in [Symbols -> Int \cup {None}]
  /\ balance \in [Symbols -> Nat]
  /\ plan \in SUBSET Request
  /\ sending \in OrderIds \cup {None}
  /\ faults \in [crash : Nat, lost : Nat, manual : Nat]

-----------------------------------------------------------------------------
(* Views of the tables. *)

Exists(o) == orders[o] # None

\* list_unresolved().
Unresolved(o) == Exists(o) /\ orders[o].status \in UNRESOLVED_STATUSES

\* Faulty variants: a partly filled, or an unknown order does not count.
PendingWithoutPartial ==
  {s \in Symbols : \E o \in OrderIds : /\ Unresolved(o)
                                       /\ orders[o].status # "partial"
                                       /\ orders[o].symbol = s}
PendingWithoutUnknown ==
  {s \in Symbols : \E o \in OrderIds : /\ Unresolved(o)
                                       /\ orders[o].status # "unknown"
                                       /\ orders[o].symbol = s}

\* _load_pending_order_symbols(): symbols with an order not yet final.
PendingSymbols == {s \in Symbols : \E o \in OrderIds :
                                      Unresolved(o) /\ orders[o].symbol = s}

HeldSymbols == {s \in Symbols : positions[s] # None}

\* An order that can still trade at the exchange.
Working(o) ==
  /\ kis[o] # None
  /\ kis[o].state = "working"
  /\ kis[o].filled < orders[o].qty

-----------------------------------------------------------------------------
(* Start and end of the process. *)

Init ==
  /\ orders = [o \in OrderIds |-> None]
  /\ positions = [s \in Symbols |-> None]
  /\ killSwitch = FALSE
  /\ kis = [o \in OrderIds |-> None]
  /\ account = [s \in Symbols |-> 0]
  /\ pc = "boot"
  /\ booting = TRUE
  /\ todo = {} /\ answer = None /\ results = {}
  /\ remaining = [s \in Symbols |-> None]
  /\ balance = [s \in Symbols |-> 0]
  /\ plan = {} /\ sending = None
  /\ faults = [crash |-> 0, lost |-> 0, manual |-> 0]

\* The process dies: an exception main() re-raises, a kill, a power cut.
\* Whatever it had only in memory is gone.
Crash ==
  /\ pc \notin {"down", "halted"}
  /\ faults.crash < MaxCrashes
  /\ faults' = [faults EXCEPT !.crash = @ + 1]
  /\ pc' = "down"
  /\ booting' = TRUE
  /\ todo' = {} /\ answer' = None /\ results' = {}
  /\ remaining' = [s \in Symbols |-> None]
  /\ balance' = [s \in Symbols |-> 0]
  /\ plan' = {} /\ sending' = None
  /\ UNCHANGED <<dbVars, kisVars>>

\* A new process starts main().
Restart ==
  /\ pc = "down"
  /\ pc' = "boot"
  /\ UNCHANGED <<dbVars, kisVars, booting, todo, answer, results, remaining,
                 balance, plan, sending, faults>>

\* After a halt the process has exited; a person starts it again.
OperatorRestart ==
  /\ pc = "halted"
  /\ pc' = "boot"
  /\ booting' = TRUE
  /\ UNCHANGED <<dbVars, kisVars, todo, answer, results, remaining, balance,
                 plan, sending, faults>>

-----------------------------------------------------------------------------
(* The top of the loop. *)

\* A telegram command engages or releases the kill switch.
TelegramCommand ==
  /\ pc = "poll"
  /\ killSwitch' = ~killSwitch
  /\ UNCHANGED <<orders, positions, kisVars, procVars, faults>>

\* reconcile() starts: resolve_unknown() reads the unresolved orders.  An
\* order without a broker order number is skipped, whatever its age.
BeginReconcile ==
  /\ pc \in {"boot", "poll"}
  /\ pc' = "resolve"
  /\ booting' = (pc = "boot")
  /\ todo' = {o \in OrderIds : Unresolved(o) /\ orders[o].odno}
  /\ UNCHANGED <<dbVars, kisVars, answer, results, remaining, balance, plan,
                 sending, faults>>

-----------------------------------------------------------------------------
(* reconcile(), part 1: resolve_unknown() queries each unresolved order. *)

\* Faulty variant: the cancellation flag is not looked at.
StatusWithoutCancel(row, qty) ==
  IF row.filled >= qty THEN "filled"
  ELSE IF row.filled > 0 THEN "partial"
  ELSE IF row.state = "rejected" THEN "rejected"
  ELSE "submitted"

\* The status ladder of _resolve_one().
StatusOf(row, qty) ==
  IF row.state = "cancelled" THEN "cancelled"
  ELSE IF row.filled >= qty THEN "filled"
  ELSE IF row.filled > 0 THEN "partial"
  ELSE IF row.state = "rejected" THEN "rejected"
  ELSE "submitted"

\* KIS shows no row for the order yet: nothing is written, the stored status
\* is reported as it is, without fills.
QueryWithoutRow(o) ==
  /\ pc = "resolve" /\ answer = None /\ o \in todo
  /\ todo' = todo \ {o}
  /\ results' = results \cup
       {[order |-> o, status |-> orders[o].status, filled |-> 0]}
  /\ UNCHANGED <<dbVars, kisVars, pc, booting, answer, remaining, balance,
                 plan, sending, faults>>

\* Faulty variant: the fills of a cancelled order are not stored.
QueryOrderDroppingFills(o) ==
  /\ pc = "resolve" /\ answer = None /\ o \in todo
  /\ kis[o] # None
  /\ todo' = todo \ {o}
  /\ answer' = [order |-> o, status |-> StatusOf(kis[o], orders[o].qty),
                filled |-> kis[o].filled]
  /\ orders' = IF kis[o].filled > 0 /\ kis[o].state # "cancelled"
               THEN [orders EXCEPT ![o].filled = kis[o].filled]
               ELSE orders
  /\ UNCHANGED <<positions, killSwitch, kisVars, pc, booting, results,
                 remaining, balance, plan, sending, faults>>

\* KIS answers; a cumulative fill replaces the stored snapshot, the status is
\* written by the next transaction.
QueryOrder(o) ==
  /\ pc = "resolve" /\ answer = None /\ o \in todo
  /\ kis[o] # None
  /\ todo' = todo \ {o}
  /\ answer' = [order |-> o, status |-> StatusOf(kis[o], orders[o].qty),
                filled |-> kis[o].filled]
  /\ orders' = IF kis[o].filled > 0
               THEN [orders EXCEPT ![o].filled = kis[o].filled]
               ELSE orders
  /\ UNCHANGED <<positions, killSwitch, kisVars, pc, booting, results,
                 remaining, balance, plan, sending, faults>>

\* update_status() of the order just queried.
WriteStatus ==
  /\ pc = "resolve" /\ answer # None
  /\ orders' = [orders EXCEPT ![answer.order].status = answer.status]
  /\ results' = results \cup {answer}
  /\ answer' = None
  /\ UNCHANGED <<positions, killSwitch, kisVars, pc, booting, todo, remaining,
                 balance, plan, sending, faults>>

\* Every order has been asked for: _record_resolved_positions() reads the
\* stored quantities its judgement starts from.
ReadHeld ==
  /\ pc = "resolve" /\ answer = None /\ todo = {}
  /\ pc' = "record"
  /\ remaining' = [s \in Symbols |-> IF positions[s] = None THEN None
                                     ELSE positions[s].qty]
  /\ UNCHANGED <<dbVars, kisVars, booting, todo, answer, results, balance,
                 plan, sending, faults>>

-----------------------------------------------------------------------------
(* reconcile(), part 2: _record_resolved_positions() turns fills into        *)
(* positions.  position_changes() is pure, so folding it into the loop that  *)
(* stores its changes loses nothing; each change is a transaction.  The      *)
(* results come in the order of a query without ORDER BY, that is in any.    *)

ResultOrder(r) == orders[r.order]

\* Faulty variant: a result without fills counts by its status alone.
CountsByStatus(r) == r.status \in {"filled", "partial"}

\* Only filled and partial results with a fill count.
Counts(r) == r.status \in {"filled", "partial"} /\ r.filled > 0

Running(s) == IF remaining[s] = None THEN 0 ELSE remaining[s]

\* Faulty variant: every purchase is stored as a new position.
OpensAlways(r) == ResultOrder(r).side = "buy"

\* Rule 1: a fill opens a position only where none is held.
Opens(r) ==
  /\ ResultOrder(r).side = "buy"
  /\ remaining[ResultOrder(r).symbol] = None

\* Faulty variant: the last share does not close the position.
ClosesLate(r) ==
  /\ ResultOrder(r).side = "sell"
  /\ Running(ResultOrder(r).symbol) - r.filled < 0

\* Rule 2: a sale closes the position when the running quantity is used up.
Closes(r) ==
  /\ ResultOrder(r).side = "sell"
  /\ Running(ResultOrder(r).symbol) - r.filled <= 0

RecordNothing(r) ==
  /\ pc = "record" /\ r \in results
  /\ ~Counts(r)
  /\ results' = results \ {r}
  /\ UNCHANGED <<dbVars, kisVars, pc, booting, todo, answer, remaining,
                 balance, plan, sending, faults>>

\* Opened is upserted; a further buy only adds to the running quantity.
RecordBuy(r) ==
  LET s == ResultOrder(r).symbol IN
  /\ pc = "record" /\ r \in results
  /\ Counts(r) /\ ResultOrder(r).side = "buy"
  /\ results' = results \ {r}
  /\ remaining' = [remaining EXCEPT ![s] = Running(s) + r.filled]
  /\ positions' = IF Opens(r)
                  THEN [positions EXCEPT ![s] = [qty |-> r.filled,
                                                 entry |-> r.order]]
                  ELSE positions
  /\ UNCHANGED <<orders, killSwitch, kisVars, pc, booting, todo, answer,
                 balance, plan, sending, faults>>

\* Closed deletes the row; a sale that leaves shares changes nothing stored.
RecordSell(r) ==
  LET s == ResultOrder(r).symbol IN
  /\ pc = "record" /\ r \in results
  /\ Counts(r) /\ ResultOrder(r).side = "sell"
  /\ results' = results \ {r}
  /\ remaining' = [remaining EXCEPT ![s] = Running(s) - r.filled]
  /\ positions' = IF Closes(r) THEN [positions EXCEPT ![s] = None]
                  ELSE positions
  /\ UNCHANGED <<orders, killSwitch, kisVars, pc, booting, todo, answer,
                 balance, plan, sending, faults>>

-----------------------------------------------------------------------------
(* reconcile(), part 3: compare the account with table positions.            *)

\* Faulty variant: holdings without a row are overlooked.
MismatchesDbOnly(holdings) ==
  {s \in Symbols : positions[s] # None /\ holdings[s] = 0}

\* Symbols on one side only: db_only or broker_only.
Mismatches(holdings) ==
  {s \in Symbols : (positions[s] = None) # (holdings[s] = 0)}

\* broker.positions() and the comparison.  A mismatch ends the process; the
\* reconcile() before the loop is followed by the loop, the others by a cycle.
CompareBalance ==
  /\ pc = "record" /\ results = {}
  /\ remaining' = [s \in Symbols |-> None]
  /\ IF Mismatches(account) # {}
     THEN pc' = "halted" /\ balance' = [s \in Symbols |-> 0]
     ELSE IF booting
     THEN pc' = "poll" /\ balance' = [s \in Symbols |-> 0]
     ELSE pc' = "decide" /\ balance' = account
  /\ UNCHANGED <<dbVars, kisVars, booting, todo, answer, results, plan,
                 sending, faults>>

-----------------------------------------------------------------------------
(* run_cycle(): strategy, gate, kill switch, order generator.                *)

\* Symbols the gate lets into the target: every held symbol, and new entries
\* while slots last.  A held symbol signalled for exit frees its slot.
GatePasses(signalled, entries) ==
  \/ entries = {}
  \/ Cardinality(HeldSymbols \ signalled) + Cardinality(entries)
       <= MaxPositions

\* Faulty variant: CycleConfig.check_killswitch is off in live trading.
KillSwitchIgnored(entries) == TRUE

\* The kill switch drops new entries and nothing else.
KillSwitchPasses(entries) == killSwitch => entries = {}

\* Symbols to_orders() may issue an order for.
Orderable(S) == S \ PendingSymbols

\* Faulty variant: exits are generated whether or not one is already out.
OrdersRepeatingExits(signalled, bought, qty) ==
  {[symbol |-> s, side |-> "sell", qty |-> balance[s]] : s \in signalled}
  \cup {[symbol |-> s, side |-> "buy", qty |-> qty[s]] : s \in Orderable(bought)}

\* Every order generated in one cycle: a full sale of each signalled symbol,
\* a purchase for each bought one.
OrdersFor(signalled, bought, qty) ==
  {[symbol |-> s, side |-> "sell", qty |-> balance[s]] :
     s \in Orderable(signalled)}
  \cup {[symbol |-> s, side |-> "buy", qty |-> qty[s]] : s \in Orderable(bought)}

\* Order ids left: the bound on the number of orders of a behaviour.
FreeIds == {o \in OrderIds : orders[o] = None}

\* Watchlist, judgements, prices and cash decide which held symbols are
\* signalled, which are topped up, which entries are offered and in which
\* quantity: any choice.
Decide ==
  /\ pc = "decide"
  /\ \E signalled \in SUBSET HeldSymbols :
     \E topUps \in SUBSET (HeldSymbols \ signalled) :
     \E entries \in SUBSET (Symbols \ HeldSymbols) :
     \E qty \in [Symbols -> Quantities] :
       /\ GatePasses(signalled, entries)
       /\ KillSwitchPasses(entries)
       /\ plan' = OrdersFor(signalled, topUps \cup entries, qty)
       /\ Cardinality(plan') <= Cardinality(FreeIds)
  /\ pc' = "submit"
  /\ balance' = [s \in Symbols |-> 0]
  /\ UNCHANGED <<dbVars, kisVars, booting, todo, answer, results, remaining,
                 sending, faults>>

-----------------------------------------------------------------------------
(* KisBroker.submit().                                                       *)

\* _submit_one() writes the order as unknown before it calls KIS.  Exits come
\* first in the list.
InsertOrder(x, o) ==
  /\ pc = "submit" /\ x \in plan /\ o \in FreeIds
  /\ x.side = "sell" \/ \A y \in plan : y.side = "buy"
  /\ plan' = plan \ {x}
  /\ orders' = [orders EXCEPT ![o] =
       [symbol |-> x.symbol, side |-> x.side, qty |-> x.qty,
        status |-> "unknown", odno |-> FALSE, filled |-> 0]]
  /\ sending' = o
  /\ pc' = "send"
  /\ UNCHANGED <<positions, killSwitch, kisVars, booting, todo, answer,
                 results, remaining, balance, faults>>

\* Faulty variant: a transport error is taken for a refusal.
TransportErrorRejects ==
  /\ pc \in {"send", "ack"}
  /\ faults.lost < MaxLost
  /\ faults' = [faults EXCEPT !.lost = @ + 1]
  /\ orders' = [orders EXCEPT ![sending].status = "rejected"]
  /\ pc' = "submit"
  /\ sending' = None
  /\ UNCHANGED <<positions, killSwitch, kisVars, booting, todo, answer,
                 results, remaining, balance, plan>>

\* httpx.HTTPError: the row stays unknown, the next order is submitted.  The
\* request was lost on its way, or its answer was.
TransportError ==
  /\ pc \in {"send", "ack"}
  /\ faults.lost < MaxLost
  /\ faults' = [faults EXCEPT !.lost = @ + 1]
  /\ pc' = "submit"
  /\ sending' = None
  /\ UNCHANGED <<dbVars, kisVars, booting, todo, answer, results, remaining,
                 balance, plan>>

\* The answer carried a broker order number.
WriteSubmitted ==
  /\ pc = "ack"
  /\ orders' = [orders EXCEPT ![sending].status = "submitted",
                              ![sending].odno = TRUE]
  /\ pc' = "submit"
  /\ sending' = None
  /\ UNCHANGED <<positions, killSwitch, kisVars, booting, todo, answer,
                 results, remaining, balance, plan, faults>>

\* KisError: KIS refused the order.
WriteRejected ==
  /\ pc = "nack"
  /\ orders' = [orders EXCEPT ![sending].status = "rejected"]
  /\ pc' = "submit"
  /\ sending' = None
  /\ UNCHANGED <<positions, killSwitch, kisVars, booting, todo, answer,
                 results, remaining, balance, plan, faults>>

\* Nothing left to submit: cycle_log, heartbeat, sleep.
EndCycle ==
  /\ pc = "submit" /\ plan = {}
  /\ pc' = "poll"
  /\ UNCHANGED <<dbVars, kisVars, booting, todo, answer, results, remaining,
                 balance, plan, sending, faults>>

-----------------------------------------------------------------------------
(* The exchange (external).                                                  *)

\* KIS accepts the order being sent; it has the shares for a sale.
Accept ==
  /\ pc = "send"
  /\ orders[sending].side = "sell" =>
       orders[sending].qty <= account[orders[sending].symbol]
  /\ kis' = [kis EXCEPT ![sending] = [filled |-> 0, state |-> "working"]]
  /\ pc' = "ack"
  /\ UNCHANGED <<dbVars, account, booting, todo, answer, results, remaining,
                 balance, plan, sending, faults>>

Refuse ==
  /\ pc = "send"
  /\ pc' = "nack"
  /\ UNCHANGED <<dbVars, kisVars, booting, todo, answer, results, remaining,
                 balance, plan, sending, faults>>

\* Some shares of a working order trade.
Fill(o) ==
  /\ Working(o)
  /\ \E n \in 1..(orders[o].qty - kis[o].filled) :
       /\ PartialFills \/ n = orders[o].qty - kis[o].filled
       /\ orders[o].side = "sell" => n <= account[orders[o].symbol]
       /\ kis' = [kis EXCEPT ![o].filled = @ + n]
       /\ account' = [account EXCEPT ![orders[o].symbol] =
                        IF orders[o].side = "buy" THEN @ + n ELSE @ - n]
  /\ UNCHANGED <<dbVars, procVars, faults>>

\* What is left of a working order is cancelled (cncl_yn) or, untouched,
\* rejected by the exchange (rjct_qty).
Withdraw(o, outcome) ==
  /\ Working(o)
  /\ outcome = "rejected" => kis[o].filled = 0
  /\ kis' = [kis EXCEPT ![o].state = outcome]
  /\ UNCHANGED <<account, dbVars, procVars, faults>>

\* Somebody trades in the same account by hand.
ManualTrade(s, n) ==
  /\ faults.manual < MaxManual
  /\ n # account[s]
  /\ account' = [account EXCEPT ![s] = n]
  /\ faults' = [faults EXCEPT !.manual = @ + 1]
  /\ UNCHANGED <<kis, dbVars, procVars>>

-----------------------------------------------------------------------------
Resolve == \E o \in OrderIds : QueryWithoutRow(o) \/ QueryOrder(o)

Record == \E r \in results : RecordNothing(r) \/ RecordBuy(r) \/ RecordSell(r)

Submit == \E x \in plan, o \in OrderIds : InsertOrder(x, o)

Process ==
  \/ Crash \/ Restart \/ OperatorRestart
  \/ TelegramCommand \/ BeginReconcile
  \/ Resolve \/ WriteStatus \/ ReadHeld
  \/ Record \/ CompareBalance
  \/ Decide
  \/ Submit \/ TransportError \/ WriteSubmitted \/ WriteRejected \/ EndCycle

Exchange ==
  \/ Accept \/ Refuse
  \/ \E o \in OrderIds :
       Fill(o) \/ Withdraw(o, "cancelled") \/ Withdraw(o, "rejected")
  \/ \E s \in Symbols : \E n \in 0..MaxQty : ManualTrade(s, n)

Next == Process \/ Exchange

Spec == Init /\ [][Next]_vars

\* The daemon keeps running while it may: a started cycle goes on, a crashed
\* process is restarted by its supervisor, an order that is asked about again
\* and again is sometimes shown by KIS.  The exchange answers a request and
\* settles or withdraws a working order.  Nothing obliges a person to restart
\* a halted process, to send a command or to trade by hand.
Fairness ==
  /\ WF_vars(Restart) /\ WF_vars(BeginReconcile) /\ WF_vars(Resolve)
  /\ WF_vars(WriteStatus) /\ WF_vars(ReadHeld) /\ WF_vars(Record)
  /\ WF_vars(CompareBalance) /\ WF_vars(Decide) /\ WF_vars(Submit)
  /\ WF_vars(WriteSubmitted) /\ WF_vars(WriteRejected) /\ WF_vars(EndCycle)
  /\ WF_vars(Accept \/ Refuse)
  /\ \A o \in OrderIds : SF_vars(QueryOrder(o))
  /\ \A o \in OrderIds :
       WF_vars(Fill(o) \/ Withdraw(o, "cancelled") \/ Withdraw(o, "rejected"))

FairSpec == Spec /\ Fairness

-----------------------------------------------------------------------------
(* Properties.                                                               *)

\* At no moment, across crashes, lost answers and restarts, do two orders of
\* one symbol await their outcome: no second order is generated while
\* pending_order_symbols holds the symbol.
OneOutstandingOrder ==
  \A o, p \in OrderIds :
    /\ Unresolved(o) /\ Unresolved(p)
    /\ orders[o].symbol = orders[p].symbol
    => o = p

\* An order that can still trade is never written off as filled, cancelled or
\* rejected: resolve_unknown() keeps asking for it.
NoWorkingOrderWrittenOff == \A o \in OrderIds : Working(o) => Unresolved(o)

\* An order generated, on its way or working never sells more shares than the
\* account holds, although quantities come from a balance read earlier.
NoOversell ==
  /\ \A x \in plan : x.side = "sell" => x.qty <= account[x.symbol]
  /\ \A o \in OrderIds :
       /\ Working(o)
       /\ orders[o].side = "sell"
       => orders[o].qty - kis[o].filled <= account[orders[o].symbol]
  /\ /\ pc = "send"
     /\ orders[sending].side = "sell"
     => orders[sending].qty <= account[orders[sending].symbol]

\* A final status is never stored before the fills that led to it: a crash
\* between the two writes of _resolve_one() loses neither.
FinalRowsCarryTheirFills ==
  \A o \in OrderIds :
    Exists(o) /\ ~Unresolved(o) /\ kis[o] # None
      => orders[o].filled = kis[o].filled

\* While the kill switch is engaged no order opens a new position, whatever
\* was decided before; exits and top-ups go on.
KillSwitchStopsEntries ==
  [][\A o \in OrderIds :
       /\ killSwitch
       /\ orders[o] = None /\ orders'[o] # None
       /\ orders'[o].side = "buy"
       => orders'[o].symbol \in HeldSymbols]_vars

\* Rule 1 of engine/fills.py: what was fixed at entry (time, price, exit rule)
\* stays as it is until the position is closed.
EntryStaysFixed ==
  [][\A s \in Symbols :
       positions[s] # None /\ positions'[s] # None
         => positions'[s] = positions[s]]_vars

\* Outside the recording of fills, table positions lists exactly the symbols
\* in the account, up to those with an order not yet final: as long as nothing
\* is traded by hand, the process does not die, and no order is withdrawn
\* after part of it has traded, a position is recorded for every entry and
\* dropped with every exit, however many pieces the fills come in.
QuietLedgerAgrees ==
  /\ pc \notin {"resolve", "record"}
  /\ faults.crash = 0 /\ faults.manual = 0
  /\ \A o \in OrderIds : kis[o] # None /\ kis[o].state # "working"
                           => kis[o].filled = 0
  => Mismatches(account) \subseteq PendingSymbols

\* Every order KIS confirmed with a number reaches a final status, unless the
\* daemon halts first.
AcceptedOrdersSettle ==
  \A o \in OrderIds :
    (Exists(o) /\ orders[o].odno) ~> (~Unresolved(o) \/ pc = "halted")

\* A symbol that is in table positions and not in the account, or the reverse, is
\* never carried along: whether somebody trades by hand, the process dies between
\* two steps or a fill is late, in the end either the books agree again or the
\* daemon halts (engine/reconcile.py, reconcile()).
DisagreementIsNoticed ==
  \A s \in Symbols :
    ((positions[s] = None) # (account[s] = 0))
      ~> (pc = "halted" \/ (positions[s] = None) = (account[s] = 0))

\* The lifecycle implements OrderDesk: its shares are the account, the order at
\* work for a symbol is the one that can still trade at the exchange.
WorkOf(s) ==
  IF \E o \in OrderIds : Working(o) /\ orders[o].symbol = s
  THEN LET o == CHOOSE o \in OrderIds : Working(o) /\ orders[o].symbol = s
       IN [side |-> orders[o].side, left |-> orders[o].qty - kis[o].filled]
  ELSE None

Desk == INSTANCE OrderDesk WITH
          Idle <- None, shares <- account, work <- [s \in Symbols |-> WorkOf(s)]

ImplementsOrderDesk == Desk!Spec

\* The comments of positions.upsert() and delete(): a fill resolved before a
\* crash is applied again after the restart, so that a halt only ever concerns
\* orders that are still open.
HaltConcernsOpenOrders ==
  pc = "halted" => Mismatches(account) \subseteq PendingSymbols
=============================================================================
