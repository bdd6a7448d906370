------------------------- MODULE LiveTradingProofs -------------------------
(***************************************************************************)
(* Theorems about LiveTrading, for every set of symbols and order ids and  *)
(* every bound.                                                            *)
(***************************************************************************)
EXTENDS LiveTrading, TLAPS

-----------------------------------------------------------------------------
(* The inductive invariant.                                                  *)

\* A local variable is in use only while main() is where it uses it.
LocalsInPlace ==
  /\ todo # {} => pc = "resolve"
  /\ answer # None => pc = "resolve"
  /\ results # {} => pc \in {"resolve", "record"}
  /\ plan # {} => pc \in {"submit", "send", "ack", "nack"}
  /\ (sending # None) <=> (pc \in {"send", "ack", "nack"})

\* Ids held in local variables and at the exchange name rows that exist, and
\* those being asked about, or sent, are not final.
IdsNameRows ==
  /\ \A o \in OrderIds : kis[o] # None => Exists(o)
  /\ \A o \in todo : Unresolved(o)
  /\ answer # None => /\ Unresolved(answer.order)
                      /\ kis[answer.order] # None
                      /\ answer.order \notin todo
  /\ \A r \in results : Exists(r.order)
  /\ sending # None => Unresolved(sending)

\* An answer that is final was final at the exchange when it was given, and
\* so it stays.  An order not answered yet is unknown to the exchange.
AnswersAreTrue ==
  /\ answer # None => answer.status \in UNRESOLVED_STATUSES
                      \/ ~Working(answer.order)
  /\ pc \in {"send", "nack"} => kis[sending] = None

\* The orders still to be submitted are for symbols nothing is pending for,
\* one for each.
PlanIsFresh ==
  /\ \A x \in plan, o \in OrderIds : Unresolved(o) => orders[o].symbol # x.symbol
  /\ \A x, y \in plan : x.symbol = y.symbol => x = y

\* What is stored of an order's fills never runs ahead of the exchange; behind
\* a final answer it has caught up, and so it stays: a final order is not
\* working.
FillsAreStored ==
  /\ \A o \in OrderIds : Exists(o) =>
       IF kis[o] = None THEN orders[o].filled = 0
       ELSE orders[o].filled <= kis[o].filled
  /\ answer # None /\ answer.status \notin UNRESOLVED_STATUSES
       => orders[answer.order].filled = kis[answer.order].filled
  /\ FinalRowsCarryTheirFills

\* With the kill switch engaged the purchases still to be submitted top up.
PlanObeysKillSwitch ==
  killSwitch => \A x \in plan : x.side = "buy" => x.symbol \in HeldSymbols

\* position_changes() knows of every position it could overwrite.
JudgesWhatIsStored ==
  pc = "record" => \A s \in HeldSymbols : remaining[s] # None

\* What a cycle decides on agreed with the account when it was compared, so that
\* what is sold for a held symbol is a positive quantity.
DecidesOnAgreedLedger ==
  pc = "decide" => \A s \in Symbols : (positions[s] = None) = (balance[s] = 0)

IInv ==
  /\ TypeOK
  /\ LocalsInPlace
  /\ IdsNameRows
  /\ AnswersAreTrue
  /\ DecidesOnAgreedLedger
  /\ NoWorkingOrderWrittenOff
  /\ OneOutstandingOrder
  /\ PlanIsFresh
  /\ FillsAreStored
  /\ PlanObeysKillSwitch
  /\ JudgesWhatIsStored

\* Without trades by hand: the account holds what the cycle is about to sell.
InStock ==
  /\ pc = "decide" => \A s \in Symbols \ PendingSymbols : balance[s] <= account[s]
  /\ NoOversell

-----------------------------------------------------------------------------
LEMMA InitIInv == Init => IInv
<1> SUFFICES ASSUME Init PROVE IInv
  OBVIOUS
<1>1. TypeOK
  BY BoundAssumption DEF Init, TypeOK, Places
<1>2. LocalsInPlace /\ IdsNameRows /\ AnswersAreTrue
  BY DEF Init, LocalsInPlace, IdsNameRows, AnswersAreTrue
<1>3. DecidesOnAgreedLedger /\ NoWorkingOrderWrittenOff
  BY DEF Init, DecidesOnAgreedLedger, NoWorkingOrderWrittenOff, Working
<1>4. OneOutstandingOrder /\ PlanIsFresh
  BY DEF Init, OneOutstandingOrder, PlanIsFresh, Unresolved, Exists
<1>5. FillsAreStored /\ PlanObeysKillSwitch /\ JudgesWhatIsStored
  BY DEF Init, FillsAreStored, FinalRowsCarryTheirFills, PlanObeysKillSwitch,
         JudgesWhatIsStored, Exists
<1> QED
  BY <1>1, <1>2, <1>3, <1>4, <1>5 DEF IInv

\* A result names an order, and the running quantity of its symbol is a number.
LEMMA ResultsAreSound ==
  ASSUME IInv, NEW r \in results
  PROVE  /\ r \in Result /\ ResultOrder(r).symbol \in Symbols
         /\ Running(ResultOrder(r).symbol) + r.filled \in Int
         /\ Running(ResultOrder(r).symbol) - r.filled \in Int
<1>1. r \in Result /\ ResultOrder(r).symbol \in Symbols
  BY DEF IInv, TypeOK, IdsNameRows, Exists, Result, ResultOrder, OrderRow
<1> QED
  BY <1>1 DEF Running, IInv, TypeOK, Result

-----------------------------------------------------------------------------
(* Every step keeps the types.                                               *)

LEMMA TypeStep == IInv /\ [Next]_vars => TypeOK'
<1> SUFFICES ASSUME IInv, [Next]_vars PROVE TypeOK'
  OBVIOUS
<1> USE DEF TypeOK, dbVars, kisVars, procVars, vars
<1>0. TypeOK
  BY DEF IInv
<1>1. CASE Crash
  BY <1>0, <1>1 DEF Crash, Places
<1>2. CASE Restart
  BY <1>0, <1>2 DEF Restart, Places
<1>3. CASE OperatorRestart
  BY <1>0, <1>3 DEF OperatorRestart, Places
<1>4. CASE TelegramCommand
  BY <1>0, <1>4 DEF TelegramCommand
<1>5. CASE BeginReconcile
  BY <1>0, <1>5 DEF BeginReconcile, Places
<1>6. CASE Resolve
  <2> PICK o \in OrderIds : QueryWithoutRow(o) \/ QueryOrder(o)
    BY <1>6 DEF Resolve
  <2>1. CASE QueryWithoutRow(o)
    <3>1. orders[o].status \in OrderStatus
      BY <1>0, <2>1 DEF QueryWithoutRow, IInv, IdsNameRows, Unresolved, Exists,
                        OrderRow
    <3>2. [order |-> o, status |-> orders[o].status, filled |-> 0] \in Result
      BY <3>1 DEF Result
    <3> QED
      BY <1>0, <2>1, <3>2 DEF QueryWithoutRow
  <2>2. CASE QueryOrder(o)
    <3>1. orders[o] \in OrderRow /\ kis[o] \in KisRow
      BY <1>0, <2>2 DEF QueryOrder, IInv, IdsNameRows, Unresolved, Exists
    <3>2. answer' \in Result
      BY <2>2, <3>1 DEF QueryOrder, Result, StatusOf, OrderStatus, KisRow
    <3>3. orders' \in [OrderIds -> OrderRow \cup {None}]
      <4>1. [orders[o] EXCEPT !.filled = kis[o].filled] \in OrderRow
        BY <3>1 DEF OrderRow, KisRow
      <4> QED
        BY <1>0, <2>2, <4>1 DEF QueryOrder
    <3> QED
      BY <1>0, <2>2, <3>2, <3>3 DEF QueryOrder
  <2> QED
    BY <2>1, <2>2
<1>7. CASE WriteStatus
  <2>1. answer \in Result
    BY <1>0, <1>7 DEF WriteStatus
  <2>2. orders[answer.order] \in OrderRow
    BY <1>0, <1>7, <2>1 DEF WriteStatus, IInv, IdsNameRows, Unresolved, Exists,
                            Result
  <2>3. [orders[answer.order] EXCEPT !.status = answer.status] \in OrderRow
    BY <2>1, <2>2 DEF OrderRow, Result
  <2> QED
    BY <1>0, <1>7, <2>1, <2>3 DEF WriteStatus, Result
<1>8. CASE ReadHeld
  <2>1. \A s \in Symbols :
           (IF positions[s] = None THEN None ELSE positions[s].qty)
             \in Int \cup {None}
    BY <1>0 DEF PositionRow
  <2> QED
    BY <1>0, <1>8, <2>1 DEF ReadHeld, Places
<1>9. CASE Record
  <2> PICK r \in results : RecordNothing(r) \/ RecordBuy(r) \/ RecordSell(r)
    BY <1>9 DEF Record
  <2> DEFINE s == ResultOrder(r).symbol
  <2>1. r \in Result /\ s \in Symbols
    BY ResultsAreSound
  <2>2. Running(s) + r.filled \in Int /\ Running(s) - r.filled \in Int
    BY ResultsAreSound
  <2> HIDE DEF s
  <2>3. CASE RecordNothing(r)
    BY <1>0, <2>3 DEF RecordNothing
  <2>4. CASE RecordBuy(r)
    <3>1. [qty |-> r.filled, entry |-> r.order] \in PositionRow
      BY <2>1, <2>4 DEF RecordBuy, Counts, PositionRow, Result
    <3> QED
      BY <1>0, <2>1, <2>2, <2>4, <3>1 DEF RecordBuy, s
  <2>5. CASE RecordSell(r)
    BY <1>0, <2>1, <2>2, <2>5 DEF RecordSell, s
  <2> QED
    BY <2>3, <2>4, <2>5
<1>10. CASE CompareBalance
  BY <1>0, <1>10 DEF CompareBalance, Places
<1>11. CASE Decide
  <2> PICK signalled \in SUBSET HeldSymbols, topUps \in SUBSET HeldSymbols,
           entries \in SUBSET (Symbols \ HeldSymbols),
           qty \in [Symbols -> Quantities] :
             plan' = OrdersFor(signalled, topUps \cup entries, qty)
    BY <1>11 DEF Decide
  <2>1. \A s \in HeldSymbols : s \in Symbols /\ balance[s] \in Nat \ {0}
    BY <1>0, <1>11 DEF Decide, IInv, DecidesOnAgreedLedger, HeldSymbols
  <2>2. \A s \in Symbols : qty[s] \in Nat \ {0}
    BY DEF Quantities
  <2>3. plan' \subseteq Request
    BY <2>1, <2>2 DEF OrdersFor, Orderable, Request, Sides, HeldSymbols
  <2> QED
    BY <1>0, <1>11, <2>3 DEF Decide, Places
<1>12. CASE Submit
  <2> PICK x \in plan, o \in OrderIds : InsertOrder(x, o)
    BY <1>12 DEF Submit
  <2>1. [symbol |-> x.symbol, side |-> x.side, qty |-> x.qty,
         status |-> "unknown", odno |-> FALSE, filled |-> 0] \in OrderRow
    BY <1>0 DEF Request, OrderRow, OrderStatus
  <2> QED
    BY <1>0, <2>1 DEF InsertOrder, Places
<1>13. CASE TransportError
  BY <1>0, <1>13 DEF TransportError, Places
<1>14. CASE WriteSubmitted
  <2>1. sending \in OrderIds /\ orders[sending] \in OrderRow
    BY <1>0, <1>14 DEF WriteSubmitted, IInv, LocalsInPlace, IdsNameRows,
                       Unresolved, Exists
  <2>2. [orders[sending] EXCEPT !.status = "submitted", !.odno = TRUE]
          \in OrderRow
    BY <2>1 DEF OrderRow, OrderStatus
  <2> QED
    BY <1>0, <1>14, <2>1, <2>2 DEF WriteSubmitted, Places
<1>15. CASE WriteRejected
  <2>1. sending \in OrderIds /\ orders[sending] \in OrderRow
    BY <1>0, <1>15 DEF WriteRejected, IInv, LocalsInPlace, IdsNameRows,
                       Unresolved, Exists
  <2>2. [orders[sending] EXCEPT !.status = "rejected"] \in OrderRow
    BY <2>1 DEF OrderRow, OrderStatus
  <2> QED
    BY <1>0, <1>15, <2>1, <2>2 DEF WriteRejected, Places
<1>16. CASE EndCycle
  BY <1>0, <1>16 DEF EndCycle, Places
<1>17. CASE Accept
  <2>1. [filled |-> 0, state |-> "working"] \in KisRow
    BY DEF KisRow
  <2> QED
    BY <1>0, <1>17, <2>1 DEF Accept, Places
<1>18. CASE Refuse
  BY <1>0, <1>18 DEF Refuse, Places
<1>19. ASSUME NEW o \in OrderIds, Fill(o) PROVE TypeOK'
  <2> DEFINE s == orders[o].symbol
  <2>1. orders[o] \in OrderRow /\ kis[o] \in KisRow /\ s \in Symbols
    BY <1>0, <1>19 DEF Fill, Working, IInv, IdsNameRows, Exists, OrderRow
  <2> PICK n \in 1..(orders[o].qty - kis[o].filled) :
        /\ orders[o].side = "sell" => n <= account[s]
        /\ kis' = [kis EXCEPT ![o].filled = @ + n]
        /\ account' = [account EXCEPT ![s] =
                         IF orders[o].side = "buy" THEN @ + n ELSE @ - n]
    BY <1>19 DEF Fill
  <2>2. n \in Nat
    BY <2>1 DEF OrderRow, KisRow
  <2>3. [kis[o] EXCEPT !.filled = @ + n] \in KisRow
    BY <2>1, <2>2 DEF KisRow
  <2>4. (IF orders[o].side = "buy" THEN account[s] + n ELSE account[s] - n)
          \in Nat
    BY <1>0, <2>1, <2>2 DEF OrderRow, Sides
  <2> HIDE DEF s
  <2> QED
    BY <1>0, <1>19, <2>1, <2>3, <2>4 DEF Fill
<1>20. ASSUME NEW o \in OrderIds, NEW outcome \in {"cancelled", "rejected"},
              Withdraw(o, outcome)
       PROVE TypeOK'
  <2>1. kis[o] \in KisRow
    BY <1>0, <1>20 DEF Withdraw, Working
  <2>2. [kis[o] EXCEPT !.state = outcome] \in KisRow
    BY <2>1 DEF KisRow
  <2> QED
    BY <1>0, <1>20, <2>2 DEF Withdraw
<1>21. ASSUME NEW s \in Symbols, NEW n \in 0..MaxQty, ManualTrade(s, n)
       PROVE TypeOK'
  BY <1>0, <1>21, BoundAssumption DEF ManualTrade
<1>22. CASE UNCHANGED vars
  BY <1>0, <1>22
<1> QED
  BY <1>1, <1>2, <1>3, <1>4, <1>5, <1>6, <1>7, <1>8, <1>9, <1>10, <1>11,
     <1>12, <1>13, <1>14, <1>15, <1>16, <1>17, <1>18, <1>19, <1>20, <1>21,
     <1>22 DEF Next, Process, Exchange

-----------------------------------------------------------------------------
(* Every step keeps the local variables in their place.                      *)

LEMMA LocalsStep == IInv /\ [Next]_vars => LocalsInPlace'
<1> SUFFICES ASSUME IInv, [Next]_vars PROVE LocalsInPlace'
  OBVIOUS
<1> USE DEF LocalsInPlace, dbVars, kisVars, procVars, vars
<1>0. LocalsInPlace /\ TypeOK
  BY DEF IInv
<1>1. CASE Crash \/ Restart \/ OperatorRestart \/ TelegramCommand \/ BeginReconcile
  BY <1>0, <1>1 DEF Crash, Restart, OperatorRestart, TelegramCommand,
                    BeginReconcile
<1>2. CASE Resolve \/ WriteStatus \/ ReadHeld
  BY <1>0, <1>2 DEF Resolve, QueryWithoutRow, QueryOrder, WriteStatus, ReadHeld
<1>3. CASE Record \/ CompareBalance \/ Decide
  BY <1>0, <1>3 DEF Record, RecordNothing, RecordBuy, RecordSell,
                    CompareBalance, Decide
<1>4. CASE Submit
  BY <1>0, <1>4, NoneAssumption DEF Submit, InsertOrder
<1>5. CASE TransportError \/ WriteSubmitted \/ WriteRejected \/ EndCycle
  BY <1>0, <1>5 DEF TransportError, WriteSubmitted, WriteRejected, EndCycle
<1>6. CASE Exchange \/ UNCHANGED vars
  BY <1>0, <1>6 DEF Exchange, Accept, Refuse, Fill, Withdraw, ManualTrade
<1> QED
  BY <1>1, <1>2, <1>3, <1>4, <1>5, <1>6 DEF Next, Process

-----------------------------------------------------------------------------
(* What the writes of one row do, in terms the other lemmas use.             *)

\* Only the row of order o changes: its status and its fills.
EditsOrder(o, status, filled) ==
  /\ \A p \in OrderIds \ {o} : orders'[p] = orders[p]
  /\ orders[o] \in OrderRow /\ orders'[o] \in OrderRow
  /\ orders'[o].symbol = orders[o].symbol
  /\ orders'[o].side = orders[o].side
  /\ orders'[o].qty = orders[o].qty
  /\ orders'[o].status = status
  /\ orders'[o].filled = filled

\* Only what KIS knows of order o changes.
EditsKis(o, filled, state) ==
  /\ \A p \in OrderIds \ {o} : kis'[p] = kis[p]
  /\ kis'[o] \in KisRow
  /\ kis'[o].filled = filled
  /\ kis'[o].state = state

LEMMA QueryEdits ==
  ASSUME IInv, NEW o \in OrderIds, QueryOrder(o)
  PROVE  /\ kis[o] \in KisRow
         /\ Unresolved(o)
         /\ EditsOrder(o, orders[o].status,
                       IF kis[o].filled > 0 THEN kis[o].filled
                       ELSE orders[o].filled)
<1>1. orders[o] \in OrderRow /\ kis[o] \in KisRow /\ Unresolved(o)
  BY DEF IInv, TypeOK, QueryOrder, IdsNameRows, Unresolved, Exists
<1> DEFINE row == [orders[o] EXCEPT !.filled = kis[o].filled]
<1>2. /\ row \in OrderRow
      /\ row.symbol = orders[o].symbol /\ row.side = orders[o].side
      /\ row.qty = orders[o].qty /\ row.status = orders[o].status
      /\ row.filled = kis[o].filled
  BY <1>1 DEF OrderRow, KisRow
<1>3. orders' = IF kis[o].filled > 0 THEN [orders EXCEPT ![o] = row] ELSE orders
  BY DEF QueryOrder
<1> HIDE DEF row
<1> QED
  BY <1>1, <1>2, <1>3 DEF EditsOrder, IInv, TypeOK

LEMMA WriteStatusEdits ==
  ASSUME IInv, WriteStatus
  PROVE  /\ answer \in Result /\ answer.order \in OrderIds
         /\ Unresolved(answer.order)
         /\ EditsOrder(answer.order, answer.status, orders[answer.order].filled)
<1> DEFINE o == answer.order
<1>1. answer \in Result /\ o \in OrderIds /\ Unresolved(o)
  BY DEF IInv, TypeOK, WriteStatus, IdsNameRows, Result
<1>2. orders[o] \in OrderRow
  BY <1>1 DEF IInv, TypeOK, Unresolved, Exists
<1> DEFINE row == [orders[o] EXCEPT !.status = answer.status]
<1>3. /\ row \in OrderRow
      /\ row.symbol = orders[o].symbol /\ row.side = orders[o].side
      /\ row.qty = orders[o].qty /\ row.status = answer.status
      /\ row.filled = orders[o].filled
  BY <1>1, <1>2 DEF OrderRow, Result
<1>4. orders' = [orders EXCEPT ![o] = row]
  BY DEF WriteStatus
<1> HIDE DEF row
<1> QED
  BY <1>1, <1>2, <1>3, <1>4 DEF EditsOrder, IInv, TypeOK

LEMMA SendingIsUnresolved ==
  ASSUME IInv, pc \in {"send", "ack", "nack"}
  PROVE  /\ sending \in OrderIds /\ orders[sending] \in OrderRow
         /\ Unresolved(sending)
BY DEF IInv, TypeOK, LocalsInPlace, IdsNameRows, Unresolved, Exists

LEMMA WriteSubmittedEdits ==
  ASSUME IInv, WriteSubmitted
  PROVE  EditsOrder(sending, "submitted", orders[sending].filled)
<1>1. sending \in OrderIds /\ orders[sending] \in OrderRow
  BY SendingIsUnresolved DEF WriteSubmitted
<1> DEFINE row == [orders[sending] EXCEPT !.status = "submitted", !.odno = TRUE]
<1>2. /\ row \in OrderRow
      /\ row.symbol = orders[sending].symbol /\ row.side = orders[sending].side
      /\ row.qty = orders[sending].qty /\ row.status = "submitted"
      /\ row.filled = orders[sending].filled
  BY <1>1 DEF OrderRow, OrderStatus
<1>3. orders' = [orders EXCEPT ![sending] = row]
  BY <1>1 DEF WriteSubmitted, IInv, TypeOK
<1> HIDE DEF row
<1> QED
  BY <1>1, <1>2, <1>3 DEF EditsOrder, IInv, TypeOK

LEMMA WriteRejectedEdits ==
  ASSUME IInv, WriteRejected
  PROVE  EditsOrder(sending, "rejected", orders[sending].filled)
<1>1. sending \in OrderIds /\ orders[sending] \in OrderRow
  BY SendingIsUnresolved DEF WriteRejected
<1> DEFINE row == [orders[sending] EXCEPT !.status = "rejected"]
<1>2. /\ row \in OrderRow
      /\ row.symbol = orders[sending].symbol /\ row.side = orders[sending].side
      /\ row.qty = orders[sending].qty /\ row.status = "rejected"
      /\ row.filled = orders[sending].filled
  BY <1>1 DEF OrderRow, OrderStatus
<1>3. orders' = [orders EXCEPT ![sending] = row]
  BY DEF WriteRejected
<1> HIDE DEF row
<1> QED
  BY <1>1, <1>2, <1>3 DEF EditsOrder, IInv, TypeOK

\* A submission adds an order nothing is known of at the exchange.
LEMMA InsertAdds ==
  ASSUME IInv, NEW x \in plan, NEW o \in OrderIds, InsertOrder(x, o)
  PROVE  /\ \A p \in OrderIds \ {o} : orders'[p] = orders[p]
         /\ orders[o] = None /\ kis[o] = None
         /\ orders'[o] \in OrderRow /\ x \in Request
         /\ orders'[o].symbol = x.symbol /\ orders'[o].side = x.side
         /\ orders'[o].qty = x.qty
         /\ orders'[o].status = "unknown" /\ orders'[o].filled = 0
<1>1. x \in Request
  BY DEF IInv, TypeOK
<1>2. orders'[o] = [symbol |-> x.symbol, side |-> x.side, qty |-> x.qty,
                    status |-> "unknown", odno |-> FALSE, filled |-> 0]
  BY DEF InsertOrder, IInv, TypeOK
<1>3. orders'[o] \in OrderRow
  BY <1>1, <1>2 DEF Request, OrderRow, OrderStatus
<1>4. orders[o] = None /\ kis[o] = None
  BY DEF InsertOrder, FreeIds, IInv, IdsNameRows, Exists
<1> QED
  BY <1>1, <1>2, <1>3, <1>4 DEF InsertOrder, IInv, TypeOK

LEMMA AcceptEdits ==
  ASSUME IInv, Accept
  PROVE  kis[sending] = None /\ EditsKis(sending, 0, "working")
<1>1. sending \in OrderIds /\ kis[sending] = None
  BY SendingIsUnresolved DEF Accept, IInv, AnswersAreTrue
<1>2. [filled |-> 0, state |-> "working"] \in KisRow
  BY DEF KisRow
<1> QED
  BY <1>1, <1>2 DEF Accept, EditsKis, IInv, TypeOK

\* Only some shares of one order trade, in its own direction.
LEMMA FillEdits ==
  ASSUME IInv, NEW o \in OrderIds, Fill(o)
  PROVE  \E n \in Nat \ {0} :
           /\ kis[o] \in KisRow /\ orders[o] \in OrderRow
           /\ n <= orders[o].qty - kis[o].filled
           /\ EditsKis(o, kis[o].filled + n, kis[o].state)
           /\ orders[o].side = "sell" => n <= account[orders[o].symbol]
           /\ account' = [account EXCEPT ![orders[o].symbol] =
                            IF orders[o].side = "buy" THEN @ + n ELSE @ - n]
<1>1. kis[o] \in KisRow /\ orders[o] \in OrderRow
  BY DEF Fill, Working, IInv, TypeOK, IdsNameRows, Exists
<1> PICK n \in 1..(orders[o].qty - kis[o].filled) :
      /\ orders[o].side = "sell" => n <= account[orders[o].symbol]
      /\ kis' = [kis EXCEPT ![o].filled = @ + n]
      /\ account' = [account EXCEPT ![orders[o].symbol] =
                       IF orders[o].side = "buy" THEN @ + n ELSE @ - n]
  BY DEF Fill
<1>2. n \in Nat \ {0} /\ n <= orders[o].qty - kis[o].filled
  BY <1>1 DEF OrderRow, KisRow
<1> DEFINE row == [kis[o] EXCEPT !.filled = @ + n]
<1>3. row \in KisRow /\ row.filled = kis[o].filled + n /\ row.state = kis[o].state
  BY <1>1, <1>2 DEF KisRow
<1>4. kis' = [kis EXCEPT ![o] = row]
  OBVIOUS
<1> HIDE DEF row
<1>5. EditsKis(o, kis[o].filled + n, kis[o].state)
  BY <1>3, <1>4 DEF EditsKis, IInv, TypeOK
<1> QED
  BY <1>1, <1>2, <1>5

LEMMA WithdrawEdits ==
  ASSUME IInv, NEW o \in OrderIds, NEW outcome \in {"cancelled", "rejected"},
         Withdraw(o, outcome)
  PROVE  kis[o] \in KisRow /\ EditsKis(o, kis[o].filled, outcome)
<1>1. kis[o] \in KisRow
  BY DEF Withdraw, Working, IInv, TypeOK
<1> DEFINE row == [kis[o] EXCEPT !.state = outcome]
<1>2. row \in KisRow /\ row.filled = kis[o].filled /\ row.state = outcome
  BY <1>1 DEF KisRow
<1>3. kis' = [kis EXCEPT ![o] = row]
  BY DEF Withdraw
<1> HIDE DEF row
<1> QED
  BY <1>1, <1>2, <1>3 DEF EditsKis, IInv, TypeOK

-----------------------------------------------------------------------------
(* Every step keeps the ids pointing at rows.                                *)

LEMMA IdsStep == IInv /\ [Next]_vars => IdsNameRows'
<1> SUFFICES ASSUME IInv, [Next]_vars PROVE IdsNameRows'
  OBVIOUS
<1> USE DEF IdsNameRows, Exists, Unresolved, UNRESOLVED_STATUSES,
            dbVars, kisVars, procVars, vars
<1>0. IdsNameRows /\ LocalsInPlace /\ TypeOK
  BY DEF IInv
<1>1. CASE Crash \/ Restart \/ OperatorRestart \/ TelegramCommand
  BY <1>0, <1>1 DEF Crash, Restart, OperatorRestart, TelegramCommand
<1>2. CASE BeginReconcile
  BY <1>0, <1>2 DEF BeginReconcile, LocalsInPlace
<1>3. CASE Resolve
  <2> PICK o \in OrderIds : QueryWithoutRow(o) \/ QueryOrder(o)
    BY <1>3 DEF Resolve
  <2>1. CASE QueryWithoutRow(o)
    BY <1>0, <2>1 DEF QueryWithoutRow
  <2>2. CASE QueryOrder(o)
    <3>1. /\ answer'.order = o /\ todo' = todo \ {o} /\ results' = results
          /\ kis' = kis /\ sending' = sending /\ kis[o] # None
      BY <2>2 DEF QueryOrder
    <3>2. \A p \in OrderIds : /\ Exists(p) => Exists(p)'
                              /\ Unresolved(p) => Unresolved(p)'
      BY <2>2, QueryEdits, NoneAssumption DEF EditsOrder
    <3> QED
      BY <1>0, <3>1, <3>2, <2>2, QueryEdits DEF TypeOK, Result
  <2> QED
    BY <2>1, <2>2
<1>4. CASE WriteStatus
  <2>1. /\ answer' = None /\ results' = results \cup {answer} /\ todo' = todo
        /\ kis' = kis /\ sending' = sending /\ sending = None
    BY <1>0, <1>4 DEF WriteStatus, LocalsInPlace
  <2>2. \A p \in OrderIds : /\ Exists(p) => Exists(p)'
                            /\ p # answer.order /\ Unresolved(p) => Unresolved(p)'
    BY <1>4, WriteStatusEdits, NoneAssumption DEF EditsOrder
  <2>3. answer.order \notin todo
    BY <1>4, <1>0 DEF WriteStatus
  <2> QED
    BY <1>0, <1>4, <2>1, <2>2, <2>3, WriteStatusEdits DEF TypeOK, Result
<1>5. CASE ReadHeld \/ Record \/ CompareBalance \/ Decide
  BY <1>0, <1>5 DEF ReadHeld, Record, RecordNothing, RecordBuy, RecordSell,
                    CompareBalance, Decide
<1>6. CASE Submit
  <2> PICK x \in plan, o \in OrderIds : InsertOrder(x, o)
    BY <1>6 DEF Submit
  <2>1. sending' = o /\ kis' = kis /\ todo = {} /\ answer = None /\ results = {}
        /\ UNCHANGED <<todo, answer, results>>
    BY <1>0 DEF InsertOrder, LocalsInPlace
  <2>2. \A p \in OrderIds : Exists(p) => Exists(p)'
    BY InsertAdds, NoneAssumption
  <2>3. Unresolved(o)'
    BY InsertAdds, NoneAssumption
  <2> QED
    BY <1>0, <2>1, <2>2, <2>3
<1>7. CASE TransportError \/ EndCycle
  BY <1>0, <1>7 DEF TransportError, EndCycle
<1>8. CASE WriteSubmitted \/ WriteRejected
  <2>1. /\ todo = {} /\ answer = None /\ results = {} /\ sending' = None
        /\ UNCHANGED <<todo, answer, results, kis>>
    BY <1>0, <1>8 DEF WriteSubmitted, WriteRejected, LocalsInPlace
  <2>2. \A p \in OrderIds : Exists(p) => Exists(p)'
    BY <1>8, WriteSubmittedEdits, WriteRejectedEdits, NoneAssumption
       DEF EditsOrder
  <2> QED
    BY <1>0, <2>1, <2>2
<1>9. CASE Accept
  <2>1. answer = None /\ UNCHANGED <<orders, todo, answer, results, sending>>
    BY <1>0, <1>9 DEF Accept, LocalsInPlace
  <2> QED
    BY <1>0, <1>9, <2>1, AcceptEdits, SendingIsUnresolved DEF Accept, EditsKis
<1>10. CASE Refuse
  BY <1>0, <1>10 DEF Refuse
<1>11. ASSUME NEW o \in OrderIds, Fill(o) PROVE IdsNameRows'
  <2>1. UNCHANGED <<orders, todo, answer, results, sending>>
    BY <1>11 DEF Fill
  <2>2. kis'[o] \in KisRow /\ \A p \in OrderIds \ {o} : kis'[p] = kis[p]
    BY <1>11, FillEdits DEF EditsKis
  <2>3. kis[o] # None
    BY <1>11 DEF Fill, Working
  <2> QED
    BY <1>0, <2>1, <2>2, <2>3, NoneAssumption DEF TypeOK, Result
<1>12. ASSUME NEW o \in OrderIds, NEW outcome \in {"cancelled", "rejected"},
              Withdraw(o, outcome)
       PROVE IdsNameRows'
  <2>1. UNCHANGED <<orders, todo, answer, results, sending>>
    BY <1>12 DEF Withdraw
  <2>2. kis[o] # None /\ \A p \in OrderIds : kis[p] = None <=> kis'[p] = None
    BY <1>12, WithdrawEdits, NoneAssumption DEF EditsKis, Withdraw, Working
  <2> QED
    BY <1>0, <2>1, <2>2 DEF TypeOK, Result
<1>13. ASSUME NEW s \in Symbols, NEW n \in 0..MaxQty, ManualTrade(s, n)
       PROVE IdsNameRows'
  BY <1>0, <1>13 DEF ManualTrade
<1>14. CASE UNCHANGED vars
  BY <1>0, <1>14
<1> QED
  BY <1>1, <1>2, <1>3, <1>4, <1>5, <1>6, <1>7, <1>8, <1>9, <1>10, <1>11,
     <1>12, <1>13, <1>14 DEF Next, Process, Exchange

-----------------------------------------------------------------------------
(* How orders move in any step.                                              *)

\* The order of row o is the same before and after the step.
SameOrder(o) ==
  /\ Exists(o)'
  /\ orders'[o].symbol = orders[o].symbol
  /\ orders'[o].side = orders[o].side
  /\ orders'[o].qty = orders[o].qty

\* A row's order never changes; it becomes final only by an answer or a
\* refusal, and a row becomes unresolved only by its submission.
StepOf(o) ==
  /\ Exists(o) => SameOrder(o)
  /\ Exists(o) => QueryOrder(o) \/ orders'[o].filled = orders[o].filled
  /\ Exists(o)' => Exists(o) \/ \E x \in plan : InsertOrder(x, o)
  /\ Unresolved(o) => \/ Unresolved(o)'
                      \/ /\ WriteStatus /\ o = answer.order
                         /\ answer.status \notin UNRESOLVED_STATUSES
                      \/ WriteRejected /\ o = sending
  /\ Unresolved(o)' => Unresolved(o) \/ \E x \in plan : InsertOrder(x, o)

LEMMA RowsThroughAStep == IInv /\ [Next]_vars => \A o \in OrderIds : StepOf(o)
<1> SUFFICES ASSUME IInv, [Next]_vars, NEW o \in OrderIds
             PROVE  StepOf(o)
  BY DEF StepOf
<1> USE NoneAssumption DEF StepOf, SameOrder, Exists, Unresolved
<1>1. CASE orders' = orders
  BY <1>1
<1>2. ASSUME NEW p \in OrderIds, QueryOrder(p) PROVE StepOf(o)
  BY <1>2, QueryEdits DEF EditsOrder
<1>3. CASE WriteStatus
  BY <1>3, WriteStatusEdits DEF EditsOrder
<1>4. ASSUME NEW x \in plan, NEW p \in OrderIds, InsertOrder(x, p)
      PROVE StepOf(o)
  BY <1>4, InsertAdds
<1>5. CASE WriteSubmitted
  BY <1>5, WriteSubmittedEdits, SendingIsUnresolved
     DEF EditsOrder, WriteSubmitted, UNRESOLVED_STATUSES
<1>6. CASE WriteRejected
  BY <1>6, WriteRejectedEdits, SendingIsUnresolved
     DEF EditsOrder, WriteRejected, UNRESOLVED_STATUSES
<1>7. [Next]_vars =>
        \/ orders' = orders \/ WriteStatus \/ WriteSubmitted \/ WriteRejected
        \/ \E p \in OrderIds : QueryOrder(p)
        \/ \E x \in plan, p \in OrderIds : InsertOrder(x, p)
  BY DEF Next, Process, Exchange, Crash, Restart, OperatorRestart,
         TelegramCommand, BeginReconcile, Resolve, QueryWithoutRow, ReadHeld,
         Record, RecordNothing, RecordBuy, RecordSell, CompareBalance, Decide,
         Submit, TransportError, EndCycle, Accept, Refuse, Fill, Withdraw,
         ManualTrade, dbVars, kisVars, procVars, vars
<1> QED
  BY <1>1, <1>2, <1>3, <1>4, <1>5, <1>6, <1>7

\* At the exchange only an acceptance starts an order; only a working one moves,
\* its fills never go back, and it never works again.
KisStepOf(o) ==
  /\ kis'[o] = kis[o] \/ (Accept /\ o = sending) \/ Working(o)
  /\ kis[o] # None => kis'[o] # None /\ kis[o].filled <= kis'[o].filled
  /\ Working(o)' => Working(o) \/ (Accept /\ o = sending)

LEMMA KisThroughAStep == IInv /\ [Next]_vars => \A o \in OrderIds : KisStepOf(o)
<1> SUFFICES ASSUME IInv, [Next]_vars, NEW o \in OrderIds
             PROVE  KisStepOf(o)
  OBVIOUS
<1> USE NoneAssumption DEF KisStepOf
<1>0. kis[o] # None => Exists(o) /\ kis[o] \in KisRow
  BY DEF IInv, IdsNameRows, TypeOK
<1>1. CASE kis' = kis
  <2>1. kis[o] # None => SameOrder(o)
    BY <1>0, RowsThroughAStep DEF StepOf
  <2>2. kis[o] # None => kis[o].filled \in Nat
    BY <1>0 DEF KisRow
  <2> QED
    BY <1>1, <2>1, <2>2 DEF SameOrder, Working
<1>2. CASE Accept
  <2>1. o # sending => kis'[o] = kis[o]
    BY <1>2, AcceptEdits DEF EditsKis
  <2>2. kis[o] # None => kis[o].filled \in Nat
    BY <1>0 DEF KisRow
  <2>3. orders' = orders
    BY <1>2 DEF Accept, dbVars
  <2> QED
    BY <1>2, <2>1, <2>2, <2>3, AcceptEdits DEF Working
<1>3. ASSUME NEW p \in OrderIds, Fill(p) PROVE KisStepOf(o)
  <2>1. orders' = orders /\ Working(p)
    BY <1>3 DEF Fill, dbVars
  <2> PICK n \in Nat \ {0} : EditsKis(p, kis[p].filled + n, kis[p].state)
    BY <1>3, FillEdits
  <2>2. CASE o = p
    <3>1. kis'[o] \in KisRow /\ kis'[o].filled = kis[o].filled + n
      BY <2>2 DEF EditsKis
    <3> QED
      BY <2>1, <2>2, <3>1, <1>0 DEF Working, KisRow
  <2>3. CASE o # p
    BY <2>1, <2>3, <1>0 DEF EditsKis, Working, KisRow
  <2> QED
    BY <2>2, <2>3
<1>4. ASSUME NEW p \in OrderIds, NEW outcome \in {"cancelled", "rejected"},
             Withdraw(p, outcome)
      PROVE KisStepOf(o)
  <2>1. orders' = orders /\ Working(p)
    BY <1>4 DEF Withdraw, dbVars
  <2>2. EditsKis(p, kis[p].filled, outcome)
    BY <1>4, WithdrawEdits
  <2>3. CASE o = p
    <3>1. kis'[o] \in KisRow /\ kis'[o].filled = kis[o].filled
      BY <2>2, <2>3 DEF EditsKis
    <3> QED
      BY <2>1, <2>3, <3>1, <1>0 DEF Working, KisRow
  <2>4. CASE o # p
    BY <2>1, <2>2, <2>4, <1>0 DEF EditsKis, Working, KisRow
  <2> QED
    BY <2>3, <2>4
<1>5. [Next]_vars =>
        \/ kis' = kis \/ Accept
        \/ \E p \in OrderIds : Fill(p) \/ Withdraw(p, "cancelled")
                                       \/ Withdraw(p, "rejected")
  BY DEF Next, Process, Exchange, Crash, Restart, OperatorRestart,
         TelegramCommand, BeginReconcile, Resolve, QueryWithoutRow, QueryOrder,
         WriteStatus, ReadHeld, Record, RecordNothing, RecordBuy, RecordSell,
         CompareBalance, Decide, Submit, InsertOrder, TransportError,
         WriteSubmitted, WriteRejected, EndCycle, Refuse, ManualTrade,
         dbVars, kisVars, procVars, vars
<1> QED
  BY <1>1, <1>2, <1>3, <1>4, <1>5

-----------------------------------------------------------------------------
(* The order lifecycle: what the orders and the exchange agree on.           *)

\* An answer is replaced only by the next query.
LEMMA AnswerStays ==
  ASSUME [Next]_vars, answer' # None, ~\E o \in OrderIds : QueryOrder(o)
  PROVE  answer' = answer
BY DEF Next, Process, Exchange, Crash, Restart, OperatorRestart,
       TelegramCommand, BeginReconcile, Resolve, QueryWithoutRow, WriteStatus,
       ReadHeld, Record, RecordNothing, RecordBuy, RecordSell, CompareBalance,
       Decide, Submit, InsertOrder, TransportError, WriteSubmitted,
       WriteRejected, EndCycle, Accept, Refuse, Fill, Withdraw, ManualTrade,
       dbVars, kisVars, procVars, vars

LEMMA AnswersStep == IInv /\ [Next]_vars => AnswersAreTrue'
<1> SUFFICES ASSUME IInv, [Next]_vars PROVE AnswersAreTrue'
  OBVIOUS
<1>0. AnswersAreTrue /\ IdsNameRows /\ LocalsInPlace /\ TypeOK
  BY DEF IInv
<1>1. ASSUME answer' # None, ~\E o \in OrderIds : QueryOrder(o)
      PROVE  answer'.status \in UNRESOLVED_STATUSES \/ ~Working(answer.order)'
  <2>1. answer' = answer
    BY <1>1, AnswerStays
  <2>2. answer.order \in OrderIds /\ ~(Accept /\ answer.order = sending)
    BY <1>1, <2>1, <1>0 DEF TypeOK, Result, Accept, LocalsInPlace
  <2>3. KisStepOf(answer.order)
    BY <2>2, KisThroughAStep
  <2> QED
    BY <1>1, <2>1, <2>2, <2>3, <1>0 DEF AnswersAreTrue, KisStepOf
<1>2. ASSUME NEW o \in OrderIds, QueryOrder(o)
      PROVE  answer'.status \in UNRESOLVED_STATUSES \/ ~Working(answer.order)'
  <2>1. answer'.order = o /\ answer'.status = StatusOf(kis[o], orders[o].qty)
    BY <1>2 DEF QueryOrder
  <2>2. kis[o] \in KisRow /\ orders[o] \in OrderRow /\ orders'[o].qty = orders[o].qty
    BY <1>2, QueryEdits DEF EditsOrder
  <2>3. kis' = kis
    BY <1>2 DEF QueryOrder, kisVars
  <2> QED
    BY <2>1, <2>2, <2>3
       DEF StatusOf, Working, UNRESOLVED_STATUSES, KisRow, OrderRow
<1>3. pc' \in {"send", "nack"} => kis'[sending'] = None
  <2> SUFFICES ASSUME pc' \in {"send", "nack"} PROVE kis'[sending'] = None
    OBVIOUS
  <2>1. CASE Submit
    <3> PICK x \in plan, o \in OrderIds : InsertOrder(x, o)
      BY <2>1 DEF Submit
    <3> QED
      BY InsertAdds DEF InsertOrder, kisVars
  <2>2. CASE ~Submit
    <3>1. sending' = sending /\ pc \in {"send", "nack"} /\ ~Accept
      BY <2>2 DEF Next, Process, Exchange, Crash, Restart, OperatorRestart,
           TelegramCommand, BeginReconcile, Resolve, QueryWithoutRow,
           QueryOrder, WriteStatus, ReadHeld, Record, RecordNothing, RecordBuy,
           RecordSell, CompareBalance, Decide, TransportError, WriteSubmitted,
           WriteRejected, EndCycle, Accept, Refuse, Fill, Withdraw, ManualTrade,
           dbVars, kisVars, procVars, vars
    <3>2. kis[sending] = None /\ ~Working(sending)
      BY <3>1, <1>0 DEF AnswersAreTrue, Working
    <3>3. KisStepOf(sending)
      BY <3>1, SendingIsUnresolved, KisThroughAStep
    <3> QED
      BY <3>1, <3>2, <3>3 DEF KisStepOf
  <2> QED
    BY <2>1, <2>2
<1> QED
  BY <1>1, <1>2, <1>3 DEF AnswersAreTrue

LEMMA WrittenOffStep == IInv /\ [Next]_vars => NoWorkingOrderWrittenOff'
<1> SUFFICES ASSUME IInv, [Next]_vars, NEW o \in OrderIds, Working(o)'
             PROVE  Unresolved(o)'
  BY DEF NoWorkingOrderWrittenOff
<1>1. StepOf(o) /\ KisStepOf(o)
  BY RowsThroughAStep, KisThroughAStep
<1>2. CASE Accept /\ o = sending
  BY <1>2, SendingIsUnresolved DEF Accept, dbVars, Unresolved, Exists
<1>3. CASE ~(Accept /\ o = sending)
  <2>1. Working(o) /\ Unresolved(o)
    BY <1>1, <1>3 DEF KisStepOf, IInv, NoWorkingOrderWrittenOff
  <2>2. ~(WriteRejected /\ o = sending)
    BY <2>1 DEF WriteRejected, Working, IInv, AnswersAreTrue
  <2>3. ~(/\ WriteStatus /\ o = answer.order
          /\ answer.status \notin UNRESOLVED_STATUSES)
    BY <2>1 DEF WriteStatus, IInv, AnswersAreTrue
  <2> QED
    BY <1>1, <2>1, <2>2, <2>3 DEF StepOf
<1> QED
  BY <1>2, <1>3

LEMMA OutstandingStep == IInv /\ [Next]_vars => OneOutstandingOrder'
<1> SUFFICES ASSUME IInv, [Next]_vars, NEW o \in OrderIds, NEW p \in OrderIds,
                    Unresolved(o)', Unresolved(p)',
                    orders'[o].symbol = orders'[p].symbol
             PROVE  o = p
  BY DEF OneOutstandingOrder
<1>1. StepOf(o) /\ StepOf(p)
  BY RowsThroughAStep
<1>2. CASE Unresolved(o) /\ Unresolved(p)
  BY <1>1, <1>2
     DEF StepOf, SameOrder, Unresolved, IInv, OneOutstandingOrder
<1>3. ASSUME NEW x \in plan, NEW q \in OrderIds, InsertOrder(x, q) PROVE o = p
  <2>1. /\ orders'[q].symbol = x.symbol
        /\ \A r \in OrderIds \ {q} : orders'[r] = orders[r]
    BY <1>3, InsertAdds
  <2>2. \A r \in OrderIds : Unresolved(r) => orders[r].symbol # x.symbol
    BY DEF IInv, PlanIsFresh
  <2> QED
    BY <2>1, <2>2 DEF Unresolved, Exists, IInv, OneOutstandingOrder
<1> QED
  BY <1>1, <1>2, <1>3 DEF StepOf

LEMMA PlanStep == IInv /\ [Next]_vars => PlanIsFresh'
<1> SUFFICES ASSUME IInv, [Next]_vars PROVE PlanIsFresh'
  OBVIOUS
<1>0. PlanIsFresh /\ TypeOK
  BY DEF IInv
<1>1. CASE plan' = plan
  <2>1. \A o \in OrderIds : Unresolved(o)' =>
          Unresolved(o) /\ orders'[o].symbol = orders[o].symbol
    <3> SUFFICES ASSUME NEW o \in OrderIds, Unresolved(o)'
                 PROVE  Unresolved(o) /\ orders'[o].symbol = orders[o].symbol
      OBVIOUS
    <3>1. \A x \in plan : ~InsertOrder(x, o)
      BY <1>1 DEF InsertOrder
    <3> QED
      BY <3>1, RowsThroughAStep DEF StepOf, SameOrder, Unresolved
  <2> QED
    BY <1>0, <1>1, <2>1 DEF PlanIsFresh
<1>2. CASE Crash
  BY <1>2 DEF Crash, PlanIsFresh
<1>3. CASE Decide
  <2> PICK signalled \in SUBSET HeldSymbols,
           topUps \in SUBSET HeldSymbols,
           entries \in SUBSET (Symbols \ HeldSymbols),
           qty \in [Symbols -> Quantities] :
             /\ plan' = OrdersFor(signalled, topUps \cup entries, qty)
             /\ topUps \cap signalled = {}
    BY <1>3 DEF Decide
  <2>1. signalled \cap (topUps \cup entries) = {}
    OBVIOUS
  <2>2. \A x \in plan' : x.symbol \notin PendingSymbols
    BY DEF OrdersFor, Orderable
  <2>3. \A x, y \in plan' : x.symbol = y.symbol => x = y
    BY <2>1 DEF OrdersFor, Orderable
  <2>4. \A x \in plan' : x.symbol \in Symbols
    BY DEF OrdersFor, Orderable, HeldSymbols
  <2>5. orders' = orders
    BY <1>3 DEF Decide, dbVars
  <2> QED
    BY <2>2, <2>3, <2>4, <2>5 DEF PlanIsFresh, PendingSymbols, Unresolved, Exists
<1>4. ASSUME NEW x \in plan, NEW o \in OrderIds, InsertOrder(x, o)
      PROVE PlanIsFresh'
  <2>1. plan' = plan \ {x}
    BY <1>4 DEF InsertOrder
  <2>2. /\ \A p \in OrderIds \ {o} : orders'[p] = orders[p]
        /\ orders'[o].symbol = x.symbol
    BY <1>4, InsertAdds
  <2> QED
    BY <1>0, <2>1, <2>2 DEF PlanIsFresh, Unresolved, Exists
<1>5. [Next]_vars =>
        \/ plan' = plan \/ Crash \/ Decide
        \/ \E x \in plan, o \in OrderIds : InsertOrder(x, o)
  BY DEF Next, Process, Exchange, Restart, OperatorRestart, TelegramCommand,
         BeginReconcile, Resolve, QueryWithoutRow, QueryOrder, WriteStatus,
         ReadHeld, Record, RecordNothing, RecordBuy, RecordSell, CompareBalance,
         Submit, TransportError, WriteSubmitted, WriteRejected, EndCycle, Accept,
         Refuse, Fill, Withdraw, ManualTrade, dbVars, kisVars, procVars, vars
<1> QED
  BY <1>1, <1>2, <1>3, <1>4, <1>5

LEMMA FillsStep == IInv /\ [Next]_vars => FillsAreStored'
<1> SUFFICES ASSUME IInv, [Next]_vars PROVE FillsAreStored'
  OBVIOUS
<1>0. /\ FillsAreStored /\ IdsNameRows /\ LocalsInPlace /\ AnswersAreTrue
      /\ NoWorkingOrderWrittenOff
  BY DEF IInv
<1>1. ASSUME NEW o \in OrderIds, Exists(o)'
      PROVE  IF kis'[o] = None THEN orders'[o].filled = 0
             ELSE orders'[o].filled <= kis'[o].filled
  <2>1. StepOf(o) /\ KisStepOf(o)
    BY RowsThroughAStep, KisThroughAStep
  <2>2. ASSUME NEW x \in plan, InsertOrder(x, o)
        PROVE  orders'[o].filled = 0 /\ kis'[o] = None
    BY <2>2, InsertAdds DEF InsertOrder, kisVars
  <2>3. CASE QueryOrder(o)
    <3>1. /\ kis'[o] = kis[o] /\ kis[o] \in KisRow /\ kis[o] # None /\ Exists(o)
          /\ orders'[o].filled = IF kis[o].filled > 0 THEN kis[o].filled
                                 ELSE orders[o].filled
      BY <2>3, QueryEdits DEF QueryOrder, kisVars, EditsOrder, Unresolved
    <3>2. orders[o].filled <= kis[o].filled
      BY <1>0, <3>1 DEF FillsAreStored
    <3> QED
      BY <3>1, <3>2 DEF KisRow
  <2>4. CASE Accept /\ o = sending
    <3>1. kis[o] = None /\ kis'[o] \in KisRow /\ kis'[o].filled = 0
          /\ orders' = orders
      BY <2>4, AcceptEdits DEF EditsKis, Accept, dbVars
    <3> QED
      BY <1>0, <1>1, <3>1, NoneAssumption DEF FillsAreStored, Exists
  <2>5. CASE Exists(o) /\ orders'[o].filled = orders[o].filled
             /\ ~(Accept /\ o = sending)
    <3>1. orders[o].filled \in Nat
      BY <2>5 DEF IInv, TypeOK, Exists, OrderRow
    <3>2. CASE kis[o] = None
      BY <1>0, <2>1, <2>5, <3>2 DEF FillsAreStored, KisStepOf, Working
    <3>3. CASE kis[o] # None
      <4>1. /\ kis'[o] # None /\ kis[o].filled <= kis'[o].filled
            /\ orders[o].filled <= kis[o].filled
        BY <1>0, <2>1, <2>5, <3>3 DEF KisStepOf, FillsAreStored
      <4>2. kis[o].filled \in Nat /\ kis'[o].filled \in Nat
        BY <3>3, <4>1, TypeStep DEF IInv, TypeOK, KisRow
      <4> QED
        BY <2>5, <3>1, <4>1, <4>2
    <3> QED
      BY <3>2, <3>3
  <2> QED
    BY <1>1, <2>1, <2>2, <2>3, <2>4, <2>5 DEF StepOf
<1>2. ASSUME answer' # None, answer'.status \notin UNRESOLVED_STATUSES
      PROVE  orders'[answer'.order].filled = kis'[answer'.order].filled
  <2>1. CASE \E o \in OrderIds : QueryOrder(o)
    <3> PICK o \in OrderIds : QueryOrder(o)
      BY <2>1
    <3>1. /\ kis' = kis /\ kis[o] \in KisRow /\ kis[o] # None /\ Exists(o)
          /\ answer'.order = o
          /\ orders[o].filled \in Nat
          /\ orders'[o].filled = IF kis[o].filled > 0 THEN kis[o].filled
                                 ELSE orders[o].filled
      BY QueryEdits DEF QueryOrder, kisVars, EditsOrder, Unresolved, OrderRow
    <3>2. orders[o].filled <= kis[o].filled
      BY <1>0, <3>1 DEF FillsAreStored
    <3> QED
      BY <3>1, <3>2 DEF KisRow
  <2>2. CASE ~\E o \in OrderIds : QueryOrder(o)
    <3>1. answer' = answer /\ pc = "resolve"
      BY <1>2, <2>2, <1>0, AnswerStays DEF LocalsInPlace
    <3>2. answer.order \in OrderIds /\ Unresolved(answer.order)
          /\ ~Working(answer.order)
      BY <1>0, <1>2, <3>1 DEF IInv, TypeOK, Result, IdsNameRows, AnswersAreTrue
    <3>3. /\ orders'[answer.order].filled = orders[answer.order].filled
          /\ kis'[answer.order] = kis[answer.order]
      BY <2>2, <3>1, <3>2, RowsThroughAStep, KisThroughAStep
         DEF StepOf, KisStepOf, Accept, Unresolved
    <3> QED
      BY <1>0, <1>2, <3>1, <3>3 DEF FillsAreStored
  <2> QED
    BY <2>1, <2>2
<1>3. ASSUME NEW o \in OrderIds, Exists(o)', ~Unresolved(o)', kis'[o] # None
      PROVE  orders'[o].filled = kis'[o].filled
  <2>1. StepOf(o) /\ KisStepOf(o)
    BY RowsThroughAStep, KisThroughAStep
  <2>2. Exists(o)
    BY <1>3, <2>1, InsertAdds
       DEF StepOf, Unresolved, Exists, UNRESOLVED_STATUSES
  <2>3. CASE ~Unresolved(o)
    <3>1. ~QueryOrder(o) /\ ~(Accept /\ o = sending) /\ ~Working(o)
      BY <2>3, <1>0, QueryEdits, SendingIsUnresolved
         DEF Accept, NoWorkingOrderWrittenOff
    <3>2. kis'[o] = kis[o] /\ orders'[o].filled = orders[o].filled
      BY <2>1, <2>2, <3>1 DEF StepOf, KisStepOf
    <3> QED
      BY <1>0, <1>3, <2>2, <2>3, <3>2
         DEF FillsAreStored, FinalRowsCarryTheirFills
  <2>4. CASE Unresolved(o)
    <3>1. ~(WriteRejected /\ o = sending)
      BY <1>0, <1>3 DEF WriteRejected, kisVars, AnswersAreTrue
    <3>2. /\ WriteStatus /\ o = answer.order
          /\ answer.status \notin UNRESOLVED_STATUSES
      BY <1>3, <2>1, <2>4, <3>1 DEF StepOf
    <3>3. orders'[o].filled = orders[o].filled /\ kis' = kis /\ answer # None
      BY <3>2, WriteStatusEdits DEF EditsOrder, WriteStatus, kisVars
    <3> QED
      BY <1>0, <3>2, <3>3 DEF FillsAreStored
  <2> QED
    BY <2>3, <2>4
<1> QED
  BY <1>1, <1>2, <1>3 DEF FillsAreStored, FinalRowsCarryTheirFills

-----------------------------------------------------------------------------
(* The ledger and the decisions taken on it.                                 *)

LEMMA LedgerStep == IInv /\ [Next]_vars => DecidesOnAgreedLedger'
<1> SUFFICES ASSUME IInv, [Next]_vars, pc' = "decide"
             PROVE  \A s \in Symbols : (positions'[s] = None) = (balance'[s] = 0)
  BY DEF DecidesOnAgreedLedger
<1>1. CASE CompareBalance
  <2>1. Mismatches(account) = {} /\ balance' = account /\ positions' = positions
    BY <1>1 DEF CompareBalance, dbVars
  <2> QED
    BY <2>1 DEF Mismatches
<1>2. CASE ~CompareBalance
  <2>1. pc = "decide" /\ positions' = positions /\ balance' = balance
    BY <1>2 DEF Next, Process, Exchange, Crash, Restart, OperatorRestart,
         TelegramCommand, BeginReconcile, Resolve, QueryWithoutRow, QueryOrder,
         WriteStatus, ReadHeld, Record, RecordNothing, RecordBuy, RecordSell,
         Decide, Submit, InsertOrder, TransportError, WriteSubmitted,
         WriteRejected, EndCycle, Accept, Refuse, Fill, Withdraw, ManualTrade,
         dbVars, kisVars, procVars, vars
  <2> QED
    BY <2>1 DEF IInv, DecidesOnAgreedLedger
<1> QED
  BY <1>1, <1>2

LEMMA SwitchStep == IInv /\ [Next]_vars => PlanObeysKillSwitch'
<1> SUFFICES ASSUME IInv, [Next]_vars, killSwitch',
                    NEW x \in plan', x.side = "buy"
             PROVE  x.symbol \in HeldSymbols'
  BY DEF PlanObeysKillSwitch
<1>1. CASE Decide
  <2> PICK signalled \in SUBSET HeldSymbols,
           topUps \in SUBSET HeldSymbols,
           entries \in SUBSET (Symbols \ HeldSymbols),
           qty \in [Symbols -> Quantities] :
             /\ plan' = OrdersFor(signalled, topUps \cup entries, qty)
             /\ KillSwitchPasses(entries)
    BY <1>1 DEF Decide
  <2>1. killSwitch /\ positions' = positions
    BY <1>1 DEF Decide, dbVars
  <2>2. x.symbol \in HeldSymbols
    BY <2>1 DEF OrdersFor, Orderable, KillSwitchPasses
  <2> QED
    BY <2>1, <2>2 DEF HeldSymbols
<1>2. CASE ~Decide
  <2>1. x \in plan /\ pc \in {"submit", "send", "ack", "nack"}
    BY <1>2 DEF Next, Process, Exchange, Crash, Restart, OperatorRestart,
         TelegramCommand, BeginReconcile, Resolve, QueryWithoutRow, QueryOrder,
         WriteStatus, ReadHeld, Record, RecordNothing, RecordBuy, RecordSell,
         CompareBalance, Submit, InsertOrder, TransportError, WriteSubmitted,
         WriteRejected, EndCycle, Accept, Refuse, Fill, Withdraw, ManualTrade,
         dbVars, kisVars, procVars, vars, IInv, LocalsInPlace
  <2>2. positions' = positions /\ killSwitch' = killSwitch
    BY <2>1, <1>2 DEF Next, Process, Exchange, Crash, Restart, OperatorRestart,
         TelegramCommand, BeginReconcile, Resolve, QueryWithoutRow, QueryOrder,
         WriteStatus, ReadHeld, Record, RecordNothing, RecordBuy, RecordSell,
         CompareBalance, Submit, InsertOrder, TransportError, WriteSubmitted,
         WriteRejected, EndCycle, Accept, Refuse, Fill, Withdraw, ManualTrade,
         dbVars, kisVars, procVars, vars
  <2> QED
    BY <2>1, <2>2 DEF IInv, PlanObeysKillSwitch, HeldSymbols
<1> QED
  BY <1>1, <1>2

LEMMA JudgesStep == IInv /\ [Next]_vars => JudgesWhatIsStored'
<1> SUFFICES ASSUME IInv, [Next]_vars, pc' = "record", NEW s \in Symbols,
                    positions'[s] # None
             PROVE  remaining'[s] # None
  BY DEF JudgesWhatIsStored, HeldSymbols
<1>1. CASE ReadHeld
  <2>1. remaining'[s] = positions[s].qty /\ positions[s] \in PositionRow
    BY <1>1 DEF ReadHeld, dbVars, IInv, TypeOK
  <2> QED
    BY <2>1, NoneAssumption DEF PositionRow
<1>2. CASE Record
  <2> PICK r \in results : RecordNothing(r) \/ RecordBuy(r) \/ RecordSell(r)
    BY <1>2 DEF Record
  <2> DEFINE t == ResultOrder(r).symbol
  <2>1. /\ remaining \in [Symbols -> Int \cup {None}]
        /\ positions \in [Symbols -> PositionRow \cup {None}]
        /\ positions[s] # None => remaining[s] # None
    BY <1>2 DEF IInv, TypeOK, JudgesWhatIsStored, HeldSymbols, Record,
                RecordNothing, RecordBuy, RecordSell
  <2>2. /\ t \in Symbols
        /\ Running(t) + r.filled \in Int /\ Running(t) - r.filled \in Int
    BY ResultsAreSound
  <2> HIDE DEF t
  <2>3. CASE RecordNothing(r)
    BY <2>1, <2>3 DEF RecordNothing, dbVars
  <2>4. CASE RecordBuy(r)
    BY <2>1, <2>2, <2>4, NoneAssumption DEF RecordBuy, t
  <2>5. CASE RecordSell(r)
    BY <2>1, <2>2, <2>5, NoneAssumption DEF RecordSell, t
  <2> QED
    BY <2>3, <2>4, <2>5
<1>3. CASE ~ReadHeld /\ ~Record
  <2>1. pc = "record" /\ positions' = positions /\ remaining' = remaining
    BY <1>3 DEF Next, Process, Exchange, Crash, Restart, OperatorRestart,
         TelegramCommand, BeginReconcile, Resolve, QueryWithoutRow, QueryOrder,
         WriteStatus, CompareBalance, Decide, Submit, InsertOrder,
         TransportError, WriteSubmitted, WriteRejected, EndCycle, Accept,
         Refuse, Fill, Withdraw, ManualTrade, dbVars, kisVars, procVars, vars
  <2> QED
    BY <2>1 DEF IInv, JudgesWhatIsStored, HeldSymbols
<1> QED
  BY <1>1, <1>2, <1>3

-----------------------------------------------------------------------------
(* The theorems.                                                             *)

LEMMA StepIInv == IInv /\ [Next]_vars => IInv'
BY TypeStep, LocalsStep, IdsStep, AnswersStep, LedgerStep, WrittenOffStep,
   OutstandingStep, PlanStep, FillsStep, SwitchStep, JudgesStep
   DEF IInv

\* The conjunction of all of the above holds in every reachable state.
THEOREM InvariantHolds == Spec => []IInv
<1>1. Init => IInv
  BY InitIInv
<1>2. IInv /\ [Next]_vars => IInv'
  BY StepIInv
<1> QED
  BY <1>1, <1>2, PTL DEF Spec

\* The tables and the locals of main() always have their types; in particular
\* no position is ever stored with a quantity of zero.
THEOREM TypesAreCorrect == Spec => []TypeOK
<1>1. IInv => TypeOK
  BY DEF IInv
<1> QED
  BY <1>1, InvariantHolds, PTL

\* Whatever crashes, losses and partial fills happen, no symbol ever has two
\* orders whose outcome is open.
THEOREM OneOrderAtATime == Spec => []OneOutstandingOrder
<1>1. IInv => OneOutstandingOrder
  BY DEF IInv
<1> QED
  BY <1>1, InvariantHolds, PTL

\* The daemon never stops asking about an order that can still trade.
THEOREM NothingWorkingIsWrittenOff == Spec => []NoWorkingOrderWrittenOff
<1>1. IInv => NoWorkingOrderWrittenOff
  BY DEF IInv
<1> QED
  BY <1>1, InvariantHolds, PTL

\* The fills of an order are in the database before its final status is.
THEOREM FillsPrecedeFinalStatus == Spec => []FinalRowsCarryTheirFills
<1>1. IInv => FinalRowsCarryTheirFills
  BY DEF IInv, FillsAreStored
<1> QED
  BY <1>1, InvariantHolds, PTL

\* Behind an engaged kill switch no order opens a position.
THEOREM KillSwitchHolds == Spec => KillSwitchStopsEntries
<1> DEFINE A == \A o \in OrderIds :
                  /\ killSwitch
                  /\ orders[o] = None /\ orders'[o] # None
                  /\ orders'[o].side = "buy"
                  => orders'[o].symbol \in HeldSymbols
<1>1. IInv /\ [Next]_vars => [A]_vars
  <2> SUFFICES ASSUME IInv, [Next]_vars, NEW o \in OrderIds, killSwitch,
                      orders[o] = None, orders'[o] # None,
                      orders'[o].side = "buy"
               PROVE  orders'[o].symbol \in HeldSymbols
    OBVIOUS
  <2> PICK x \in plan : InsertOrder(x, o)
    BY RowsThroughAStep DEF StepOf, Exists
  <2> QED
    BY InsertAdds DEF IInv, PlanObeysKillSwitch
<1> HIDE DEF A
<1>2. KillSwitchStopsEntries <=> [][A]_vars
  BY DEF KillSwitchStopsEntries, A
<1> QED
  BY <1>1, <1>2, InvariantHolds, PTL DEF Spec

\* A position's entry is never overwritten: rule 1 of engine/fills.py.
THEOREM EntryIsFixed == Spec => EntryStaysFixed
<1> DEFINE A == \A s \in Symbols :
                  positions[s] # None /\ positions'[s] # None
                    => positions'[s] = positions[s]
<1>1. IInv /\ [Next]_vars => [A]_vars
  <2> SUFFICES ASSUME IInv, [Next]_vars, NEW s \in Symbols,
                      positions[s] # None, positions'[s] # None
               PROVE  positions'[s] = positions[s]
    OBVIOUS
  <2>1. CASE Record
    <3> PICK r \in results : RecordNothing(r) \/ RecordBuy(r) \/ RecordSell(r)
      BY <2>1 DEF Record
    <3> DEFINE t == ResultOrder(r).symbol
    <3>1. t \in Symbols /\ positions \in [Symbols -> PositionRow \cup {None}]
      BY ResultsAreSound DEF IInv, TypeOK
    <3>2. remaining[s] # None
      BY <2>1 DEF IInv, JudgesWhatIsStored, HeldSymbols, Record, RecordNothing,
                  RecordBuy, RecordSell
    <3> HIDE DEF t
    <3>3. CASE RecordNothing(r)
      BY <3>3 DEF RecordNothing, dbVars
    <3>4. CASE RecordBuy(r)
      BY <3>1, <3>2, <3>4 DEF RecordBuy, Opens, t
    <3>5. CASE RecordSell(r)
      BY <3>1, <3>5 DEF RecordSell, t
    <3> QED
      BY <3>3, <3>4, <3>5
  <2>2. CASE ~Record
    BY <2>2 DEF Next, Process, Exchange, Crash, Restart, OperatorRestart,
         TelegramCommand, BeginReconcile, Resolve, QueryWithoutRow, QueryOrder,
         WriteStatus, ReadHeld, CompareBalance, Decide, Submit, InsertOrder,
         TransportError, WriteSubmitted, WriteRejected, EndCycle, Accept,
         Refuse, Fill, Withdraw, ManualTrade, dbVars, kisVars, procVars, vars
  <2> QED
    BY <2>1, <2>2
<1> HIDE DEF A
<1>2. EntryStaysFixed <=> [][A]_vars
  BY DEF EntryStaysFixed, A
<1> QED
  BY <1>1, <1>2, InvariantHolds, PTL DEF Spec

-----------------------------------------------------------------------------
(* Without trades by hand: sales stay within the account.                    *)

\* Only a fill of one of its own orders changes the shares of a symbol.
LEMMA FillsMoveTheAccount ==
  ASSUME IInv, [Next]_vars, NEW s \in Symbols,
         \A t \in Symbols, n \in 0..MaxQty : ~ManualTrade(t, n)
  PROVE  account'[s] = account[s]
           \/ \E o \in OrderIds : Fill(o) /\ orders[o].symbol = s /\ Unresolved(o)
<1>1. ASSUME NEW o \in OrderIds, Fill(o), orders[o].symbol # s
      PROVE  account'[s] = account[s]
  BY <1>1, FillEdits DEF IInv, TypeOK
<1>2. \A o \in OrderIds : Fill(o) => Unresolved(o)
  BY DEF Fill, IInv, NoWorkingOrderWrittenOff
<1>3. account' = account \/ \E o \in OrderIds : Fill(o)
  BY DEF Next, Process, Exchange, Crash, Restart, OperatorRestart,
         TelegramCommand, BeginReconcile, Resolve, QueryWithoutRow, QueryOrder,
         WriteStatus, ReadHeld, Record, RecordNothing, RecordBuy, RecordSell,
         CompareBalance, Decide, Submit, InsertOrder, TransportError,
         WriteSubmitted, WriteRejected, EndCycle, Accept, Refuse, Withdraw,
         dbVars, kisVars, procVars, vars
<1> QED
  BY <1>1, <1>2, <1>3

LEMMA AccountThroughAStep ==
  ASSUME MaxManual = 0, IInv, [Next]_vars, NEW s \in Symbols
  PROVE  account'[s] = account[s]
           \/ \E o \in OrderIds : Fill(o) /\ orders[o].symbol = s /\ Unresolved(o)
<1>1. \A t \in Symbols, n \in 0..MaxQty : ~ManualTrade(t, n)
  BY DEF ManualTrade, IInv, TypeOK
<1> QED
  BY <1>1, FillsMoveTheAccount

LEMMA StockStep ==
  ASSUME MaxManual = 0, IInv, InStock, [Next]_vars
  PROVE  InStock'
<1>0. TypeOK /\ OneOutstandingOrder /\ PlanIsFresh /\ NoWorkingOrderWrittenOff
  BY DEF IInv
<1>1. ASSUME pc' = "decide", NEW s \in Symbols \ PendingSymbols'
      PROVE  balance'[s] <= account'[s]
  <2>1. CASE CompareBalance
    BY <1>0, <1>1, <2>1 DEF CompareBalance, kisVars, TypeOK
  <2>2. CASE ~CompareBalance
    <3>1. pc = "decide" /\ balance' = balance /\ orders' = orders
      BY <1>1, <2>2 DEF Next, Process, Exchange, Crash, Restart,
         OperatorRestart, TelegramCommand, BeginReconcile, Resolve,
         QueryWithoutRow, QueryOrder, WriteStatus, ReadHeld, Record,
         RecordNothing, RecordBuy, RecordSell, Decide, Submit, InsertOrder,
         TransportError, WriteSubmitted, WriteRejected, EndCycle, Accept,
         Refuse, Fill, Withdraw, ManualTrade, dbVars, kisVars, procVars, vars
    <3>2. s \notin PendingSymbols
      BY <1>1, <3>1 DEF PendingSymbols, Unresolved, Exists
    <3>3. account'[s] = account[s]
      BY <3>2, AccountThroughAStep DEF PendingSymbols
    <3> QED
      BY <3>1, <3>2, <3>3 DEF InStock
  <2> QED
    BY <2>1, <2>2
<1>2. ASSUME NEW x \in plan', x.side = "sell"
      PROVE  x.qty <= account'[x.symbol]
  <2>1. CASE Decide
    <3> PICK signalled \in SUBSET HeldSymbols,
             topUps \in SUBSET HeldSymbols,
             entries \in SUBSET (Symbols \ HeldSymbols),
             qty \in [Symbols -> Quantities] :
               plan' = OrdersFor(signalled, topUps \cup entries, qty)
      BY <2>1 DEF Decide
    <3>1. x.symbol \in Symbols \ PendingSymbols /\ x.qty = balance[x.symbol]
      BY <1>2 DEF OrdersFor, Orderable, HeldSymbols
    <3>2. account' = account /\ pc = "decide"
      BY <2>1 DEF Decide, kisVars
    <3> QED
      BY <3>1, <3>2 DEF InStock
  <2>2. CASE ~Decide
    <3>1. x \in plan
      BY <1>2, <2>2 DEF Next, Process, Exchange, Crash, Restart,
         OperatorRestart, TelegramCommand, BeginReconcile, Resolve,
         QueryWithoutRow, QueryOrder, WriteStatus, ReadHeld, Record,
         RecordNothing, RecordBuy, RecordSell, CompareBalance, Submit,
         InsertOrder, TransportError, WriteSubmitted, WriteRejected, EndCycle,
         Accept, Refuse, Fill, Withdraw, ManualTrade, dbVars, kisVars, procVars,
         vars
    <3>2. x.symbol \in Symbols
      BY <1>0, <3>1 DEF TypeOK, Request
    <3>3. account'[x.symbol] = account[x.symbol]
      BY <1>0, <3>1, <3>2, AccountThroughAStep DEF PlanIsFresh
    <3> QED
      BY <1>2, <3>1, <3>3 DEF InStock, NoOversell
  <2> QED
    BY <2>1, <2>2
<1>3. ASSUME NEW o \in OrderIds, Working(o)', orders'[o].side = "sell"
      PROVE  orders'[o].qty - kis'[o].filled <= account'[orders'[o].symbol]
  <2>1. CASE Accept /\ o = sending
    <3>1. orders' = orders /\ account' = account /\ kis'[o].filled = 0
          /\ orders[o] \in OrderRow
      BY <2>1, AcceptEdits, SendingIsUnresolved DEF Accept, dbVars, EditsKis
    <3> QED
      BY <1>3, <2>1, <3>1 DEF Accept, OrderRow
  <2>2. CASE ~(Accept /\ o = sending)
    <3>1. Working(o) /\ Unresolved(o) /\ SameOrder(o)
      BY <1>0, <1>3, <2>2, RowsThroughAStep, KisThroughAStep
         DEF StepOf, KisStepOf, NoWorkingOrderWrittenOff, Unresolved
    <3>2. /\ orders[o] \in OrderRow /\ kis[o] \in KisRow /\ kis'[o] \in KisRow
          /\ kis[o].filled <= kis'[o].filled
      BY <1>0, <1>3, <3>1, TypeStep, KisThroughAStep
         DEF KisStepOf, TypeOK, Unresolved, Exists, Working
    <3>3. orders[o].qty - kis[o].filled <= account[orders[o].symbol]
      BY <1>3, <3>1 DEF InStock, NoOversell, SameOrder
    <3>4. CASE Fill(o)
      <4> PICK n \in Nat \ {0} :
            /\ EditsKis(o, kis[o].filled + n, kis[o].state)
            /\ account' = [account EXCEPT ![orders[o].symbol] =
                             IF orders[o].side = "buy" THEN @ + n ELSE @ - n]
        BY <3>4, FillEdits
      <4>1. account'[orders[o].symbol] = account[orders[o].symbol] - n
        BY <1>0, <1>3, <3>1, <3>2 DEF TypeOK, OrderRow, SameOrder
      <4>2. account[orders[o].symbol] \in Nat
        BY <1>0, <3>2 DEF TypeOK, OrderRow
      <4>3. kis'[o].filled = kis[o].filled + n
        BY DEF EditsKis
      <4> QED
        BY <3>1, <3>2, <3>3, <4>1, <4>2, <4>3 DEF SameOrder, OrderRow, KisRow
    <3>5. CASE ~Fill(o)
      <4>1. orders[o].symbol \in Symbols
        BY <3>2 DEF OrderRow
      <4>2. account'[orders[o].symbol] = account[orders[o].symbol]
        BY <1>0, <3>1, <3>5, <4>1, AccountThroughAStep DEF OneOutstandingOrder
      <4>3. account[orders[o].symbol] \in Nat
        BY <1>0, <4>1 DEF TypeOK
      <4> QED
        BY <3>1, <3>2, <3>3, <4>2, <4>3 DEF SameOrder, OrderRow, KisRow
    <3> QED
      BY <3>4, <3>5
  <2> QED
    BY <2>1, <2>2
<1>4. ASSUME pc' = "send", orders'[sending'].side = "sell"
      PROVE  orders'[sending'].qty <= account'[orders'[sending'].symbol]
  <2>1. ASSUME NEW x \in plan, NEW o \in OrderIds, InsertOrder(x, o)
        PROVE  orders'[sending'].qty <= account'[orders'[sending'].symbol]
    <3>1. /\ sending' = o /\ account' = account
          /\ orders'[o].symbol = x.symbol /\ orders'[o].side = x.side
          /\ orders'[o].qty = x.qty
      BY <2>1, InsertAdds DEF InsertOrder, kisVars
    <3> QED
      BY <1>4, <3>1 DEF InStock, NoOversell
  <2>2. CASE ~Submit
    <3>1. pc = "send" /\ sending' = sending /\ orders' = orders
      BY <1>4, <2>2 DEF Next, Process, Exchange, Crash, Restart,
         OperatorRestart, TelegramCommand, BeginReconcile, Resolve,
         QueryWithoutRow, QueryOrder, WriteStatus, ReadHeld, Record,
         RecordNothing, RecordBuy, RecordSell, CompareBalance, Decide,
         TransportError, WriteSubmitted, WriteRejected, EndCycle, Accept,
         Refuse, Fill, Withdraw, ManualTrade, dbVars, kisVars, procVars, vars
    <3>2. /\ sending \in OrderIds /\ Unresolved(sending)
          /\ orders[sending].symbol \in Symbols /\ ~Working(sending)
      BY <3>1, SendingIsUnresolved
         DEF OrderRow, IInv, AnswersAreTrue, Working
    <3>3. ~Fill(sending)
      BY <3>2 DEF Fill
    <3>4. account'[orders[sending].symbol] = account[orders[sending].symbol]
      BY <1>0, <3>2, <3>3, AccountThroughAStep DEF OneOutstandingOrder
    <3> QED
      BY <1>4, <3>1, <3>4 DEF InStock, NoOversell
  <2> QED
    BY <2>1, <2>2 DEF Submit
<1> QED
  BY <1>1, <1>2, <1>3, <1>4 DEF InStock, NoOversell

\* As long as nobody trades by hand, a sale never exceeds what the account
\* holds, although its quantity was read a cycle's work earlier.
THEOREM SalesStayWithinTheAccount ==
  ASSUME MaxManual = 0
  PROVE  Spec => []NoOversell
<1>1. Init => InStock
  BY DEF Init, InStock, NoOversell, Working
<1>2. IInv /\ InStock /\ [Next]_vars => InStock'
  BY StockStep
<1>3. InStock => NoOversell
  BY DEF InStock
<1> QED
  BY <1>1, <1>2, <1>3, InvariantHolds, PTL DEF Spec

-----------------------------------------------------------------------------
(* Without trades by hand the order lifecycle implements OrderDesk.          *)

JobOf(o) == [side |-> orders[o].side, left |-> orders[o].qty - kis[o].filled]

\* The order at work for a symbol is the only one that works.
WorkIsJob ==
  \A s \in Symbols :
    \/ \E o \in OrderIds : /\ Working(o) /\ orders[o].symbol = s
                           /\ WorkOf(s) = JobOf(o) /\ JobOf(o) \in Job
    \/ /\ \A o \in OrderIds : ~(Working(o) /\ orders[o].symbol = s)
       /\ WorkOf(s) = None

LEMMA WorkFacts == IInv => WorkIsJob
<1> SUFFICES ASSUME IInv, NEW s \in Symbols,
                    NEW o \in OrderIds, Working(o), orders[o].symbol = s
             PROVE  WorkOf(s) = JobOf(o) /\ JobOf(o) \in Job
  BY DEF WorkIsJob, WorkOf
<1>1. \A p \in OrderIds : Working(p) /\ orders[p].symbol = s => p = o
  BY DEF IInv, NoWorkingOrderWrittenOff, OneOutstandingOrder
<1>2. kis[o] \in KisRow /\ orders[o] \in OrderRow
  BY DEF Working, IInv, TypeOK, IdsNameRows, Exists
<1> QED
  BY <1>1, <1>2 DEF WorkOf, JobOf, Job, Working, KisRow, OrderRow

LEMMA WorkFactsNext == IInv' => WorkIsJob'
BY WorkFacts, PTL

\* The order that works for a symbol is the same one before and after a step,
\* except that a new one may start where none was.
LEMMA OneWorks ==
  ASSUME IInv, IInv', [Next]_vars, NEW o \in OrderIds, NEW p \in OrderIds,
         Working(o), Working(p)', orders[o].symbol = orders'[p].symbol
  PROVE  o = p
<1>1. Unresolved(o) /\ Unresolved(p)'
  BY DEF IInv, NoWorkingOrderWrittenOff
<1>2. StepOf(o) /\ KisStepOf(p)
  BY RowsThroughAStep, KisThroughAStep
<1>3. CASE Working(p)
  BY <1>1, <1>3, RowsThroughAStep
     DEF StepOf, SameOrder, IInv, NoWorkingOrderWrittenOff, OneOutstandingOrder,
         Unresolved
<1>4. CASE Accept /\ p = sending
  <2>1. Unresolved(p) /\ orders' = orders
    BY <1>4, SendingIsUnresolved DEF Accept, dbVars
  <2> QED
    BY <1>1, <2>1 DEF IInv, OneOutstandingOrder
<1> QED
  BY <1>2, <1>3, <1>4 DEF KisStepOf

\* Work goes on as it is where no order starts and none moves.
LEMMA WorkStays ==
  ASSUME IInv, IInv', [Next]_vars, NEW s \in Symbols,
         ~(Accept /\ orders[sending].symbol = s),
         \A o \in OrderIds : orders[o].symbol = s /\ Working(o) => kis'[o] = kis[o]
  PROVE  WorkOf(s)' = WorkOf(s)
<1>1. ASSUME NEW o \in OrderIds, Working(o), orders[o].symbol = s
      PROVE  Working(o)' /\ orders'[o].symbol = s /\ JobOf(o)' = JobOf(o)
  <2>1. SameOrder(o) /\ kis'[o] = kis[o]
    BY <1>1, RowsThroughAStep
       DEF StepOf, IInv, NoWorkingOrderWrittenOff, Unresolved
  <2> QED
    BY <1>1, <2>1 DEF SameOrder, Working, JobOf
<1>2. ASSUME NEW o \in OrderIds, Working(o)', orders'[o].symbol = s
      PROVE  Working(o) /\ orders[o].symbol = s
  <2>1. CASE Accept /\ o = sending
    BY <1>2, <2>1 DEF Accept, dbVars
  <2>2. CASE ~(Accept /\ o = sending)
    BY <1>2, <2>2, RowsThroughAStep, KisThroughAStep
       DEF StepOf, KisStepOf, SameOrder, IInv, NoWorkingOrderWrittenOff,
           Unresolved
  <2> QED
    BY <2>1, <2>2
<1>3. CASE \E o \in OrderIds : Working(o) /\ orders[o].symbol = s
  <2> PICK o \in OrderIds : /\ Working(o) /\ orders[o].symbol = s
                            /\ WorkOf(s) = JobOf(o)
    BY <1>3, WorkFacts DEF WorkIsJob
  <2>1. Working(o)' /\ orders'[o].symbol = s /\ JobOf(o)' = JobOf(o)
    BY <1>1
  <2> PICK p \in OrderIds : /\ Working(p)' /\ orders'[p].symbol = s
                            /\ WorkOf(s)' = JobOf(p)'
    BY <2>1, WorkFactsNext DEF WorkIsJob
  <2>2. p = o
    BY <2>1, OneWorks
  <2> QED
    BY <2>1, <2>2
<1>4. CASE ~\E o \in OrderIds : Working(o) /\ orders[o].symbol = s
  BY <1>2, <1>4, WorkFacts, WorkFactsNext DEF WorkIsJob
<1> QED
  BY <1>3, <1>4

LEMMA DeskStep ==
  ASSUME MaxManual = 0, IInv, IInv', [Next]_vars
  PROVE  [Desk!Next]_<<account, [s \in Symbols |-> WorkOf(s)]>>
<1>1. CASE Accept
  <2> PICK o \in OrderIds : o = sending
    BY <1>1, SendingIsUnresolved DEF Accept
  <2> PICK t \in Symbols : t = orders[o].symbol
    BY <1>1, SendingIsUnresolved DEF Accept, OrderRow
  <2>1. /\ orders[o] \in OrderRow
        /\ orders' = orders /\ account' = account /\ Unresolved(o)
        /\ orders[o].side = "sell" => orders[o].qty <= account[t]
    BY <1>1, SendingIsUnresolved DEF Accept, dbVars, OrderRow
  <2>2. /\ kis[o] = None /\ kis'[o] \in KisRow
        /\ kis'[o].filled = 0 /\ kis'[o].state = "working"
        /\ \A p \in OrderIds \ {o} : kis'[p] = kis[p]
    BY <1>1, AcceptEdits DEF EditsKis
  <2>3. WorkOf(t) = None
    BY <2>1, <2>2, WorkFacts
       DEF WorkIsJob, Working, IInv, NoWorkingOrderWrittenOff,
           OneOutstandingOrder
  <2>4. Working(o)'
    BY <2>1, <2>2, NoneAssumption DEF Working, OrderRow
  <2>5. WorkOf(t)' = [side |-> orders[o].side, left |-> orders[o].qty]
    <3> PICK p \in OrderIds : /\ Working(p)' /\ orders'[p].symbol = t
                              /\ WorkOf(t)' = JobOf(p)'
      BY <2>1, <2>4, WorkFactsNext DEF WorkIsJob
    <3>1. p = o
      BY <2>1, <2>4 DEF IInv, NoWorkingOrderWrittenOff, OneOutstandingOrder
    <3> QED
      BY <2>1, <2>2, <3>1 DEF JobOf, OrderRow
  <2>6. \A s \in Symbols \ {t} : WorkOf(s)' = WorkOf(s)
    BY <1>1, <2>1, <2>2, WorkStays DEF Working
  <2> DEFINE job == [side |-> orders[o].side, left |-> orders[o].qty]
  <2>7. job \in Desk!Job /\ (job.side = "sell" => job.left <= account[t])
    BY <2>1 DEF Desk!Job, OrderRow, Sides
  <2> HIDE DEF job
  <2>8. /\ [s \in Symbols |-> WorkOf(s)'][t] = job
        /\ [s \in Symbols |-> WorkOf(s)'] =
             [[s \in Symbols |-> WorkOf(s)] EXCEPT ![t] = job]
    BY <2>1, <2>5, <2>6 DEF job
  <2>9. Desk!Place(t)
    BY <2>1, <2>3, <2>7, <2>8 DEF Desk!Place
  <2> QED
    BY <2>1, <2>9 DEF Desk!Next
<1>2. ASSUME NEW o \in OrderIds, Fill(o)
      PROVE  [Desk!Next]_<<account, [s \in Symbols |-> WorkOf(s)]>>
  <2> PICK t \in Symbols : t = orders[o].symbol
    BY <1>2, FillEdits DEF OrderRow
  <2>1. Working(o) /\ orders' = orders /\ ~Accept
    BY <1>2 DEF Fill, dbVars, procVars, Accept
  <2> PICK n \in Nat \ {0} :
        /\ kis[o] \in KisRow /\ orders[o] \in OrderRow
        /\ n <= orders[o].qty - kis[o].filled
        /\ EditsKis(o, kis[o].filled + n, kis[o].state)
        /\ account' = [account EXCEPT ![t] =
                         IF orders[o].side = "buy" THEN @ + n ELSE @ - n]
    BY <1>2, FillEdits
  <2> PICK left \in Nat : left = orders[o].qty - kis[o].filled
    BY DEF OrderRow, KisRow
  <2>2. n \in 1..left
    OBVIOUS
  <2>3. WorkOf(t) = [side |-> orders[o].side, left |-> left]
    <3> PICK p \in OrderIds : /\ Working(p) /\ orders[p].symbol = t
                              /\ WorkOf(t) = JobOf(p)
      BY <2>1, <2>2, WorkFacts DEF WorkIsJob
    <3>1. p = o
      BY <2>1 DEF IInv, NoWorkingOrderWrittenOff, OneOutstandingOrder
    <3> QED
      BY <3>1 DEF JobOf
  <2>4. WorkOf(t) # None
    BY <2>1, <2>2, WorkFacts, NoneAssumption DEF WorkIsJob
  <2>5. WorkOf(t)' = IF n = left THEN None
                     ELSE [side |-> orders[o].side, left |-> left - n]
    <3>1. /\ kis'[o] # None /\ kis'[o].state = "working"
          /\ kis'[o].filled = kis[o].filled + n
      BY <2>1, NoneAssumption DEF EditsKis, Working
    <3>2. Working(o)' <=> n # left
      BY <2>1, <2>2, <3>1 DEF Working, OrderRow, KisRow
    <3>3. \A p \in OrderIds : Working(p)' /\ orders'[p].symbol = t => p = o
      BY <2>1, OneWorks
    <3>4. CASE n = left
      BY <2>2, <3>2, <3>3, <3>4, WorkFactsNext DEF WorkIsJob
    <3>5. CASE n # left
      <4> PICK p \in OrderIds : /\ Working(p)' /\ orders'[p].symbol = t
                                /\ WorkOf(t)' = JobOf(p)'
        BY <2>1, <2>2, <3>2, <3>5, WorkFactsNext DEF WorkIsJob
      <4>1. p = o
        BY <3>3
      <4> QED
        BY <2>1, <3>1, <3>5, <4>1 DEF JobOf, OrderRow, KisRow
    <3> QED
      BY <3>4, <3>5
  <2>6. \A s \in Symbols \ {t} : WorkOf(s)' = WorkOf(s)
    BY <2>1, WorkStays DEF EditsKis
  <2> DEFINE w == [s \in Symbols |-> WorkOf(s)]
  <2>7. w[t] = [side |-> orders[o].side, left |-> left] /\ w[t] # None
    BY <2>2, <2>3, <2>4
  <2>8. account' = [account EXCEPT ![t] =
                      IF w[t].side = "buy" THEN @ + n ELSE @ - n]
    <3>1. w[t].side = orders[o].side
      BY <2>7
    <3> HIDE DEF w
    <3> QED
      BY <3>1
  <2>9. [s \in Symbols |-> WorkOf(s)'] =
          [w EXCEPT ![t] = IF n = w[t].left THEN None
                           ELSE [w[t] EXCEPT !.left = w[t].left - n]]
    <3>1. [w[t] EXCEPT !.left = w[t].left - n] =
            [side |-> orders[o].side, left |-> left - n]
      BY <2>7
    <3> QED
      BY <2>2, <2>5, <2>6, <2>7, <3>1
  <2>10. n \in 1..w[t].left
    BY <2>2, <2>7
  <2>11. Desk!Trade(t)
    BY <2>7, <2>8, <2>9, <2>10 DEF Desk!Trade
  <2> QED
    BY <2>2, <2>11 DEF Desk!Next
<1>3. ASSUME NEW o \in OrderIds, NEW outcome \in {"cancelled", "rejected"},
             Withdraw(o, outcome)
      PROVE  [Desk!Next]_<<account, [s \in Symbols |-> WorkOf(s)]>>
  <2> PICK t \in Symbols : t = orders[o].symbol
    BY <1>3 DEF Withdraw, Working, IInv, TypeOK, IdsNameRows, Exists, OrderRow
  <2>1. /\ Working(o) /\ orders' = orders /\ account' = account /\ ~Accept
    BY <1>3 DEF Withdraw, dbVars, procVars, Accept
  <2>2. EditsKis(o, kis[o].filled, outcome)
    BY <1>3, WithdrawEdits
  <2>3. WorkOf(t) # None
    BY <2>1, WorkFacts, NoneAssumption DEF WorkIsJob
  <2>4. ~Working(o)'
    BY <2>2 DEF EditsKis, Working
  <2>5. WorkOf(t)' = None
    BY <2>1, <2>4, OneWorks, WorkFactsNext DEF WorkIsJob
  <2>6. \A s \in Symbols \ {t} : WorkOf(s)' = WorkOf(s)
    BY <2>1, <2>2, WorkStays DEF EditsKis
  <2>7. [s \in Symbols |-> WorkOf(s)'] =
          [[s \in Symbols |-> WorkOf(s)] EXCEPT ![t] = None]
    BY <2>1, <2>5, <2>6
  <2>8. Desk!Drop(t)
    BY <2>1, <2>3, <2>7 DEF Desk!Drop
  <2> QED
    BY <2>1, <2>8 DEF Desk!Next
<1>4. CASE kis' = kis /\ account' = account /\ ~Accept
  <2>1. \A s \in Symbols : WorkOf(s)' = WorkOf(s)
    BY <1>4, WorkStays
  <2> QED
    BY <1>4, <2>1
<1>5. ASSUME NEW s \in Symbols, NEW n \in 0..MaxQty, ManualTrade(s, n)
      PROVE  FALSE
  BY <1>5 DEF ManualTrade, IInv, TypeOK
<1>6. [Next]_vars =>
        \/ kis' = kis /\ account' = account /\ ~Accept
        \/ Accept
        \/ \E o \in OrderIds : Fill(o) \/ Withdraw(o, "cancelled")
                                       \/ Withdraw(o, "rejected")
  BY <1>5 DEF Next, Process, Exchange, Crash, Restart, OperatorRestart,
         TelegramCommand, BeginReconcile, Resolve, QueryWithoutRow, QueryOrder,
         WriteStatus, ReadHeld, Record, RecordNothing, RecordBuy, RecordSell,
         CompareBalance, Decide, Submit, InsertOrder, TransportError,
         WriteSubmitted, WriteRejected, EndCycle, Refuse, dbVars, kisVars,
         procVars, vars
<1> QED
  BY <1>1, <1>2, <1>3, <1>4, <1>6

\* The account and the orders at work behave as OrderDesk says: one order per
\* symbol, finished before the next, no sale of more than there is.
THEOREM ImplementsDesk ==
  ASSUME MaxManual = 0
  PROVE  Spec => ImplementsOrderDesk
<1>1. Init => Desk!Init
  BY DEF Init, Desk!Init, WorkOf, Working
<1>2. IInv /\ IInv' /\ [Next]_vars
        => [Desk!Next]_<<account, [s \in Symbols |-> WorkOf(s)]>>
  BY DeskStep
<1> QED
  BY <1>1, <1>2, InvariantHolds, PTL DEF Spec, ImplementsOrderDesk, Desk!Spec

-----------------------------------------------------------------------------
(* The ledger: the inductive invariant.  It speaks of the states before the  *)
(* first crash, trade by hand or withdrawal of what had traded in part.      *)

Quiet ==
  /\ faults.crash = 0 /\ faults.manual = 0
  /\ \A o \in OrderIds : kis[o] # None /\ kis[o].state # "working" => kis[o].filled = 0

\* The shares of o that have traded.
Traded(o) == IF kis[o] = None THEN 0 ELSE kis[o].filled

\* An order whose fills table positions does not have yet, or not all of them.
Awaited(o) == \E r \in results : r.order = o /\ Counts(r)
Open(o) == Unresolved(o) \/ Awaited(o)

\* A position may have fewer shares than the account: only the first fill of an
\* entry is stored.
Agreed(s) ==
  IF positions[s] = None THEN account[s] = 0 ELSE positions[s].qty <= account[s]

\* An entry is recorded unless all shares in the account are fills of it.  An
\* exit began with all shares, and ends the position at its first fill or later.
Accounted(o) ==
  LET s == orders[o].symbol IN
  IF orders[o].side = "buy"
  THEN /\ Traded(o) <= account[s]
       /\ IF positions[s] = None THEN account[s] = Traded(o)
                                 ELSE positions[s].qty <= account[s]
  ELSE /\ account[s] + Traded(o) = orders[o].qty
       /\ IF positions[s] = None THEN Traded(o) > 0
                                 ELSE positions[s].qty <= orders[o].qty

\* The order of a symbol with an open one accounts for what table and account say;
\* where there is none they agree.
OpenAreAccounted == \A o \in OrderIds : Open(o) => Accounted(o)

OthersAgree ==
  \A s \in Symbols : (\A o \in OrderIds : Open(o) => orders[o].symbol # s) => Agreed(s)

\* A symbol has one open order.
OneIsOpen ==
  \A o, p \in OrderIds :
    (Open(o) /\ Open(p) /\ orders[o].symbol = orders[p].symbol) => o = p

\* An order is asked about once.
OneResultEach ==
  /\ \A r, t \in results : r.order = t.order => r = t
  /\ \A r \in results : r.order \notin todo /\ (answer # None => answer.order # r.order)

\* The fills of a result were made, and behind a final status are all of them.
ResultsAreTrue ==
  \A r \in results : Counts(r) =>
    /\ r.filled <= Traded(r.order)
    /\ ~Unresolved(r.order) => r.filled >= orders[r.order].qty

AnswerIsTrue ==
  answer # None =>
    /\ answer.filled <= Traded(answer.order)
    /\ answer.status = "filled" => answer.filled >= orders[answer.order].qty
    /\ answer.status \in {"cancelled", "rejected"} => Traded(answer.order) = 0

\* The running quantity is the stored one until the result of the symbol is recorded.
JudgesByTheTable ==
  pc = "record" =>
    \A r \in results : Counts(r) =>
      LET s == ResultOrder(r).symbol IN
      remaining[s] = IF positions[s] = None THEN None ELSE positions[s].qty

\* What is to be sold is the account.
SalesAreWhole ==
  /\ pc = "decide" => \A s \in Symbols \ PendingSymbols : balance[s] = account[s]
  /\ \A x \in plan : x.side = "sell" =>
       x.qty = account[x.symbol] /\ positions[x.symbol] # None

LedgerParts ==
  /\ OpenAreAccounted /\ OthersAgree /\ OneIsOpen /\ OneResultEach
  /\ ResultsAreTrue /\ AnswerIsTrue /\ JudgesByTheTable /\ SalesAreWhole

LedgerInv == Quiet => LedgerParts

LEMMA InitLedgerInv == Init => LedgerInv
<1> SUFFICES ASSUME Init PROVE LedgerParts
  BY DEF LedgerInv
<1>1. \A o \in OrderIds : ~Open(o)
  BY DEF Init, Open, Awaited, Unresolved, Exists
<1>2. /\ OpenAreAccounted /\ OthersAgree /\ OneIsOpen /\ OneResultEach
      /\ ResultsAreTrue /\ AnswerIsTrue
  BY <1>1 DEF Init, OpenAreAccounted, OthersAgree, Agreed, OneIsOpen, OneResultEach,
     ResultsAreTrue, AnswerIsTrue
<1>3. JudgesByTheTable /\ SalesAreWhole
  BY DEF Init, JudgesByTheTable, SalesAreWhole
<1> QED
  BY <1>1, <1>2, <1>3 DEF LedgerParts

\* What the tables hold.
LEMMA LedgerTypes ==
  ASSUME IInv
  PROVE  /\ \A s \in Symbols : account[s] \in Nat
         /\ \A s \in Symbols : positions[s] # None =>
              positions[s] \in PositionRow /\ positions[s].qty \in Nat \ {0}
         /\ \A o \in OrderIds : Traded(o) \in Nat
         /\ \A o \in OrderIds : Exists(o) =>
              /\ orders[o] \in OrderRow /\ orders[o].symbol \in Symbols
              /\ orders[o].qty \in Nat \ {0} /\ orders[o].side \in {"buy", "sell"}
         /\ \A r \in results : r.order \in OrderIds /\ r.filled \in Nat /\ Exists(r.order)
         /\ \A o \in OrderIds : Open(o) => Exists(o)
<1>1. \A o \in OrderIds : Traded(o) \in Nat
  BY DEF IInv, TypeOK, Traded, KisRow
<1>2. \A r \in results : r.order \in OrderIds /\ r.filled \in Nat /\ Exists(r.order)
  BY DEF IInv, TypeOK, IdsNameRows, Result
<1>3. \A o \in OrderIds : Open(o) => Exists(o)
  BY <1>2 DEF Open, Awaited, Unresolved
<1>4. \A o \in OrderIds : Exists(o) =>
        /\ orders[o] \in OrderRow /\ orders[o].symbol \in Symbols
        /\ orders[o].qty \in Nat \ {0} /\ orders[o].side \in {"buy", "sell"}
  BY DEF IInv, TypeOK, Exists, OrderRow, Sides
<1>5. \A s \in Symbols : positions[s] # None =>
        positions[s] \in PositionRow /\ positions[s].qty \in Nat \ {0}
  BY DEF IInv, TypeOK, PositionRow
<1>6. \A s \in Symbols : account[s] \in Nat
  BY DEF IInv, TypeOK
<1> QED
  BY <1>1, <1>2, <1>3, <1>4, <1>5, <1>6

\* What disturbs the quiet is not forgotten.
LEMMA QuietBefore ==
  ASSUME IInv, [Next]_vars, Quiet'
  PROVE  Quiet
<1>1. faults \in [crash : Nat, lost : Nat, manual : Nat]
  BY DEF IInv, TypeOK
<1>2. faults.crash <= faults'.crash /\ faults.manual <= faults'.manual
  <2>1. CASE Crash
    BY <1>1, <2>1 DEF Crash
  <2>2. CASE TransportError
    BY <1>1, <2>2 DEF TransportError
  <2>3. ASSUME NEW s \in Symbols, NEW n \in 0..MaxQty, ManualTrade(s, n)
        PROVE  faults.crash <= faults'.crash /\ faults.manual <= faults'.manual
    BY <1>1, <2>3 DEF ManualTrade
  <2>4. \/ faults' = faults \/ Crash \/ TransportError
        \/ \E s \in Symbols, n \in 0..MaxQty : ManualTrade(s, n)
    BY DEF Next, Process, Exchange, Restart, OperatorRestart, TelegramCommand,
         BeginReconcile, Resolve, QueryWithoutRow, QueryOrder, WriteStatus,
         ReadHeld, Record, RecordNothing, RecordBuy, RecordSell, CompareBalance,
         Decide, Submit, InsertOrder, WriteSubmitted, WriteRejected, EndCycle,
         Accept, Refuse, Fill, Withdraw, vars
  <2>5. CASE faults' = faults
    BY <1>1, <2>5
  <2> QED
    BY <2>1, <2>2, <2>3, <2>4, <2>5
<1>3. faults.crash = 0 /\ faults.manual = 0
  BY <1>1, <1>2 DEF Quiet
<1>4. ASSUME NEW o \in OrderIds, kis[o] # None, kis[o].state # "working"
      PROVE  kis[o].filled = 0
  <2>1. ~Working(o) /\ ~(Accept /\ o = sending)
    BY <1>4 DEF Working, Accept, IInv, AnswersAreTrue
  <2>2. kis'[o] = kis[o]
    BY <2>1, KisThroughAStep DEF KisStepOf
  <2> QED
    BY <1>4, <2>2 DEF Quiet
<1> QED
  BY <1>3, <1>4 DEF Quiet

LEMMA QuietSteps ==
  ASSUME IInv, [Next]_vars, Quiet'
  PROVE  /\ ~Crash
         /\ \A s \in Symbols, n \in 0..MaxQty : ~ManualTrade(s, n)
<1>1. faults \in [crash : Nat, lost : Nat, manual : Nat]
  BY DEF IInv, TypeOK
<1>2. faults'.crash = 0 /\ faults'.manual = 0
  BY DEF Quiet
<1>3. ~Crash
  BY <1>1, <1>2 DEF Crash
<1>4. \A s \in Symbols, n \in 0..MaxQty : ~ManualTrade(s, n)
  BY <1>1, <1>2 DEF ManualTrade
<1> QED
  BY <1>3, <1>4

\* Steps that change nothing of what the parts are about.
LEMMA ViewsStay ==
  ASSUME IInv, LedgerParts,
         positions' = positions, account' = account,
         \A o \in OrderIds : Exists(o) => SameOrder(o),
         \A o \in OrderIds : (Open(o)' <=> Open(o)) /\ Traded(o)' = Traded(o)
  PROVE  OpenAreAccounted' /\ OthersAgree' /\ OneIsOpen'
<1>1. \A o \in OrderIds : Open(o)' =>
        /\ Open(o) /\ orders'[o].symbol = orders[o].symbol
        /\ orders'[o].side = orders[o].side /\ orders'[o].qty = orders[o].qty
  BY LedgerTypes DEF SameOrder
<1>2. \A o \in OrderIds : Open(o)' => Accounted(o)'
  BY <1>1 DEF LedgerParts, OpenAreAccounted, Accounted
<1>3. \A s \in Symbols :
        (\A o \in OrderIds : Open(o)' => orders'[o].symbol # s) => Agreed(s)'
  <2> SUFFICES ASSUME NEW s \in Symbols,
                      \A o \in OrderIds : Open(o)' => orders'[o].symbol # s
               PROVE  Agreed(s)'
    OBVIOUS
  <2>1. Agreed(s)
    BY <1>1 DEF LedgerParts, OthersAgree
  <2> QED
    BY <2>1 DEF Agreed
<1>4. OneIsOpen'
  BY <1>1 DEF LedgerParts, OneIsOpen
<1> QED
  BY <1>2, <1>3, <1>4 DEF OpenAreAccounted, OthersAgree

\* Steps that change neither the results nor the answer.
LEMMA ResultsStay ==
  ASSUME IInv, IInv', LedgerParts, results' = results, answer' = answer,
         \A o \in OrderIds : Exists(o) => SameOrder(o) /\ (Unresolved(o) => Unresolved(o)'),
         \A o \in OrderIds : \/ Traded(o)' = Traded(o)
                             \/ Working(o) /\ Traded(o) <= Traded(o)',
         results = {} \/ todo' \subseteq todo
  PROVE  OneResultEach' /\ ResultsAreTrue' /\ AnswerIsTrue'
<1>1. OneResultEach'
  BY DEF LedgerParts, OneResultEach
<1>2. \A o \in OrderIds : Traded(o) \in Nat /\ Traded(o)' \in Nat
  BY LedgerTypes DEF IInv, TypeOK, Traded, KisRow
<1>3. ASSUME NEW r \in results', Counts(r)'
      PROVE  /\ r.filled <= Traded(r.order)'
             /\ ~Unresolved(r.order)' => r.filled >= orders'[r.order].qty
  <2>1. /\ r \in results /\ Counts(r)
        /\ r.order \in OrderIds /\ r.filled \in Nat /\ Exists(r.order)
    BY <1>3, LedgerTypes DEF Counts
  <2>2. /\ r.filled <= Traded(r.order)
        /\ ~Unresolved(r.order) => r.filled >= orders[r.order].qty
    BY <2>1 DEF LedgerParts, ResultsAreTrue
  <2>3. Traded(r.order) <= Traded(r.order)'
    BY <1>2, <2>1
  <2> QED
    BY <1>2, <2>1, <2>2, <2>3 DEF SameOrder
<1>4. AnswerIsTrue'
  <2> SUFFICES ASSUME answer # None PROVE AnswerIsTrue'
    BY DEF AnswerIsTrue
  <2> PICK o \in OrderIds : o = answer.order
    BY DEF IInv, TypeOK, Result
  <2>1. /\ answer.filled <= Traded(o)
        /\ answer.status = "filled" => answer.filled >= orders[o].qty
        /\ answer.status \in {"cancelled", "rejected"} => Traded(o) = 0
    BY DEF LedgerParts, AnswerIsTrue
  <2>2. answer.status \in {"cancelled", "rejected"} => ~Working(o)
    BY DEF IInv, AnswersAreTrue, UNRESOLVED_STATUSES
  <2>3. Exists(o) /\ answer.filled \in Nat
    BY DEF IInv, TypeOK, Result, IdsNameRows, Unresolved
  <2>4. answer.filled <= Traded(o)'
    BY <1>2, <2>1, <2>3
  <2>5. orders'[o].qty = orders[o].qty
    BY <2>3 DEF SameOrder
  <2>6. answer.status \in {"cancelled", "rejected"} => Traded(o)' = 0
    BY <2>1, <2>2
  <2> QED
    BY <2>1, <2>4, <2>5, <2>6 DEF AnswerIsTrue, Traded
<1> QED
  BY <1>1, <1>3, <1>4 DEF ResultsAreTrue

LEMMA SalesStep ==
  ASSUME IInv, LedgerParts, [Next]_vars, Quiet'
  PROVE  SalesAreWhole'
<1>0. TypeOK /\ PlanIsFresh /\ LocalsInPlace /\ SalesAreWhole
  BY DEF IInv, LedgerParts
<1>1. \A s \in Symbols :
        account'[s] = account[s]
          \/ \E o \in OrderIds : Fill(o) /\ orders[o].symbol = s /\ Unresolved(o)
  BY QuietSteps, FillsMoveTheAccount
<1>2. ASSUME pc' = "decide", NEW s \in Symbols \ PendingSymbols'
      PROVE  balance'[s] = account'[s]
  <2>1. CASE CompareBalance
    BY <1>2, <2>1 DEF CompareBalance, kisVars
  <2>2. CASE ~CompareBalance
    <3>1. pc = "decide" /\ balance' = balance /\ orders' = orders
      BY <1>2, <2>2 DEF Next, Process, Exchange, Crash, Restart,
         OperatorRestart, TelegramCommand, BeginReconcile, Resolve,
         QueryWithoutRow, QueryOrder, WriteStatus, ReadHeld, Record,
         RecordNothing, RecordBuy, RecordSell, Decide, Submit, InsertOrder,
         TransportError, WriteSubmitted, WriteRejected, EndCycle, Accept,
         Refuse, Fill, Withdraw, ManualTrade, dbVars, kisVars, procVars, vars
    <3>2. s \notin PendingSymbols
      BY <1>2, <3>1 DEF PendingSymbols, Unresolved, Exists
    <3>3. account'[s] = account[s]
      BY <1>1, <3>2 DEF PendingSymbols
    <3> QED
      BY <1>0, <3>1, <3>2, <3>3 DEF SalesAreWhole
  <2> QED
    BY <2>1, <2>2
<1>3. ASSUME NEW x \in plan', x.side = "sell"
      PROVE  x.qty = account'[x.symbol] /\ positions'[x.symbol] # None
  <2>1. CASE Decide
    <3> PICK signalled \in SUBSET HeldSymbols,
             topUps \in SUBSET HeldSymbols,
             entries \in SUBSET (Symbols \ HeldSymbols),
             qty \in [Symbols -> Quantities] :
               plan' = OrdersFor(signalled, topUps \cup entries, qty)
      BY <2>1 DEF Decide
    <3>1. /\ x.symbol \in Symbols \ PendingSymbols /\ x.qty = balance[x.symbol]
          /\ positions[x.symbol] # None
      BY <1>3 DEF OrdersFor, Orderable, HeldSymbols
    <3>2. account' = account /\ positions' = positions /\ pc = "decide"
      BY <2>1 DEF Decide, kisVars, dbVars
    <3> QED
      BY <1>0, <3>1, <3>2 DEF SalesAreWhole
  <2>2. CASE ~Decide
    <3>1. x \in plan
      BY <1>3, <2>2 DEF Next, Process, Exchange, Crash, Restart,
         OperatorRestart, TelegramCommand, BeginReconcile, Resolve,
         QueryWithoutRow, QueryOrder, WriteStatus, ReadHeld, Record,
         RecordNothing, RecordBuy, RecordSell, CompareBalance, Submit,
         InsertOrder, TransportError, WriteSubmitted, WriteRejected, EndCycle,
         Accept, Refuse, Fill, Withdraw, ManualTrade, dbVars, kisVars, procVars,
         vars
    <3>2. positions' = positions
      <4>1. pc # "record"
        BY <1>0, <3>1 DEF LocalsInPlace
      <4> QED
        BY <4>1, <2>2 DEF Next, Process, Exchange, Crash, Restart,
         OperatorRestart, TelegramCommand, BeginReconcile, Resolve,
         QueryWithoutRow, QueryOrder, WriteStatus, ReadHeld, Record,
         RecordNothing, RecordBuy, RecordSell, CompareBalance, Submit,
         InsertOrder, TransportError, WriteSubmitted, WriteRejected, EndCycle,
         Accept, Refuse, Fill, Withdraw, ManualTrade, dbVars, kisVars, procVars,
         vars
    <3>3. x.symbol \in Symbols
      BY <1>0, <3>1 DEF TypeOK, Request
    <3>4. account'[x.symbol] = account[x.symbol]
      BY <1>0, <1>1, <3>1, <3>3 DEF PlanIsFresh
    <3> QED
      BY <1>0, <1>3, <3>1, <3>2, <3>4 DEF SalesAreWhole
  <2> QED
    BY <2>1, <2>2
<1> QED
  BY <1>2, <1>3 DEF SalesAreWhole

LEMMA JudgesByTheTableStep ==
  ASSUME IInv, LedgerParts, [Next]_vars
  PROVE  JudgesByTheTable'
<1> SUFFICES ASSUME pc' = "record", NEW r \in results', Counts(r)',
                    NEW s, s = ResultOrder(r).symbol'
             PROVE  remaining'[s] = IF positions'[s] = None THEN None ELSE positions'[s].qty
  BY DEF JudgesByTheTable
<1>1. CASE ReadHeld
  <2>1. r \in results /\ orders' = orders /\ positions' = positions
    BY <1>1 DEF ReadHeld, dbVars
  <2>2. s \in Symbols
    BY <2>1, LedgerTypes DEF ResultOrder
  <2> QED
    BY <1>1, <2>1, <2>2 DEF ReadHeld
<1>2. ASSUME NEW t \in results, RecordNothing(t) \/ RecordBuy(t) \/ RecordSell(t)
      PROVE  remaining'[s] = IF positions'[s] = None THEN None ELSE positions'[s].qty
  <2> DEFINE u == ResultOrder(t).symbol
  <2>1. pc = "record" /\ r \in results /\ r # t /\ orders' = orders
    BY <1>2 DEF RecordNothing, RecordBuy, RecordSell, dbVars
  <2>2. /\ s = ResultOrder(r).symbol /\ s \in Symbols /\ u \in Symbols
        /\ r.order \in OrderIds /\ t.order \in OrderIds
    BY <2>1, LedgerTypes DEF ResultOrder
  <2>3. remaining[s] = IF positions[s] = None THEN None ELSE positions[s].qty
    BY <2>1, <2>2 DEF LedgerParts, JudgesByTheTable, Counts
  <2>4. Counts(t) => s # u
    <3> SUFFICES ASSUME Counts(t), s = u PROVE FALSE
      OBVIOUS
    <3>1. Open(r.order) /\ Open(t.order)
      BY <2>1 DEF Open, Awaited, Counts
    <3>2. r.order = t.order
      BY <2>2, <3>1 DEF LedgerParts, OneIsOpen, ResultOrder
    <3> QED
      BY <2>1, <3>2 DEF LedgerParts, OneResultEach
  <2>5. remaining'[s] = remaining[s] /\ positions'[s] = positions[s]
    <3> HIDE DEF u
    <3>1. /\ remaining \in [Symbols -> Int \cup {None}]
          /\ positions \in [Symbols -> PositionRow \cup {None}]
      BY DEF IInv, TypeOK
    <3>2. CASE RecordNothing(t)
      BY <3>2 DEF RecordNothing, dbVars
    <3>3. CASE RecordBuy(t)
      BY <2>2, <2>4, <3>1, <3>3 DEF RecordBuy, u
    <3>4. CASE RecordSell(t)
      BY <2>2, <2>4, <3>1, <3>4 DEF RecordSell, u
    <3> QED
      BY <1>2, <3>2, <3>3, <3>4
  <2> QED
    BY <2>3, <2>5
<1>3. CASE ~ReadHeld /\ ~Record
  <2>1. /\ pc = "record" /\ positions' = positions /\ remaining' = remaining
        /\ results' = results /\ orders' = orders
    BY <1>3 DEF Next, Process, Exchange, Crash, Restart, OperatorRestart,
         TelegramCommand, BeginReconcile, Resolve, QueryWithoutRow, QueryOrder,
         WriteStatus, CompareBalance, Decide, Submit, InsertOrder,
         TransportError, WriteSubmitted, WriteRejected, EndCycle, Accept,
         Refuse, Fill, Withdraw, ManualTrade, dbVars, kisVars, procVars, vars
  <2> QED
    BY <2>1 DEF LedgerParts, JudgesByTheTable, Counts, ResultOrder
<1> QED
  BY <1>1, <1>2, <1>3 DEF Record

\* What each action is shown to keep; SalesAreWhole and JudgesByTheTable are dealt
\* with above.
Core ==
  /\ OpenAreAccounted /\ OthersAgree /\ OneIsOpen /\ OneResultEach
  /\ ResultsAreTrue /\ AnswerIsTrue

LEMMA CoreStays ==
  ASSUME IInv, IInv', LedgerParts, [Next]_vars,
         positions' = positions, account' = account, results' = results, answer' = answer,
         \A o \in OrderIds : Exists(o) => (Unresolved(o)' <=> Unresolved(o)),
         \A o \in OrderIds : Exists(o)' => Exists(o),
         \A o \in OrderIds : Traded(o)' = Traded(o),
         results = {} \/ todo' \subseteq todo
  PROVE  Core'
<1>1. \A o \in OrderIds : Exists(o) => SameOrder(o)
  BY RowsThroughAStep DEF StepOf
<1>2. \A o \in OrderIds : Unresolved(o)' <=> Unresolved(o)
  BY DEF Unresolved
<1>3. \A o \in OrderIds : Open(o)' <=> Open(o)
  BY <1>2 DEF Open, Awaited, Counts
<1>4. OpenAreAccounted' /\ OthersAgree' /\ OneIsOpen'
  BY <1>1, <1>3, ViewsStay
<1>5. OneResultEach' /\ ResultsAreTrue' /\ AnswerIsTrue'
  BY <1>1, <1>2, ResultsStay
<1> QED
  BY <1>4, <1>5 DEF Core

\* One lemma for each action, or a few of a kind.
LEMMA IdleStepIsQuiet ==
  ASSUME IInv, IInv', LedgerParts, [Next]_vars,
         \/ Restart \/ OperatorRestart \/ TelegramCommand \/ BeginReconcile \/ ReadHeld
         \/ CompareBalance \/ Decide \/ TransportError \/ EndCycle \/ Refuse
         \/ UNCHANGED vars
  PROVE  Core'
<1>1. /\ orders' = orders /\ positions' = positions /\ kis' = kis /\ account' = account
      /\ results' = results /\ answer' = answer
  BY DEF Restart, OperatorRestart, TelegramCommand, BeginReconcile, ReadHeld,
     CompareBalance, Decide, TransportError, EndCycle, Refuse, vars, dbVars, kisVars,
     procVars
<1>2. results = {} \/ todo' \subseteq todo
  BY DEF Restart, OperatorRestart, TelegramCommand, BeginReconcile, ReadHeld,
     CompareBalance, Decide, TransportError, EndCycle, Refuse, vars, dbVars, kisVars,
     procVars, IInv, LocalsInPlace
<1>3. \A o \in OrderIds : /\ Exists(o)' <=> Exists(o)
                          /\ Unresolved(o)' <=> Unresolved(o)
                          /\ Traded(o)' = Traded(o)
  BY <1>1 DEF Exists, Unresolved, Traded
<1> QED
  BY <1>1, <1>2, <1>3, CoreStays

LEMMA ExchangeStepIsQuiet ==
  ASSUME IInv, IInv', LedgerParts, [Next]_vars,
         \/ WriteSubmitted \/ Accept
         \/ \E o \in OrderIds, outcome \in {"cancelled", "rejected"} : Withdraw(o, outcome)
  PROVE  Core'
<1>1. CASE WriteSubmitted
  <2>1. /\ positions' = positions /\ kis' = kis /\ account' = account
        /\ results' = results /\ answer' = answer /\ todo' = todo
    BY <1>1 DEF WriteSubmitted, dbVars, kisVars, procVars
  <2>2. \A o \in OrderIds : /\ Exists(o)' <=> Exists(o)
                            /\ Unresolved(o)' <=> Unresolved(o)
    BY <1>1, WriteSubmittedEdits, SendingIsUnresolved, NoneAssumption
       DEF EditsOrder, WriteSubmitted, Exists, Unresolved, UNRESOLVED_STATUSES
  <2>3. \A o \in OrderIds : Traded(o)' = Traded(o)
    BY <2>1 DEF Traded
  <2> QED
    BY <2>1, <2>2, <2>3, CoreStays
<1>2. ASSUME \/ Accept
             \/ \E o \in OrderIds, outcome \in {"cancelled", "rejected"} : Withdraw(o, outcome)
      PROVE  Core'
  <2>1. /\ orders' = orders /\ positions' = positions /\ account' = account
        /\ results' = results /\ answer' = answer /\ todo' = todo
    BY <1>2 DEF Accept, Withdraw, dbVars, kisVars, procVars
  <2>2. \A o \in OrderIds : /\ Exists(o)' <=> Exists(o)
                            /\ Unresolved(o)' <=> Unresolved(o)
    BY <2>1 DEF Exists, Unresolved
  <2>3. ASSUME Accept PROVE \A o \in OrderIds : Traded(o)' = Traded(o)
    BY <2>3, AcceptEdits, NoneAssumption DEF EditsKis, Traded
  <2>4. ASSUME NEW p \in OrderIds, NEW outcome \in {"cancelled", "rejected"},
               Withdraw(p, outcome)
        PROVE  \A o \in OrderIds : Traded(o)' = Traded(o)
    BY <2>4, WithdrawEdits, NoneAssumption DEF EditsKis, Traded
  <2> QED
    BY <1>2, <2>1, <2>2, <2>3, <2>4, CoreStays
<1> QED
  BY <1>1, <1>2

LEMMA QuietQueryWithoutRow ==
  ASSUME IInv, IInv', LedgerParts, [Next]_vars, NEW o \in OrderIds, QueryWithoutRow(o)
  PROVE  Core'
<1>1. /\ orders' = orders /\ positions' = positions /\ kis' = kis /\ account' = account
      /\ answer = None /\ answer' = answer /\ o \in todo /\ todo' = todo \ {o}
  BY DEF QueryWithoutRow, dbVars, kisVars
<1> DEFINE r0 == [order |-> o, status |-> orders[o].status, filled |-> 0]
<1>2. results' = results \cup {r0}
  BY DEF QueryWithoutRow
<1>3. r0.order = o /\ r0.filled = 0
  OBVIOUS
<1> HIDE DEF r0
<1>4. ~Counts(r0)
  BY <1>3 DEF Counts
<1>5. \A p \in OrderIds : Open(p)' <=> Open(p)
  <2>1. \A p \in OrderIds : Awaited(p)' <=> Awaited(p)
    BY <1>2, <1>4 DEF Awaited, Counts
  <2>2. \A p \in OrderIds : Unresolved(p)' <=> Unresolved(p)
    BY <1>1 DEF Unresolved, Exists
  <2> QED
    BY <2>1, <2>2 DEF Open
<1>6. OpenAreAccounted' /\ OthersAgree' /\ OneIsOpen'
  <2>1. \A p \in OrderIds : Exists(p) => SameOrder(p)
    BY RowsThroughAStep DEF StepOf
  <2>2. \A p \in OrderIds : Traded(p)' = Traded(p)
    BY <1>1 DEF Traded
  <2> QED
    BY <1>1, <1>5, <2>1, <2>2, ViewsStay
<1>7. OneResultEach'
  BY <1>1, <1>2, <1>3 DEF LedgerParts, OneResultEach
<1>8. ResultsAreTrue'
  BY <1>1, <1>2, <1>4 DEF LedgerParts, ResultsAreTrue, Counts, Traded, Unresolved, Exists
<1>9. AnswerIsTrue'
  BY <1>1 DEF AnswerIsTrue
<1> QED
  BY <1>6, <1>7, <1>8, <1>9 DEF Core

LEMMA QuietQueryOrder ==
  ASSUME IInv, IInv', LedgerParts, Quiet, [Next]_vars, NEW o \in OrderIds, QueryOrder(o)
  PROVE  Core'
<1>1. /\ positions' = positions /\ kis' = kis /\ account' = account /\ results' = results
      /\ answer = None /\ o \in todo /\ todo' = todo \ {o} /\ kis[o] # None
  BY DEF QueryOrder, kisVars
<1>2. /\ kis[o] \in KisRow /\ Exists(o)
      /\ \A p \in OrderIds : Unresolved(p)' <=> Unresolved(p)
  BY QueryEdits, NoneAssumption DEF EditsOrder, Unresolved, Exists
<1>3. \A p \in OrderIds : Traded(p)' = Traded(p)
  BY <1>1 DEF Traded
<1>4. \A p \in OrderIds : Exists(p) => SameOrder(p)
  BY RowsThroughAStep DEF StepOf
<1>5. OpenAreAccounted' /\ OthersAgree' /\ OneIsOpen'
  <2>1. \A p \in OrderIds : Open(p)' <=> Open(p)
    BY <1>1, <1>2 DEF Open, Awaited, Counts
  <2> QED
    BY <1>1, <1>3, <1>4, <2>1, ViewsStay
<1>6. /\ answer'.order = o /\ answer'.filled = kis[o].filled
      /\ answer'.status = StatusOf(kis[o], orders[o].qty)
  BY DEF QueryOrder
<1>7. OneResultEach'
  BY <1>1, <1>6 DEF LedgerParts, OneResultEach
<1>8. ResultsAreTrue'
  <2> SUFFICES ASSUME NEW r \in results, Counts(r)
               PROVE  /\ r.filled <= Traded(r.order)'
                      /\ ~Unresolved(r.order)' => r.filled >= orders'[r.order].qty
    BY <1>1 DEF ResultsAreTrue, Counts
  <2>1. r.order \in OrderIds /\ Exists(r.order)
    BY LedgerTypes
  <2> QED
    BY <1>2, <1>3, <1>4, <2>1 DEF LedgerParts, ResultsAreTrue, SameOrder
<1>9. AnswerIsTrue'
  <2>1. orders'[o].qty = orders[o].qty
    BY <1>2, <1>4 DEF SameOrder
  <2>2. answer'.status = "filled" => kis[o].filled >= orders[o].qty
    BY <1>6 DEF StatusOf
  <2>3. answer'.status \in {"cancelled", "rejected"} => kis[o].filled = 0
    BY <1>1, <1>2, <1>6 DEF StatusOf, KisRow, Quiet
  <2>4. kis[o].filled <= kis[o].filled
    BY <1>2 DEF KisRow
  <2> QED
    BY <1>1, <1>6, <2>1, <2>2, <2>3, <2>4 DEF AnswerIsTrue, Traded
<1> QED
  BY <1>5, <1>7, <1>8, <1>9 DEF Core

\* A step that ends at most order o, of which nothing has traded if it does.
LEMMA OpenOrderEnds ==
  ASSUME IInv, LedgerParts, NEW o \in OrderIds, Open(o),
         positions' = positions, account' = account,
         \A p \in OrderIds : Exists(p) => SameOrder(p),
         \A p \in OrderIds : Traded(p)' = Traded(p),
         \A p \in OrderIds : Open(p)' => Open(p),
         \A p \in OrderIds \ {o} : Open(p) => Open(p)',
         Open(o)' \/ Traded(o) = 0
  PROVE  OpenAreAccounted' /\ OthersAgree' /\ OneIsOpen'
<1>1. \A p \in OrderIds : Open(p) =>
        /\ orders'[p].symbol = orders[p].symbol
        /\ orders'[p].side = orders[p].side /\ orders'[p].qty = orders[p].qty
  BY LedgerTypes DEF SameOrder
<1>2. \A p \in OrderIds : Open(p)' => Accounted(p)'
  BY <1>1 DEF LedgerParts, OpenAreAccounted, Accounted
<1>3. ASSUME NEW s \in Symbols, \A p \in OrderIds : Open(p)' => orders'[p].symbol # s
      PROVE  Agreed(s)'
  <2>1. CASE orders[o].symbol = s
    <3>1. Traded(o) = 0
      BY <1>1, <1>3, <2>1
    <3>2. Accounted(o) /\ account[s] \in Nat
      BY LedgerTypes DEF LedgerParts, OpenAreAccounted
    <3>3. Agreed(s)
      BY <2>1, <3>1, <3>2 DEF Accounted, Agreed
    <3> QED
      BY <3>3 DEF Agreed
  <2>2. CASE orders[o].symbol # s
    <3>1. Agreed(s)
      BY <1>1, <1>3, <2>2 DEF LedgerParts, OthersAgree
    <3> QED
      BY <3>1 DEF Agreed
  <2> QED
    BY <2>1, <2>2
<1>4. OneIsOpen'
  BY <1>1 DEF LedgerParts, OneIsOpen
<1> QED
  BY <1>2, <1>3, <1>4 DEF OpenAreAccounted, OthersAgree

LEMMA QuietWriteStatus ==
  ASSUME IInv, IInv', LedgerParts, [Next]_vars, WriteStatus
  PROVE  Core'
<1> PICK a \in Result, o \in OrderIds : a = answer /\ o = answer.order
  BY WriteStatusEdits
<1>1. /\ positions' = positions /\ kis' = kis /\ account' = account
      /\ results' = results \cup {a} /\ answer' = None /\ answer # None
      /\ todo' = todo /\ a.order = o
  BY DEF WriteStatus, kisVars
<1>2. /\ Unresolved(o) /\ o \notin todo
      /\ orders'[o].status = a.status
      /\ \A p \in OrderIds \ {o} : orders'[p] = orders[p]
  BY <1>1, WriteStatusEdits DEF EditsOrder, IInv, IdsNameRows
<1>3. \A p \in OrderIds : Traded(p)' = Traded(p)
  BY <1>1 DEF Traded
<1>4. \A p \in OrderIds : Exists(p) => SameOrder(p)
  BY RowsThroughAStep DEF StepOf
<1>5. \A r \in results : r.order # o
  BY <1>1 DEF LedgerParts, OneResultEach
<1>6. /\ a.filled <= Traded(o)
      /\ a.status = "filled" => a.filled >= orders[o].qty
      /\ a.status \in {"cancelled", "rejected"} => Traded(o) = 0
  BY <1>1 DEF LedgerParts, AnswerIsTrue
<1>7. orders[o].qty \in Nat \ {0} /\ a.filled \in Nat /\ a.status \in OrderStatus
  BY <1>2, LedgerTypes DEF Unresolved, Result
<1>8. Exists(o) /\ Exists(o)' /\ orders'[o].qty = orders[o].qty
  BY <1>2, <1>4 DEF Unresolved, SameOrder
<1>9. \A p \in OrderIds \ {o} : Open(p)' <=> Open(p)
  <2>1. \A p \in OrderIds \ {o} : Awaited(p)' <=> Awaited(p)
    BY <1>1 DEF Awaited, Counts
  <2>2. \A p \in OrderIds \ {o} : Unresolved(p)' <=> Unresolved(p)
    BY <1>2 DEF Unresolved, Exists
  <2> QED
    BY <2>1, <2>2 DEF Open
<1>10. Open(o)
  BY <1>2 DEF Open
<1>11. Open(o)' \/ Traded(o) = 0
  <2>1. CASE a.status \in UNRESOLVED_STATUSES
    BY <1>2, <1>8, <2>1 DEF Open, Unresolved
  <2>2. CASE a.status = "filled"
    <3>1. a \in results' /\ Counts(a)
      BY <1>1, <1>6, <1>7, <2>2 DEF Counts
    <3> QED
      BY <3>1 DEF Open, Awaited, Counts
  <2>3. CASE a.status \in {"cancelled", "rejected"}
    BY <1>6, <2>3
  <2> QED
    BY <1>7, <2>1, <2>2, <2>3 DEF OrderStatus, UNRESOLVED_STATUSES
<1>12. OpenAreAccounted' /\ OthersAgree' /\ OneIsOpen'
  BY <1>1, <1>2, <1>3, <1>4, <1>9, <1>10, <1>11, OpenOrderEnds
<1>13. OneResultEach'
  <2>1. \A r, t \in results' : r.order = t.order => r = t
    BY <1>1, <1>5 DEF LedgerParts, OneResultEach
  <2>2. \A r \in results' : r.order \notin todo'
    BY <1>1, <1>2 DEF LedgerParts, OneResultEach
  <2> QED
    BY <1>1, <2>1, <2>2 DEF OneResultEach
<1>14. ASSUME NEW r \in results', Counts(r)
       PROVE  /\ r.filled <= Traded(r.order)'
              /\ ~Unresolved(r.order)' => r.filled >= orders'[r.order].qty
  <2>1. CASE r \in results
    <3>1. r.order \in OrderIds \ {o} /\ Exists(r.order)
      BY <1>5, <2>1, LedgerTypes
    <3> QED
      BY <1>2, <1>3, <1>14, <2>1, <3>1 DEF LedgerParts, ResultsAreTrue, Unresolved, Exists
  <2>2. CASE r = a
    <3>1. r.order = o /\ r.filled <= Traded(o)'
      BY <1>1, <1>2, <1>3, <1>6, <2>2
    <3>2. CASE a.status = "filled"
      BY <1>6, <1>8, <2>2, <3>1, <3>2
    <3>3. CASE a.status # "filled"
      <4>1. Unresolved(o)'
        BY <1>2, <1>8, <1>14, <2>2, <3>3 DEF Counts, Unresolved, UNRESOLVED_STATUSES
      <4> QED
        BY <3>1, <4>1
    <3> QED
      BY <3>2, <3>3
  <2> QED
    BY <1>1, <1>14, <2>1, <2>2
<1>15. ResultsAreTrue'
  BY <1>14 DEF ResultsAreTrue, Counts
<1>16. AnswerIsTrue'
  BY <1>1 DEF AnswerIsTrue
<1> QED
  BY <1>12, <1>13, <1>15, <1>16 DEF Core

LEMMA QuietWriteRejected ==
  ASSUME IInv, IInv', LedgerParts, [Next]_vars, WriteRejected
  PROVE  Core'
<1>1. /\ positions' = positions /\ kis' = kis /\ account' = account
      /\ results' = results /\ answer' = answer /\ todo' = todo /\ pc = "nack"
  BY DEF WriteRejected, kisVars
<1>2. /\ sending \in OrderIds /\ Unresolved(sending) /\ kis[sending] = None
      /\ \A p \in OrderIds \ {sending} : orders'[p] = orders[p]
  BY <1>1, SendingIsUnresolved, WriteRejectedEdits DEF EditsOrder, IInv, AnswersAreTrue
<1>3. results = {} /\ answer = None
  BY <1>1 DEF IInv, LocalsInPlace
<1>4. \A p \in OrderIds : Traded(p)' = Traded(p)
  BY <1>1 DEF Traded
<1>5. \A p \in OrderIds : Exists(p) => SameOrder(p)
  BY RowsThroughAStep DEF StepOf
<1>6. \A p \in OrderIds \ {sending} : Open(p)' <=> Open(p)
  BY <1>1, <1>2, <1>3 DEF Open, Awaited, Unresolved, Exists
<1>7. Open(sending) /\ Traded(sending) = 0
  BY <1>2 DEF Open, Traded
<1>8. OpenAreAccounted' /\ OthersAgree' /\ OneIsOpen'
  BY <1>1, <1>2, <1>4, <1>5, <1>6, <1>7, OpenOrderEnds
<1>9. OneResultEach' /\ ResultsAreTrue' /\ AnswerIsTrue'
  BY <1>1, <1>3 DEF OneResultEach, ResultsAreTrue, AnswerIsTrue
<1> QED
  BY <1>8, <1>9 DEF Core

LEMMA QuietInsert ==
  ASSUME IInv, IInv', LedgerParts, [Next]_vars, NEW x \in plan, NEW o \in OrderIds,
         InsertOrder(x, o)
  PROVE  Core'
<1>1. /\ positions' = positions /\ kis' = kis /\ account' = account
      /\ results' = results /\ answer' = answer /\ pc = "submit"
  BY DEF InsertOrder, kisVars
<1>2. results = {} /\ answer = None
  BY <1>1 DEF IInv, LocalsInPlace
<1>3. /\ \A p \in OrderIds \ {o} : orders'[p] = orders[p]
      /\ orders[o] = None /\ kis[o] = None /\ orders'[o] \in OrderRow
      /\ orders'[o].symbol = x.symbol /\ orders'[o].side = x.side
      /\ orders'[o].qty = x.qty /\ x.symbol \in Symbols
  BY InsertAdds DEF Request
<1>4. \A p \in OrderIds : Open(p) <=> Unresolved(p)
  BY <1>2 DEF Open, Awaited
<1>5. \A p \in OrderIds \ {o} : Open(p)' <=> Open(p)
  BY <1>1, <1>2, <1>3 DEF Open, Awaited, Unresolved, Exists
<1>6. Open(o)' /\ ~Open(o)
  BY <1>1, <1>2, <1>3, InsertAdds, NoneAssumption
     DEF Open, Awaited, Unresolved, Exists, UNRESOLVED_STATUSES
<1>7. \A p \in OrderIds : Open(p) => orders[p].symbol # x.symbol
  BY <1>4 DEF IInv, PlanIsFresh
<1>8. Agreed(x.symbol)
  BY <1>3, <1>7 DEF LedgerParts, OthersAgree
<1>9. Accounted(o)'
  <2>1. Traded(o)' = 0
    BY <1>1, <1>3 DEF Traded
  <2>2. x.side = "buy" \/ (x.qty = account[x.symbol] /\ positions[x.symbol] # None)
    BY DEF LedgerParts, SalesAreWhole, IInv, TypeOK, Request, Sides
  <2>3. account[x.symbol] \in Nat
    BY <1>3, LedgerTypes
  <2> QED
    BY <1>1, <1>3, <1>8, <2>1, <2>2, <2>3 DEF Accounted, Agreed
<1>10. ASSUME NEW p \in OrderIds \ {o}, Open(p)'
       PROVE  Accounted(p)'
  <2>1. Accounted(p) /\ orders'[p] = orders[p]
    BY <1>3, <1>5, <1>10 DEF LedgerParts, OpenAreAccounted
  <2>2. Traded(p)' = Traded(p)
    BY <1>1 DEF Traded
  <2> QED
    BY <1>1, <2>1, <2>2 DEF Accounted
<1>11. OpenAreAccounted'
  BY <1>9, <1>10 DEF OpenAreAccounted
<1>12. ASSUME NEW s \in Symbols, \A p \in OrderIds : Open(p)' => orders'[p].symbol # s
       PROVE  Agreed(s)'
  <2>1. \A p \in OrderIds : Open(p) => orders[p].symbol # s
    BY <1>3, <1>5, <1>6, <1>12
  <2>2. Agreed(s)
    BY <2>1 DEF LedgerParts, OthersAgree
  <2> QED
    BY <1>1, <2>2 DEF Agreed
<1>13. OthersAgree'
  BY <1>12 DEF OthersAgree
<1>14. OneIsOpen'
  BY <1>3, <1>5, <1>7 DEF LedgerParts, OneIsOpen
<1>15. OneResultEach' /\ ResultsAreTrue' /\ AnswerIsTrue'
  BY <1>1, <1>2 DEF OneResultEach, ResultsAreTrue, AnswerIsTrue
<1> QED
  BY <1>11, <1>13, <1>14, <1>15 DEF Core

LEMMA QuietFill ==
  ASSUME IInv, IInv', LedgerParts, [Next]_vars, NEW o \in OrderIds, Fill(o)
  PROVE  Core'
<1> DEFINE s == orders[o].symbol
<1>1. /\ orders' = orders /\ positions' = positions /\ results' = results
      /\ answer' = answer /\ todo' = todo /\ Working(o)
  BY DEF Fill, dbVars, procVars
<1>2. PICK n \in Nat \ {0} :
        /\ kis[o] \in KisRow /\ orders[o] \in OrderRow
        /\ n <= orders[o].qty - kis[o].filled
        /\ EditsKis(o, kis[o].filled + n, kis[o].state)
        /\ orders[o].side = "sell" => n <= account[orders[o].symbol]
        /\ account' = [account EXCEPT ![orders[o].symbol] =
                         IF orders[o].side = "buy" THEN @ + n ELSE @ - n]
  BY FillEdits
<1>3. /\ Traded(o)' = Traded(o) + n /\ Traded(o) \in Nat
      /\ \A p \in OrderIds \ {o} : Traded(p)' = Traded(p)
  BY <1>1, <1>2, NoneAssumption DEF EditsKis, Traded, Working, KisRow
<1>4. /\ \A p \in OrderIds : Exists(p) => SameOrder(p)
      /\ \A p \in OrderIds : Unresolved(p)' <=> Unresolved(p)
      /\ \A p \in OrderIds : Open(p)' <=> Open(p)
  BY <1>1 DEF SameOrder, Open, Awaited, Counts, Unresolved, Exists
<1>5. Open(o)
  BY <1>1 DEF IInv, NoWorkingOrderWrittenOff, Open
<1>6. /\ s \in Symbols /\ account[s] \in Nat
      /\ account'[s] = IF orders[o].side = "buy" THEN account[s] + n ELSE account[s] - n
      /\ \A u \in Symbols \ {s} : account'[u] = account[u]
      /\ positions[s] # None => positions[s].qty \in Nat
  BY <1>2, LedgerTypes DEF IInv, TypeOK, OrderRow
<1> HIDE DEF s
<1>7. Accounted(o)'
  <2>1. Accounted(o)
    BY <1>5 DEF LedgerParts, OpenAreAccounted
  <2>2. orders[o].qty \in Nat
    BY <1>2 DEF OrderRow
  <2>3. CASE orders[o].side = "buy"
    BY <1>1, <1>3, <1>6, <2>1, <2>3 DEF Accounted, s
  <2>4. CASE orders[o].side # "buy"
    BY <1>1, <1>3, <1>6, <2>1, <2>2, <2>4 DEF Accounted, s
  <2> QED
    BY <2>3, <2>4
<1>8. ASSUME NEW p \in OrderIds \ {o}, Open(p)'
      PROVE  Accounted(p)'
  <2>1. Open(p) /\ orders[p].symbol \in Symbols
    BY <1>4, <1>8, LedgerTypes
  <2>2. orders[p].symbol # s
    BY <1>5, <2>1 DEF LedgerParts, OneIsOpen, s
  <2>3. Accounted(p)
    BY <2>1 DEF LedgerParts, OpenAreAccounted
  <2> QED
    BY <1>1, <1>3, <1>6, <2>1, <2>2, <2>3 DEF Accounted
<1>9. OpenAreAccounted'
  BY <1>7, <1>8 DEF OpenAreAccounted
<1>10. OthersAgree'
  <2> SUFFICES ASSUME NEW u \in Symbols,
                      \A p \in OrderIds : Open(p)' => orders'[p].symbol # u
               PROVE  Agreed(u)'
    BY DEF OthersAgree
  <2>1. u # s /\ Agreed(u)
    BY <1>1, <1>4, <1>5 DEF LedgerParts, OthersAgree, s
  <2> QED
    BY <1>1, <1>6, <2>1 DEF Agreed
<1>11. OneIsOpen'
  BY <1>1, <1>4 DEF LedgerParts, OneIsOpen
<1>12. OneResultEach' /\ ResultsAreTrue' /\ AnswerIsTrue'
  BY <1>1, <1>3, <1>4, ResultsStay
<1> QED
  BY <1>9, <1>10, <1>11, <1>12 DEF Core

LEMMA QuietRecordNothing ==
  ASSUME IInv, IInv', LedgerParts, [Next]_vars, NEW r \in results, RecordNothing(r)
  PROVE  Core'
<1>1. /\ orders' = orders /\ positions' = positions /\ kis' = kis /\ account' = account
      /\ results' = results \ {r} /\ ~Counts(r) /\ answer' = answer /\ todo' = todo
  BY DEF RecordNothing, dbVars, kisVars
<1>2. \A o \in OrderIds : Open(o)' <=> Open(o)
  <2>1. \A o \in OrderIds : Awaited(o)' <=> Awaited(o)
    BY <1>1 DEF Awaited, Counts
  <2>2. \A o \in OrderIds : Unresolved(o)' <=> Unresolved(o)
    BY <1>1 DEF Unresolved, Exists
  <2> QED
    BY <2>1, <2>2 DEF Open
<1>3. OpenAreAccounted' /\ OthersAgree' /\ OneIsOpen'
  <2>1. /\ \A o \in OrderIds : Exists(o) => SameOrder(o)
        /\ \A o \in OrderIds : Traded(o)' = Traded(o)
    BY <1>1 DEF SameOrder, Exists, Traded
  <2> QED
    BY <1>1, <1>2, <2>1, ViewsStay
<1>4. OneResultEach'
  BY <1>1 DEF LedgerParts, OneResultEach
<1>5. ResultsAreTrue' /\ AnswerIsTrue'
  BY <1>1 DEF LedgerParts, ResultsAreTrue, AnswerIsTrue, Counts, Traded, Unresolved, Exists
<1> QED
  BY <1>3, <1>4, <1>5 DEF Core

\* What the recording of r leaves of its order is accounted for, and if nothing is
\* left the position and the account agree.
LEMMA RecordedIsAccounted ==
  ASSUME IInv, LedgerParts, NEW r \in results, RecordBuy(r) \/ RecordSell(r),
         NEW o \in OrderIds, NEW s \in Symbols, o = r.order, s = ResultOrder(r).symbol
  PROVE  Accounted(o)' /\ (~Unresolved(o) => Agreed(s)')
<1>1. /\ Counts(r) /\ pc = "record" /\ orders' = orders /\ kis' = kis /\ account' = account
  BY DEF RecordBuy, RecordSell, kisVars
<1>2. /\ r.filled > 0 /\ r.filled \in Nat /\ r.filled <= Traded(o) /\ Traded(o) \in Nat
      /\ ~Unresolved(o) => r.filled >= orders[o].qty
      /\ orders[o].qty \in Nat \ {0} /\ orders[o].symbol = s
      /\ orders[o].side \in {"buy", "sell"}
  BY <1>1, LedgerTypes DEF LedgerParts, ResultsAreTrue, Counts, ResultOrder
<1>3. Accounted(o)
  BY <1>1 DEF LedgerParts, OpenAreAccounted, Open, Awaited
<1>4. remaining[s] = IF positions[s] = None THEN None ELSE positions[s].qty
  BY <1>1 DEF LedgerParts, JudgesByTheTable
<1>5. /\ account[s] \in Nat /\ positions \in [Symbols -> PositionRow \cup {None}]
      /\ positions[s] # None => positions[s].qty \in Nat \ {0}
  BY LedgerTypes DEF IInv, TypeOK
<1>6. Traded(o)' = Traded(o)
  BY <1>1 DEF Traded
<1>7. CASE RecordBuy(r)
  <2>1. orders[o].side = "buy"
    BY <1>7 DEF RecordBuy, ResultOrder
  <2> DEFINE row == [qty |-> r.filled, entry |-> r.order]
  <2>2. row # None
    <3>1. row \in PositionRow
      BY <1>2, LedgerTypes DEF PositionRow
    <3> QED
      BY <3>1, NoneAssumption
  <2>3. positions'[s] = IF positions[s] = None THEN row ELSE positions[s]
    <3>1. Opens(r) <=> positions[s] = None
      BY <1>4, <1>5, <2>1, NoneAssumption DEF Opens, ResultOrder
    <3> QED
      BY <1>5, <1>7, <3>1 DEF RecordBuy
  <2>4. row.qty = r.filled
    OBVIOUS
  <2> HIDE DEF row
  <2>5. positions'[s] # None /\ positions'[s].qty <= account[s]
    BY <1>2, <1>3, <1>5, <2>1, <2>2, <2>3, <2>4 DEF Accounted
  <2> QED
    BY <1>1, <1>2, <1>3, <1>6, <2>1, <2>5 DEF Accounted, Agreed
<1>8. CASE RecordSell(r)
  <2>1. orders[o].side = "sell"
    BY <1>8 DEF RecordSell, ResultOrder
  <2>2. positions'[s] = None \/ positions'[s] = positions[s]
    BY <1>5, <1>8 DEF RecordSell
  <2>3. Accounted(o)'
    BY <1>1, <1>2, <1>3, <1>6, <2>1, <2>2 DEF Accounted
  <2>4. ASSUME ~Unresolved(o) PROVE Agreed(s)'
    <3>1. Closes(r)
      <4>1. CASE positions[s] = None
        BY <1>2, <1>4, <2>1, <4>1 DEF Closes, Running, ResultOrder
      <4>2. CASE positions[s] # None
        <5>1. positions[s].qty <= orders[o].qty
          BY <1>2, <1>3, <2>1, <4>2 DEF Accounted
        <5> QED
          BY <1>2, <1>4, <1>5, <2>1, <2>4, <4>2, <5>1, NoneAssumption
             DEF Closes, Running, ResultOrder
      <4> QED
        BY <4>1, <4>2
    <3>2. positions'[s] = None
      BY <1>5, <1>8, <3>1 DEF RecordSell
    <3>3. account[s] = 0
      BY <1>2, <1>3, <1>5, <2>1, <2>4 DEF Accounted
    <3> QED
      BY <1>1, <3>2, <3>3 DEF Agreed
  <2> QED
    BY <2>3, <2>4
<1> QED
  BY <1>7, <1>8

LEMMA QuietRecord ==
  ASSUME IInv, IInv', LedgerParts, [Next]_vars, NEW r \in results,
         RecordBuy(r) \/ RecordSell(r)
  PROVE  Core'
<1> PICK o \in OrderIds, s \in Symbols : o = r.order /\ s = ResultOrder(r).symbol
  BY LedgerTypes DEF ResultOrder
<1>1. /\ Counts(r) /\ orders' = orders /\ kis' = kis /\ account' = account
      /\ results' = results \ {r} /\ answer' = answer /\ todo' = todo
      /\ \A u \in Symbols \ {s} : positions'[u] = positions[u]
  BY DEF RecordBuy, RecordSell, kisVars, IInv, TypeOK
<1>2. Open(o) /\ orders[o].symbol = s
  BY <1>1 DEF Open, Awaited, ResultOrder
<1>3. \A p \in OrderIds : /\ Unresolved(p)' <=> Unresolved(p)
                          /\ Traded(p)' = Traded(p)
  BY <1>1 DEF Unresolved, Exists, Traded
<1>4. \A p \in OrderIds \ {o} : Open(p)' <=> Open(p)
  <2>1. \A p \in OrderIds \ {o} : Awaited(p)' <=> Awaited(p)
    BY <1>1 DEF Awaited, Counts
  <2> QED
    BY <1>3, <2>1 DEF Open
<1>5. Open(o)' <=> Unresolved(o)
  <2>1. ~Awaited(o)'
    BY <1>1 DEF Awaited, LedgerParts, OneResultEach
  <2> QED
    BY <1>3, <2>1 DEF Open
<1>6. Accounted(o)' /\ (~Unresolved(o) => Agreed(s)')
  BY RecordedIsAccounted
<1>7. ASSUME NEW p \in OrderIds \ {o}, Open(p)'
      PROVE  Accounted(p)' /\ orders[p].symbol # s
  <2>1. Open(p) /\ orders[p].symbol \in Symbols
    BY <1>4, <1>7, LedgerTypes
  <2>2. orders[p].symbol # s
    BY <1>2, <2>1 DEF LedgerParts, OneIsOpen
  <2>3. Accounted(p)
    BY <2>1 DEF LedgerParts, OpenAreAccounted
  <2> QED
    BY <1>1, <1>3, <2>1, <2>2, <2>3 DEF Accounted
<1>8. OpenAreAccounted'
  BY <1>6, <1>7 DEF OpenAreAccounted
<1>9. ASSUME NEW u \in Symbols, \A p \in OrderIds : Open(p)' => orders'[p].symbol # u
      PROVE  Agreed(u)'
  <2>1. CASE u = s
    BY <1>1, <1>2, <1>5, <1>6, <1>9, <2>1
  <2>2. CASE u # s
    <3>1. Agreed(u)
      BY <1>1, <1>2, <1>4, <1>9, <2>2 DEF LedgerParts, OthersAgree
    <3> QED
      BY <1>1, <2>2, <3>1 DEF Agreed
  <2> QED
    BY <2>1, <2>2
<1>10. OthersAgree'
  BY <1>9 DEF OthersAgree
<1>11. OneIsOpen'
  BY <1>1, <1>2, <1>4 DEF LedgerParts, OneIsOpen
<1>12. OneResultEach'
  BY <1>1 DEF LedgerParts, OneResultEach
<1>13. ResultsAreTrue' /\ AnswerIsTrue'
  BY <1>1 DEF LedgerParts, ResultsAreTrue, AnswerIsTrue, Counts, Traded, Unresolved, Exists
<1> QED
  BY <1>8, <1>10, <1>11, <1>12, <1>13 DEF Core

LEMMA LedgerInvStep == IInv /\ LedgerInv /\ [Next]_vars => LedgerInv'
<1> SUFFICES ASSUME IInv, LedgerInv, [Next]_vars, Quiet'
             PROVE  LedgerParts'
  BY DEF LedgerInv
<1>1. Quiet /\ LedgerParts /\ IInv'
  BY QuietBefore, StepIInv DEF LedgerInv
<1>2. SalesAreWhole' /\ JudgesByTheTable'
  BY <1>1, SalesStep, JudgesByTheTableStep
<1>3. Core'
  <2>1. CASE \/ Restart \/ OperatorRestart \/ TelegramCommand \/ BeginReconcile \/ ReadHeld
             \/ CompareBalance \/ Decide \/ TransportError \/ EndCycle \/ Refuse
             \/ UNCHANGED vars
    BY <1>1, <2>1, IdleStepIsQuiet
  <2>2. CASE WriteSubmitted \/ Accept
    BY <1>1, <2>2, ExchangeStepIsQuiet
  <2>3. ASSUME NEW o \in OrderIds, Withdraw(o, "cancelled") \/ Withdraw(o, "rejected")
        PROVE  Core'
    BY <1>1, <2>3, ExchangeStepIsQuiet
  <2>4. CASE Resolve
    BY <1>1, <2>4, QuietQueryWithoutRow, QuietQueryOrder DEF Resolve
  <2>5. CASE WriteStatus \/ WriteRejected
    BY <1>1, <2>5, QuietWriteStatus, QuietWriteRejected
  <2>6. CASE Record
    BY <1>1, <2>6, QuietRecordNothing, QuietRecord DEF Record
  <2>7. CASE Submit
    BY <1>1, <2>7, QuietInsert DEF Submit
  <2>8. ASSUME NEW o \in OrderIds, Fill(o) PROVE Core'
    BY <1>1, <2>8, QuietFill
  <2>9. ~Crash /\ \A s \in Symbols, n \in 0..MaxQty : ~ManualTrade(s, n)
    BY QuietSteps
  <2> QED
    BY <2>1, <2>2, <2>3, <2>4, <2>5, <2>6, <2>7, <2>8, <2>9 DEF Next, Process, Exchange
<1> QED
  BY <1>2, <1>3 DEF Core, LedgerParts

\* Without a fault between them, table positions and the account name the same
\* symbols whenever the reconciliation is not at work, except for symbols with an
\* open order (engine/fills.py).
THEOREM QuietLedgersAgree == Spec => []QuietLedgerAgrees
<1>1. Init => LedgerInv
  BY InitLedgerInv
<1>2. IInv /\ LedgerInv /\ [Next]_vars => LedgerInv'
  BY LedgerInvStep
<1>3. IInv /\ LedgerInv => QuietLedgerAgrees
  <2> SUFFICES ASSUME IInv, LedgerInv, pc \notin {"resolve", "record"}, Quiet,
                      NEW s \in Mismatches(account)
               PROVE  s \in PendingSymbols
    BY DEF QuietLedgerAgrees, Quiet
  <2>1. LedgerParts /\ results = {} /\ s \in Symbols
    BY DEF LedgerInv, IInv, LocalsInPlace, Mismatches
  <2>2. ~Agreed(s)
    BY <2>1, LedgerTypes DEF Agreed, Mismatches
  <2>3. PICK o \in OrderIds : Open(o) /\ orders[o].symbol = s
    BY <2>1, <2>2 DEF LedgerParts, OthersAgree
  <2> QED
    BY <2>1, <2>3 DEF Open, Awaited, PendingSymbols
<1> QED
  BY <1>1, <1>2, <1>3, InvariantHolds, PTL DEF Spec

=============================================================================
