----------------------------- MODULE OrderDesk -----------------------------
(***************************************************************************)
(* What the order lifecycle promises to its account, whatever the process, *)
(* its database and the network go through: each symbol has at most one    *)
(* order at work at a time, an order is final before the next one of its   *)
(* symbol starts, and a sale never offers more shares than there are.      *)
(* LiveTrading implements this specification.                              *)
(***************************************************************************)
EXTENDS Integers

CONSTANTS Symbols, Idle

VARIABLES
  shares,   \* symbol -> shares in the account
  work      \* symbol -> the order at work, or Idle

Job == [side : {"buy", "sell"}, left : Nat \ {0}]

Init ==
  /\ shares = [s \in Symbols |-> 0]
  /\ work = [s \in Symbols |-> Idle]

\* A new order starts where none is at work.
Place(s) ==
  /\ work[s] = Idle
  /\ work'[s] \in Job
  /\ work'[s].side = "sell" => work'[s].left <= shares[s]
  /\ work' = [work EXCEPT ![s] = work'[s]]
  /\ UNCHANGED shares

\* Some shares of the order trade; the last one finishes it.
Trade(s) ==
  /\ work[s] # Idle
  /\ \E n \in 1..work[s].left :
       /\ shares' = [shares EXCEPT
                       ![s] = IF work[s].side = "buy" THEN @ + n ELSE @ - n]
       /\ work' = [work EXCEPT ![s] = IF n = work[s].left THEN Idle
                                      ELSE [work[s] EXCEPT !.left = work[s].left - n]]

\* The rest of the order is cancelled or rejected.
Drop(s) ==
  /\ work[s] # Idle
  /\ work' = [work EXCEPT ![s] = Idle]
  /\ UNCHANGED shares

Next == \E s \in Symbols : Place(s) \/ Trade(s) \/ Drop(s)

Spec == Init /\ [][Next]_<<shares, work>>
=============================================================================
