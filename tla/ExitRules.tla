----------------------------- MODULE ExitRules -----------------------------
(***************************************************************************)
(* When a held position has to be sold (core/exit_rules.py): the stop in   *)
(* three stages with its ratchet, the limits of the holding time and the   *)
(* end of the session.  A position is a record with qty, cost (what its    *)
(* shares were bought for, so that cost / qty is the average price),       *)
(* entered (a day) and rule.  Percentages are integers.  To stay within    *)
(* the integers every level of a position is multiplied by Unit(p).        *)
(***************************************************************************)
EXTENDS Integers, Sequences, FiniteSets, SequencesExt

CONSTANT None   \* no value

Bar == [day : Nat, high : Nat, low : Nat, close : Nat]

\* ExitRule with the checks it makes of itself: the percentages stopLoss and
\* trigger, the ATR window and its factor, the limits in days and in bars, the
\* distance to the end of the session, and the price a stop is judged by.
ExitRule ==
  [stopLoss : 1..99, trigger : Nat \ {0}, period : Nat \ {0}, k : Nat \ {0},
   maxDays : Nat \ {0}, maxBars : (Nat \ {0}) \cup {None}, eodBars : Nat \cup {None},
   basis : {"close", "low"}]

-----------------------------------------------------------------------------
(* Average true range. *)

Abs(n) == IF n < 0 THEN -n ELSE n

TrueRange(bars, i) ==
  LET bar == bars[i]
      previous == bars[i - 1].close
  IN Max({bar.high - bar.low, Abs(bar.high - previous), Abs(bar.low - previous)})

\* The ATR at bar i times its period; None while the window is not full.  The
\* first bar of the series has no true range.
AtrSum(bars, i, period) ==
  IF i < period + 1 THEN None
  ELSE MapThenSumSet(LAMBDA j : TrueRange(bars, j), (i - period + 1)..i)

-----------------------------------------------------------------------------
(* The stop. *)

Unit(p) == p.qty * 100 * p.rule.period

LossLevel(p) == p.cost * (100 - p.rule.stopLoss) * p.rule.period

\* The stop at one bar, given the high water times qty and the ATR sum.
StopLevel(p, highWater, atrSum) ==
  LET entry == p.cost * 100 * p.rule.period
  IN CASE highWater * 100 < p.cost * (100 + p.rule.trigger) -> LossLevel(p)
       [] highWater * 100 >= p.cost * (100 + p.rule.trigger) /\ atrSum = None -> entry
       [] OTHER -> Max({entry, highWater * 100 * p.rule.period
                                 - p.rule.k * atrSum * p.qty * 100})

\* The bars of the holding time.  A daily bar is stamped with midnight, so the
\* bar of the day of entry lies before the entry.
Since(p, bars) == {i \in DOMAIN bars : bars[i].day > p.entered}

HighWater(p, bars, i) ==
  Max({p.cost} \cup {bars[j].close * p.qty : j \in {k \in Since(p, bars) : k <= i}})

\* Faulty variant: the stop of the last bar only, as if max() alone kept it up.
RatchetLastBar(p, bars) ==
  LET since == Since(p, bars)
  IN IF since = {} THEN LossLevel(p)
     ELSE StopLevel(p, HighWater(p, bars, Max(since)),
                    AtrSum(bars, Max(since), p.rule.period))

\* The highest stop of any bar since entry.
Ratchet(p, bars) ==
  Max({LossLevel(p)}
        \cup {StopLevel(p, HighWater(p, bars, i), AtrSum(bars, i, p.rule.period)) :
                i \in Since(p, bars)})

-----------------------------------------------------------------------------
(* The verdict. *)

StopPrice(bar, basis) == IF basis = "low" THEN bar.low ELSE bar.close

Stopped(p, bars) ==
  LET since == Since(p, bars)
  IN /\ since # {}
     /\ StopPrice(bars[Max(since)], p.rule.basis) * Unit(p) <= Ratchet(p, bars)

BarsHeld(p, bars) == Cardinality(Since(p, bars))

HeldTooLong(p, bars, day) ==
  \/ day - p.entered >= p.rule.maxDays
  \/ p.rule.maxBars # None /\ BarsHeld(p, bars) >= p.rule.maxBars

SessionEnds(p, barsLeft) ==
  p.rule.eodBars # None /\ barsLeft # None /\ barsLeft <= p.rule.eodBars

\* Why the position is to be sold, or None.
Evaluate(p, bars, day, barsLeft) ==
  CASE Stopped(p, bars) -> "stop"
    [] ~Stopped(p, bars) /\ HeldTooLong(p, bars, day) -> "max_hold"
    [] ~Stopped(p, bars) /\ ~HeldTooLong(p, bars, day) /\ SessionEnds(p, barsLeft) -> "eod"
    [] OTHER -> None
=============================================================================
