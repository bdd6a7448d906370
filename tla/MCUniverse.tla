----------------------------- MODULE MCUniverse -----------------------------
(* Small instances of Universe for TLC. *)
EXTENDS Universe

Row(close, volume) == [close |-> close, volume |-> volume, value |-> 4]

MCMarket == <<"KOSPI", "KOSDAQ", "KOSPI">>

\* The third symbol is too young on the first day and not on the second.
MCListingDate == <<1, 1, 2>>

MCFirstBars ==
  <<(1 :> Row(4, 4)) @@ (2 :> Row(4, 4)),
    (1 :> Row(2, 4)) @@ (2 :> Row(4, 2)),
    (1 :> Row(2, 4)) @@ (2 :> Row(2, 4))>>

\* Days on which the order of the scores changes, a symbol is halted, pays
\* little, or has no bar.
MCShapes ==
  {<<Row(4, 4), Row(4, 2), Row(4, 4)>>,
   <<Row(2, 2), Row(8, 4), Row(2, 0)>>,
   <<Row(4, 2), [Row(1, 2) EXCEPT !.value = 1], None>>}
=============================================================================
