------------------------------- MODULE MCScreens -------------------------------
(* A small instance: two tickets and two hands in the kitchen; two tabs of one *)
(* branch or one tab of two; a count of two lines.                             *)
EXTENDS Screens, TLC

CONSTANTS o1, o2, h1, h2, w1, w2, b1, b2, latte, cake

Prices == <<(latte :> 5555) @@ (cake :> 11999), (latte :> 6000) @@ (cake :> 11999)>>
Plain == [promo |-> "none", value |-> 0, points |-> 0]
PercentAndPoints == [promo |-> "percent", value |-> 15, points |-> 700]
Fixed == [promo |-> "fixed", value |-> 20, points |-> 0]

TwoShops ==
  {[tabs |-> {w1, w2}, branches |-> {b1}, baskets |-> {latte}, offers |-> {Plain, Fixed}],
   [tabs |-> {w1}, branches |-> {b1, b2}, baskets |-> {latte, cake},
    offers |-> {Plain, PercentAndPoints}]}
===============================================================================
