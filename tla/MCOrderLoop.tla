----------------------------- MODULE MCOrderLoop -----------------------------
(* Instances of OrderLoop for TLC: dollar amounts on both sides of the      *)
(* ceilings and of the minimum order.                                       *)
EXTENDS OrderLoop

WideNotionals == {-9, 0, 7}
SmallHoldings == {-6, 0}
HandHoldings == {-6, 0, 3}
===============================================================================
