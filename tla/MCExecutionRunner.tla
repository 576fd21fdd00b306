-------------------------- MODULE MCExecutionRunner --------------------------
(* Instances of ExecutionRunner for TLC.                                    *)
EXTENDS ExecutionRunner, TLC

LongOnly == {0, 1}
LongShort == {-1, 0, 1}
Flat == {0}
ShortOrFlat == {-1, 0}

TickerSymmetry == Permutations(Tickers)
===============================================================================
