-------------------------- MODULE MCStrategyBreaker --------------------------
(* Instances of StrategyBreaker for TLC.                                    *)
EXTENDS StrategyBreaker, TLC

BothWays == {-1, 0, 2}
OneWay == {0, 2}

Losses == {-1, 0}

StrategySymmetry == Permutations(Strategies)
===============================================================================
