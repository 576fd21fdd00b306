-------------------------- MODULE MCForwardValidation --------------------------
(* Instances of ForwardValidation for TLC.                                  *)
EXTENDS ForwardValidation, TLC

Fit(z) == [valid |-> TRUE, z |-> z]
NoFit == [valid |-> FALSE, z |-> 0]

\* Enters on day 3, holds on day 4, leaves on day 5 because the fit is lost, and
\* enters the other way on day 6; a skipped day makes other trades of it.
Swing == {[d \in 1 .. LastDay |-> CASE d % 4 = 3 -> Fit(-2) [] d % 4 = 0 -> Fit(-1)
                                     [] d % 4 = 1 -> NoFit [] OTHER -> Fit(2)]}

\* What a torn record does is not asked of the runs that hold unless torn.
Whole == ~torn

PassSymmetry == Permutations(Passes)
===============================================================================
