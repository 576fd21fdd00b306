------------------------------ MODULE TrackRecord ------------------------------
(***************************************************************************)
(* What a forward-validation registration promises its readers: a record   *)
(* of trading days that starts with a single day, only ever grows at its   *)
(* end and in order, and a status that follows the record.  How days are   *)
(* fetched, who applies them and how often is not its concern.             *)
(*                                                                         *)
(* A write that overtook another (intact becomes FALSE) ends the promise.  *)
(***************************************************************************)
EXTENDS Naturals, Sequences

CONSTANT Threshold       \* min_trading_days_threshold

VARIABLES days,          \* the trading days of the record
          status,        \* "none" when there is no registration
          intact

Active == {"in_progress", "forward_validated"}

\* The status after the record has grown.
Graduated(old, record) ==
  IF old = "in_progress" /\ Len(record) >= Threshold THEN "forward_validated" ELSE old

Init == days = <<>> /\ status \in {"none", "in_progress"} /\ intact = TRUE

Begin == status = "none" /\ status' = "in_progress" /\ days' = <<>>

\* However many days a pass catches up, they extend the record as single days
\* would have done; the first pass counts one day and no history.
Count ==
  /\ status # "none"
  /\ Len(days') > Len(days)
  /\ \A i \in DOMAIN days : days'[i] = days[i]
  /\ \A i, j \in DOMAIN days' : (i < j /\ j > Len(days)) => days'[i] < days'[j]
  /\ days = <<>> => Len(days') = 1
  /\ status' = Graduated(status, days')

Park == status \in Active /\ status' = "underperforming" /\ UNCHANGED days

Withdraw == status # "none" /\ status' = "none" /\ days' = <<>>

Promised == intact' = intact /\ (Begin \/ Count \/ Park \/ Withdraw)

Next == ~intact' \/ Promised

Spec == Init /\ [][Next]_<<days, status, intact>>
===============================================================================
