----------------------------- MODULE AlertChecker -----------------------------
(***************************************************************************)
(* The alert checker: every interval one tick over the alert rules, first  *)
(* those on prices, then the risk rules that have not been evaluated for a *)
(* day, then those on macro series.  A rule whose threshold is crossed is  *)
(* mailed and recorded, and then silent for its cooldown.                  *)
(*                                                                         *)
(* A fire is one session: event and last_fired_at are flushed, the mail is *)
(* sent, the session commits.  What raises ends the tick, and the next one *)
(* starts over with the prices.  Times are ages, counted up to where       *)
(* nothing more depends on them.  is_active is never changed by any code.  *)
(***************************************************************************)
EXTENDS Naturals

CONSTANTS Price, Risk, Macro,   \* the rules of each rule_type
          Cooldown,             \* FIRE_COOLDOWN
          StaleAfter,           \* RISK_METRIC_STALE_AFTER
          MaxFaults             \* bound on everything that fails

ASSUME AlertAssumption ==
  /\ Price \cap Risk = {} /\ Price \cap Macro = {} /\ Risk \cap Macro = {}
  /\ Cooldown \in Nat \ {0} /\ StaleAfter \in Nat \ {0} /\ MaxFaults \in Nat

VARIABLES rules,        \* the alert_rules rows
          crossed,      \* rules whose threshold is crossed right now
          firedAge,     \* time since last_fired_at; Cooldown when long ago or never
          checkedAge,   \* time since last_checked_at of a risk rule, likewise
          phase,        \* where the tick is
          pending,      \* the rules it has loaded and not looked at yet
          observed,     \* those whose value it has seen cross
          faults,
          mailedAge,    \* history: time since the last mail
          unrecorded,   \* history: rules whose last mail was not committed
          early         \* history: rules mailed again before the cooldown was over

table == <<rules, firedAge, checkedAge>>
tick == <<phase, pending, observed>>
mails == <<mailedAge, unrecorded, early>>
alertVars == <<table, crossed, tick, faults, mails>>

AllRules == Price \cup Risk \cup Macro

OfPhase == [idle |-> {}, price |-> Price, risk |-> Risk, macro |-> Macro]

\* A tick works on rules of one kind at a time.
AlertTypeOK ==
  /\ rules \subseteq AllRules /\ crossed \subseteq AllRules
  /\ firedAge \in [AllRules -> 0 .. Cooldown]
  /\ checkedAge \in [Risk -> 0 .. StaleAfter]
  /\ phase \in DOMAIN OfPhase
  /\ observed \subseteq pending /\ pending \subseteq OfPhase[phase]
  /\ faults \in 0 .. MaxFaults
  /\ mailedAge \in [AllRules -> 0 .. Cooldown]
  /\ unrecorded \subseteq AllRules /\ early \subseteq AllRules

AlertInit ==
  /\ rules = {} /\ crossed = {}
  /\ firedAge = [r \in AllRules |-> Cooldown]
  /\ checkedAge = [r \in Risk |-> StaleAfter]
  /\ phase = "idle" /\ pending = {} /\ observed = {} /\ faults = 0
  /\ mailedAge = [r \in AllRules |-> Cooldown]
  /\ unrecorded = {} /\ early = {}

-------------------------------------------------------------------------------
(* Users, the markets and the clock.                                       *)

\* A new rule has never fired nor been checked; its id is a new one.
Create(r) ==
  /\ r \notin rules \cup pending
  /\ rules' = rules \cup {r}
  /\ firedAge' = [firedAge EXCEPT ![r] = Cooldown]
  /\ checkedAge' = [s \in Risk |-> IF s = r THEN StaleAfter ELSE checkedAge[s]]
  /\ mailedAge' = [mailedAge EXCEPT ![r] = Cooldown]
  /\ unrecorded' = unrecorded \ {r}
  /\ UNCHANGED <<crossed, tick, faults, early>>

Delete(r) ==
  /\ r \in rules
  /\ rules' = rules \ {r}
  /\ UNCHANGED <<crossed, firedAge, checkedAge, tick, faults, mails>>

Cross(r) ==
  /\ crossed' = IF r \in crossed THEN crossed \ {r} ELSE crossed \cup {r}
  /\ UNCHANGED <<table, tick, faults, mails>>

Older(age, limit) == IF age < limit THEN age + 1 ELSE age

TimePasses ==
  /\ firedAge' = [r \in AllRules |-> Older(firedAge[r], Cooldown)]
  /\ checkedAge' = [r \in Risk |-> Older(checkedAge[r], StaleAfter)]
  /\ mailedAge' = [r \in AllRules |-> Older(mailedAge[r], Cooldown)]
  /\ UNCHANGED <<rules, crossed, tick, faults, unrecorded, early>>

-------------------------------------------------------------------------------
(* A tick.                                                                 *)

\* _in_cooldown, on the last_fired_at the tick has loaded
InCooldown(r) == firedAge[r] < Cooldown

\* _load_stale_risk_rule_ids
StaleRules == {r \in rules \cap Risk : checkedAge[r] = StaleAfter}

\* The tick goes on to the rules of the next kind.
Enter(p, loaded, seen) == phase' = p /\ pending' = loaded /\ observed' = seen

Abort == Enter("idle", {}, {})

\* _load_active_price_rules, and a quote for each distinct ticker
LoadPrices ==
  /\ phase = "idle"
  /\ Enter("price", rules \cap Price, rules \cap Price \cap crossed)
  /\ UNCHANGED <<table, crossed, faults, mails>>

\* Mutation: without a stale risk rule the tick returns early.
LoadRiskOrReturn ==
  /\ phase = "price" /\ pending = {}
  /\ IF StaleRules = {} THEN Abort ELSE Enter("risk", StaleRules, {})
  /\ UNCHANGED <<table, crossed, faults, mails>>

LoadRisk ==
  /\ phase = "price" /\ pending = {}
  /\ Enter("risk", StaleRules, {})
  /\ UNCHANGED <<table, crossed, faults, mails>>

LoadMacro ==
  /\ phase = "risk" /\ pending = {}
  /\ Enter("macro", rules \cap Macro, rules \cap Macro \cap crossed)
  /\ UNCHANGED <<table, crossed, faults, mails>>

TickEnds ==
  /\ phase = "macro" /\ pending = {}
  /\ Abort
  /\ UNCHANGED <<table, crossed, faults, mails>>

NextRule(r) == pending' = pending \ {r} /\ observed' = observed \ {r} /\ UNCHANGED phase

Mail(r) ==
  /\ mailedAge' = [mailedAge EXCEPT ![r] = 0]
  /\ early' = IF mailedAge[r] < Cooldown /\ r \notin unrecorded THEN early \cup {r} ELSE early

\* Is the rule due for a mail?  A risk rule is compared with the value
\* computed for it, another with the one observed when the rules were loaded.
Due(r) ==
  /\ r \in rules /\ ~InCooldown(r)
  /\ r \in observed \/ r \in Risk \cap crossed

\* Mutation: the mail goes out without the start of a cooldown.
FireUntimed(r) ==
  /\ Due(r)
  /\ Mail(r)
  /\ unrecorded' = unrecorded \ {r}
  /\ UNCHANGED firedAge

\* _fire_price_rule, _fire_macro_rule and the end of _evaluate_risk_rule
Fire(r) ==
  /\ Due(r)
  /\ Mail(r)
  /\ unrecorded' = unrecorded \ {r}
  /\ firedAge' = [firedAge EXCEPT ![r] = 0]

\* A price or macro rule.
Judge(r) ==
  /\ phase \in {"price", "macro"} /\ r \in pending
  /\ Fire(r) \/ (~Due(r) /\ UNCHANGED <<firedAge, mails>>)
  /\ NextRule(r)
  /\ UNCHANGED <<rules, crossed, checkedAge, faults>>

\* _evaluate_risk_rule; a rule deleted since it was loaded is passed over.
Evaluate(r) ==
  /\ phase = "risk" /\ r \in pending
  /\ Fire(r) \/ (~Due(r) /\ UNCHANGED <<firedAge, mails>>)
  /\ checkedAge' = IF r \in rules THEN [checkedAge EXCEPT ![r] = 0] ELSE checkedAge
  /\ NextRule(r)
  /\ UNCHANGED <<rules, crossed, faults>>

-------------------------------------------------------------------------------
(* What fails.                                                             *)

\* No quote, no value of the series: the rule is passed over.
NoValue(r) ==
  /\ faults < MaxFaults /\ faults' = faults + 1
  /\ r \in observed
  /\ observed' = observed \ {r}
  /\ UNCHANGED <<table, crossed, phase, pending, mails>>

\* The portfolio is gone or empty, its prices are missing or too few: the
\* rule counts as checked.
NotComputable(r) ==
  /\ faults < MaxFaults /\ faults' = faults + 1
  /\ phase = "risk" /\ r \in pending \cap rules
  /\ checkedAge' = [checkedAge EXCEPT ![r] = 0]
  /\ NextRule(r)
  /\ UNCHANGED <<rules, firedAge, crossed, mails>>

\* The commit after the mail fails, or the process dies before it.
MailUnrecorded(r) ==
  /\ faults < MaxFaults /\ faults' = faults + 1
  /\ r \in pending /\ Due(r)
  /\ Mail(r)
  /\ unrecorded' = unrecorded \cup {r}
  /\ Abort
  /\ UNCHANGED <<table, crossed>>

\* Anything else raises, as an evaluation that fails of what it does not
\* catch, or the process dies.
Die ==
  /\ faults < MaxFaults /\ faults' = faults + 1
  /\ phase # "idle"
  /\ Abort
  /\ UNCHANGED <<table, crossed, mails>>

-------------------------------------------------------------------------------
TickStep ==
  \/ LoadPrices \/ LoadRisk \/ LoadMacro \/ TickEnds
  \/ \E r \in AllRules : Judge(r) \/ Evaluate(r)

Fault ==
  \/ Die
  \/ \E r \in AllRules : NoValue(r) \/ MailUnrecorded(r)
  \/ \E r \in Risk : NotComputable(r)

AlertNext ==
  \/ TickStep \/ Fault \/ TimePasses
  \/ \E r \in AllRules : Create(r) \/ Delete(r) \/ Cross(r)

AlertSpec == AlertInit /\ [][AlertNext]_alertVars

\* The loop never stops, nor does the clock.
AlertFairSpec == AlertSpec /\ WF_alertVars(TickStep) /\ WF_alertVars(TimePasses)

-------------------------------------------------------------------------------
(* Properties.                                                             *)

\* Two mails of one rule are a cooldown apart, however the rules change
\* during a tick, unless the first was never recorded.
CooldownHolds == early = {}

\* A rule whose threshold stays crossed is mailed in the end: neither rules
\* of other kinds, nor deletions during a tick, nor faults that come to an
\* end keep it from its turn.
EveryAlertArrives ==
  \A r \in AllRules :
     (r \in rules \cap crossed) ~> (r \notin rules \cap crossed \/ firedAge[r] < Cooldown)
===============================================================================
