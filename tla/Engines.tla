------------------------------ MODULE Engines ------------------------------
(***************************************************************************)
(* The three engines behind a decision, as functions of their inputs:      *)
(* app/risk_engine.py, app/policy_engine.py, app/workflow_engine.py.       *)
(*                                                                         *)
(* A request is [type, device, ip, country, amount, new_owner]; a log is a *)
(* request that was decided, with its id, `at` (created_at) and `allowed`. *)
(* Times are whole units; HourLength of them make an hour.  What the code  *)
(* counts against a literal is counted against a constant, so that a small *)
(* instance reaches it.                                                    *)
(***************************************************************************)
EXTENDS Integers, FiniteSets, FiniteSetsExt, Sequences

CONSTANTS
    HourLength,     \* units of time in an hour
    FailureWindow,  \* 15 minutes
    FailureBurst,   \* 3: denials that make a burst
    RecentLogs,     \* 5: logs looked at for the device and the address
    CountryLogs,    \* 10: logs looked at for the country
    TransferBurst,  \* 2: transfers that make a velocity
    DenyScore       \* 70

NULL == -1          \* an optional column or field that is not set

ASSUME EnginesAssumption ==
    /\ HourLength \in Nat \ {0}
    /\ {FailureWindow, FailureBurst, RecentLogs, CountryLogs, TransferBurst}
         \subseteq Nat
    /\ DenyScore \in Nat

HourOf(time) == (time \div HourLength) % 24

-----------------------------------------------------------------------------
(* risk_engine.py                                                          *)

Score ==
    [failure_burst |-> 35, new_device |-> 15, new_ip |-> 10,
     geo_change |-> 15, transfer_velocity |-> 30, sensitive_action |-> 10]

(* The order of created_at, id.                                            *)
Later(k, l) == k.at > l.at \/ (k.at = l.at /\ k.id > l.id)

Latest(logs, n) ==
    {l \in logs : Cardinality({k \in logs : Later(k, l)}) < n}

Within(logs, time, window) == {l \in logs : time - l.at <= window}

Signals(request, logs, time) ==
    LET failures == {l \in Within(logs, time, FailureWindow) : ~l.allowed}
        transfers == {l \in Within(logs, time, HourLength) :
                        l.type = "ownership_transfer"}
        recent == Latest(logs, RecentLogs)
        countries == {l.country : l \in Latest(logs, CountryLogs)}
        sensitive == request.type = "ownership_transfer"
        fast == Cardinality(transfers) >= TransferBurst
    IN {s \in DOMAIN Score :
          CASE s = "failure_burst" -> Cardinality(failures) >= FailureBurst
            [] s = "new_device" ->
                 recent # {} /\ \A l \in recent : l.device # request.device
            [] s = "new_ip" ->
                 recent # {} /\ \A l \in recent : l.ip # request.ip
            [] s = "geo_change" ->
                 countries # {} /\ request.country \notin countries
            [] s = "transfer_velocity" -> sensitive /\ fast
            [] s = "sensitive_action" -> sensitive /\ ~fast}

(* What follows from the signals.                                          *)
FromSignals(signals) ==
    LET score == MapThenSumSet(LAMBDA s : Score[s], signals)
    IN [allow |-> score < DenyScore, score |-> score, signals |-> signals,
        trust |-> Max({0, 100 - score})]

RiskDecision(request, logs, time) == FromSignals(Signals(request, logs, time))

-----------------------------------------------------------------------------
(* policy_engine.py.  A list that is empty admits everything.              *)

Policy ==
    [id : Nat, version : Nat, name : Nat, priority : Int,
     effect : {"allow", "deny"}, request_types : SUBSET STRING,
     devices : SUBSET STRING, countries : SUBSET STRING,
     max_risk_score : Int, min_trust_score : Int, max_amount : Int,
     start_hour : 0..23 \cup {NULL}, end_hour : 0..23 \cup {NULL},
     valid_from : Int, expires_at : Int]

Admits(list, value) == list = {} \/ value \in list

(* Defect: a window past midnight is not thought of.                       *)
InHoursOfDay(start, end, hour) ==
    /\ start # NULL => hour >= start
    /\ end # NULL => hour < end

(* allowed_start_hour and allowed_end_hour; equal, they admit any hour.    *)
InHours(start, end, hour) ==
    IF start # NULL /\ end # NULL
    THEN \/ start < end /\ hour >= start /\ hour < end
         \/ start > end /\ (hour >= start \/ hour < end)
         \/ start = end
    ELSE (start # NULL => hour >= start) /\ (end # NULL => hour < end)

Matches(p, request, risk, hour) ==
    /\ Admits(p.request_types, request.type)
    /\ Admits(p.devices, request.device)
    /\ Admits(p.countries, request.country)
    /\ p.max_risk_score # NULL => risk.score <= p.max_risk_score
    /\ p.min_trust_score # NULL => risk.trust >= p.min_trust_score
    /\ p.max_amount # NULL =>
         request.amount # NULL /\ request.amount <= p.max_amount
    /\ p.start_hour # NULL \/ p.end_hour # NULL =>
         hour # NULL /\ InHours(p.start_hour, p.end_hour, hour)

InForce(p, time) ==
    /\ p.valid_from # NULL => time >= p.valid_from
    /\ p.expires_at # NULL => time <= p.expires_at

(* The key that the policies are sorted by, up to the unique name.         *)
Rank(p) == <<p.priority, IF p.effect = "deny" THEN 0 ELSE 1, p.name>>

(* Defect: the order is by priority and name.                              *)
PrecedesByName(p, q) ==
    \/ p.priority < q.priority
    \/ p.priority = q.priority /\ p.name < q.name

Precedes(p, q) ==
    LET a == Rank(p) b == Rank(q)
    IN \E i \in 1..3 : a[i] < b[i] /\ \A j \in 1..(i - 1) : a[j] = b[j]

Candidates(policies, request, risk, time) ==
    {p \in policies : /\ InForce(p, time)
                      /\ Matches(p, request, risk, HourOf(time))}

(* PolicyEngine.evaluate: the policy that decides, alone in a set, or none.*)
Deciding(policies, request, risk, time) ==
    LET C == Candidates(policies, request, risk, time)
    IN {p \in C : \A q \in C \ {p} : Precedes(p, q)}

-----------------------------------------------------------------------------
(* workflow_engine.py                                                      *)

ResolveAllowed(risk, deciding) ==
    risk.allow /\ \A p \in deciding : p.effect # "deny"

DecisionSource(risk, deciding) ==
    IF risk.allow /\ deciding # {} THEN "policy" ELSE "risk"

DecisionPath(config, matched, allowed) ==
    LET riskStep == IF config.include_risk_step
                    THEN <<"risk_evaluated">> ELSE <<>>
        policyStep == IF ~config.include_policy_step THEN <<>>
                      ELSE <<"policy_checked",
                             IF matched THEN "policy_matched"
                                        ELSE "no_policy_match">>
        steps == IF config.execution_mode = "policy_first"
                 THEN policyStep \o riskStep ELSE riskStep \o policyStep
    IN Append(steps, IF allowed THEN "final_allow" ELSE "final_deny")
=============================================================================
