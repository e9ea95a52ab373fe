---------------------------- MODULE AuditReplay ----------------------------
(***************************************************************************)
(* Decisions about one access right, taken side by side from what the log  *)
(* holds, and the replay of a logged decision: load_risk_history, the      *)
(* middle of request_access and replay_audit_log in app/main.py, around    *)
(* the three engines of Engines.                                           *)
(*                                                                         *)
(* A request reads the clock and, in two statements, the history; the      *)
(* engines decide; later it takes the row of its tenant by the UPDATE of   *)
(* the quota, stamps its log with created_at and commits, which frees the  *)
(* row.  A log is visible from the commit on.  Authentication, quotas,     *)
(* idempotency and the cache are those of AccessDecision; that the         *)
(* versions of the policy and of the workflow configuration are found      *)
(* again is shown in ConfigHistory, so that a log holds them as they were. *)
(* The clock is the one of a host that all server processes share.         *)
(***************************************************************************)
EXTENDS Engines

CONSTANTS
    Requests,       \* POST /request/access for the right, one each
    Inputs,         \* what a request asks for
    Regimes,        \* [policies, config] that the administrator sets up
    Owner,          \* right.owner_id; a transfer that succeeds is not repeated
    LatestLimit,    \* 10: LIMIT of the second SELECT
    StartTime,      \* the clock at first
    MaxTime         \* bound: the clock

ASSUME AuditAssumption ==
    /\ StartTime \in Nat
    /\ MaxTime \in Nat
    /\ LatestLimit \in Nat
    /\ RecentLogs <= LatestLimit /\ CountryLogs <= LatestLimit
    /\ FailureWindow <= HourLength
    /\ \A g \in Regimes :
         /\ g.policies \subseteq Policy
         /\ IsFiniteSet(g.policies)
         /\ \A p, q \in g.policies : p.name = q.name => p = q

VARIABLES
    now,            \* the clock
    policies,       \* enabled rows of policies
    config,         \* the row of workflow_configs
    logs,           \* committed rows of request_logs
    nextId,         \* the sequence of request_logs.id
    lock,           \* requests that hold the row of the tenant
    step,           \* where each request is
    draft           \* its local variables, later the log it writes

vars == <<now, policies, config, logs, nextId, lock, step, draft>>

-----------------------------------------------------------------------------
Verdict(allowed, risk, deciding, path) ==
    [allowed |-> allowed, risk |-> risk, deciding |-> deciding,
     source |-> DecisionSource(risk, deciding), path |-> path]

(* The denials of a transfer that no engine knows of.                      *)
OwnershipDenied(request) ==
    request.type = "ownership_transfer" /\ request.new_owner \in {"", Owner}

(* request_access from the risk engine to the log.                         *)
Decide(request, history, P, C, time) ==
    LET risk == RiskDecision(request, history, time)
        deciding == Deciding(P, request, risk, time)
        allowed == /\ ResolveAllowed(risk, deciding)
                   /\ ~OwnershipDenied(request)
    IN Verdict(allowed, risk, deciding,
               DecisionPath(C, deciding # {}, allowed))

(* The two SELECTs of load_risk_history: of an hour, and the latest.       *)
RecentByTime(L, reference) == {l \in L : l.at >= reference - HourLength}

LoggedUntil(L, reference) == {l \in L : l.at <= reference}

(* Defect: the replay reads as the decision did.                           *)
LoggedBeforeOrAt(L, reference) == {l \in L : l.at <= reference}

LoggedBefore(L, reference) == {l \in L : l.at < reference}

RiskHistory(L, reference) ==
    LET past == LoggedBefore(L, reference)
    IN RecentByTime(past, reference) \cup Latest(past, LatestLimit)

(* replay_audit_log: the engines again, at created_at, with the policy and *)
(* the configuration that the log refers to and nothing of ownership.      *)
Replay(l, L) ==
    LET risk == RiskDecision(l, RiskHistory(L, l.at), l.at)
        deciding == Deciding(l.verdict.deciding, l, risk, l.at)
        allowed == ResolveAllowed(risk, deciding)
    IN Verdict(allowed, risk, deciding,
               DecisionPath(l.config, deciding # {}, allowed))

-----------------------------------------------------------------------------
Init ==
    /\ now = StartTime
    /\ \E g \in Regimes : policies = g.policies /\ config = g.config
    /\ logs = {}
    /\ nextId = 1
    /\ lock = {}
    /\ step = [r \in Requests |-> "idle"]
    /\ draft = [r \in Requests |-> <<>>]

Goto(r, s) == step' = [step EXCEPT ![r] = s]

(* reference_time and the first SELECT.                                    *)
ReadRecent(r) ==
    /\ step[r] = "idle"
    /\ \E i \in Inputs :
         draft' = [draft EXCEPT ![r] =
                     [request |-> i, at |-> now,
                      recent |-> RecentByTime(LoggedUntil(logs, now), now)]]
    /\ Goto(r, "reading")
    /\ UNCHANGED <<now, policies, config, logs, nextId, lock>>

(* The second SELECT, the policies, the configuration, the engines; the    *)
(* few readings of the clock among them are one.  The log keeps also when  *)
(* that was and what was visible then; its time is reference_time until it *)
(* is stamped.                                                             *)
Evaluate(r) ==
    /\ step[r] = "reading"
    /\ LET q == draft[r].request
           past == LoggedUntil(logs, draft[r].at)
           history == draft[r].recent \cup Latest(past, LatestLimit)
           verdict == Decide(q, history, policies, config, now)
       IN draft' = [draft EXCEPT ![r] =
            [id |-> 0, at |-> draft[r].at, allowed |-> verdict.allowed,
             type |-> q.type, device |-> q.device, ip |-> q.ip,
             country |-> q.country, amount |-> q.amount,
             new_owner |-> q.new_owner, config |-> config,
             verdict |-> verdict, evaluated |-> now,
             policies |-> policies,
             seen |-> {l.id : l \in past}]]
    /\ Goto(r, "decided")
    /\ UNCHANGED <<now, policies, config, logs, nextId, lock>>

Stamped(r) ==
    /\ draft' = [draft EXCEPT ![r].id = nextId, ![r].at = now]
    /\ nextId' = nextId + 1
    /\ lock' = lock \cup {r}

(* Defect: the quota is counted after the log is written.                  *)
StampUnlocked(r) ==
    /\ step[r] = "decided"
    /\ Stamped(r)
    /\ Goto(r, "stamped")
    /\ UNCHANGED <<now, policies, config, logs>>

(* reserve_tenant_quota waits for the row of the tenant and keeps it; then *)
(* the INSERT takes an id and the time.                                    *)
Stamp(r) ==
    /\ step[r] = "decided"
    /\ lock = {}
    /\ Stamped(r)
    /\ Goto(r, "stamped")
    /\ UNCHANGED <<now, policies, config, logs>>

Commit(r) ==
    /\ step[r] = "stamped"
    /\ logs' = logs \cup {draft[r]}
    /\ lock' = lock \ {r}
    /\ draft' = [draft EXCEPT ![r] = <<>>]
    /\ Goto(r, "done")
    /\ UNCHANGED <<now, policies, config, nextId>>

(* The transaction or the process fails, and nothing is logged.  (Before   *)
(* the stamp that is no more than a request that takes no further step.)   *)
Fail(r) ==
    /\ step[r] = "stamped"
    /\ lock' = lock \ {r}
    /\ draft' = [draft EXCEPT ![r] = <<>>]
    /\ Goto(r, "done")
    /\ UNCHANGED <<now, policies, config, logs, nextId>>

(* The administrator changes policies or the workflow configuration.       *)
Administer ==
    /\ \E g \in Regimes :
         /\ g # [policies |-> policies, config |-> config]
         /\ policies' = g.policies /\ config' = g.config
    /\ UNCHANGED <<now, logs, nextId, lock, step, draft>>

Tick ==
    /\ now < MaxTime
    /\ now' = now + 1
    /\ UNCHANGED <<policies, config, logs, nextId, lock, step, draft>>

Next ==
    \/ \E r \in Requests :
         \/ ReadRecent(r) \/ Evaluate(r) \/ Stamp(r) \/ Commit(r) \/ Fail(r)
    \/ Administer
    \/ Tick

Spec == Init /\ [][Next]_vars

-----------------------------------------------------------------------------
(* Once a decision is logged, its replay gives the same answer for ever:   *)
(* no log with an earlier created_at becomes visible later, since only one *)
(* request of a tenant at a time is between its stamp and its commit.      *)
ReplayStable ==
    [][logs' # logs =>
         \A l \in logs : Replay(l, logs') = Replay(l, logs)]_vars

(* No boundary of time lies between the decision and its created_at.       *)
SameTime(l) ==
    LET past == LoggedBefore(logs, l.at)
        same(window) == Within(past, l.at, window)
                          = Within(past, l.evaluated, window)
    IN /\ HourOf(l.at) = HourOf(l.evaluated)
       /\ same(FailureWindow) /\ same(HourLength)
       /\ \A p \in l.verdict.deciding : InForce(p, l.at)

(* The decision saw exactly the logs that come before its own.             *)
SawAll(l) == l.seen = {k.id : k \in {k \in logs : k.at < l.at}}

(* The replay of a decision agrees with it in everything that              *)
(* comparison.all_match looks at, though it evaluates but one policy, and  *)
(* whatever the policies are by then; except for a transfer that was       *)
(* denied for its owner, a decision that another overtook, and one that    *)
(* lies across a boundary of time.                                         *)
ReplayAgrees ==
    \A l \in logs :
      SawAll(l) /\ SameTime(l) /\ ~OwnershipDenied(l)
        => Replay(l, logs) = l.verdict

(* Requests side by side do not see each other.  Yet of the logs before    *)
(* reference_time at most one escapes a decision, as only one request has  *)
(* the row of the tenant between its stamp and its commit.                 *)
Overlooked(r) ==
    {k \in logs : k.at < draft[r].at /\ k.id \notin draft[r].seen}

OneOverlooked ==
    \A r \in Requests : step[r] = "decided" =>
      \A k, m \in Overlooked(r) : k = m

(* The hours from start to end on the clock, past midnight if need be; the *)
(* whole clock if the two are equal; of a day if one end is open.          *)
Arc(start, end) ==
    IF start = NULL \/ end = NULL
    THEN Max({0, start}) .. IF end = NULL THEN 23 ELSE end - 1
    ELSE IF start = end THEN 0..23
    ELSE {(start + k) % 24 : k \in 0..(((end - start) % 24) - 1)}

(* A decision is made by a policy only if it is in force, matches, and its *)
(* hours have come; then by one of the smallest priority number, and by a  *)
(* denying one if any of that priority denies.                             *)
DecidedByRule ==
    \A l \in logs :
      LET anyHour(p) == [p EXCEPT !.start_hour = NULL, !.end_hour = NULL]
          apply == {p \in l.policies :
                      /\ InForce(p, l.evaluated)
                      /\ Matches(anyHour(p), l, l.verdict.risk, NULL)
                      /\ HourOf(l.evaluated) \in Arc(p.start_hour, p.end_hour)}
          first == {p \in apply : \A q \in apply : p.priority <= q.priority}
          deny == {p \in first : p.effect = "deny"}
          deciding == l.verdict.deciding
      IN /\ Cardinality(deciding) = IF apply = {} THEN 0 ELSE 1
         /\ deciding \subseteq IF deny = {} THEN first ELSE deny
=============================================================================
