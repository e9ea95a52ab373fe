------------------------- MODULE AuditReplayProofs -------------------------
(***************************************************************************)
(* That the replay of a logged decision never changes its answer, for any  *)
(* number of requests, all inputs, policies, configurations and constants  *)
(* of the engines: it rests on the order in which logs become visible, not *)
(* on what the engines compute.                                            *)
(***************************************************************************)
EXTENDS AuditReplay, TLAPS

Steps == {"idle", "reading", "decided", "stamped", "done"}

(* The log that a request is about to write, before it is stamped.         *)
IsDraft(d) ==
    \E at, allowed, type, device, ip, country, amount, new_owner, conf, verdict,
       evaluated, P, seen :
      d = [id |-> 0, at |-> at, allowed |-> allowed, type |-> type,
           device |-> device, ip |-> ip, country |-> country,
           amount |-> amount, new_owner |-> new_owner, config |-> conf,
           verdict |-> verdict, evaluated |-> evaluated, policies |-> P,
           seen |-> seen]

(* The request has the row of the tenant, and its log is not before any    *)
(* that is visible.                                                        *)
StampedOK(r) ==
    step[r] = "stamped" =>
      /\ r \in lock
      /\ draft[r].at \in Int /\ draft[r].at <= now
      /\ \A l \in logs : l.at <= draft[r].at

IInv ==
    /\ now \in Int
    /\ step \in [Requests -> Steps]
    /\ draft = [r \in Requests |-> draft[r]]
    /\ \A l \in logs : l.at \in Int /\ l.at <= now
    /\ \A r, s \in lock : r = s
    /\ \A r \in Requests : step[r] = "decided" => IsDraft(draft[r])
    /\ \A r \in Requests : StampedOK(r)

-----------------------------------------------------------------------------
(* At the start nothing is logged.                                         *)
LEMMA Start == Init => IInv
<1> SUFFICES ASSUME Init PROVE IInv
  OBVIOUS
<1>1. now \in Int
  BY AuditAssumption DEF Init
<1> QED
  BY <1>1 DEF Init, IInv, StampedOK, Steps

(* A request that takes no step, while time may pass and the row of the    *)
(* tenant is not freed for it.                                             *)
LEMMA OtherStamp ==
  ASSUME IInv, NEW r \in Requests, step'[r] = step[r], draft'[r] = draft[r],
         now' \in Int, now <= now', r \in lock => r \in lock',
         step[r] = "stamped" => logs' = logs
  PROVE  StampedOK(r)'
<1> SUFFICES ASSUME step[r] = "stamped"
             PROVE  /\ r \in lock'
                    /\ draft[r].at \in Int /\ draft[r].at <= now'
                    /\ \A l \in logs : l.at <= draft[r].at
  BY DEF StampedOK
<1> QED
  BY DEF IInv, StampedOK

(* What a request reads and decides is its own.                            *)
LEMMA ReadStep ==
  ASSUME IInv, NEW r \in Requests, ReadRecent(r)
  PROVE  IInv'
<1>1. PICK d : draft' = [draft EXCEPT ![r] = d]
  BY DEF ReadRecent
<1>2. /\ step' = [step EXCEPT ![r] = "reading"]
      /\ now' = now /\ logs' = logs /\ lock' = lock
  BY DEF ReadRecent, Goto
<1>3. /\ step' \in [Requests -> Steps] /\ step'[r] = "reading"
      /\ \A s \in Requests : s # r => step'[s] = step[s]
  BY <1>2 DEF IInv, Steps
<1>4. /\ draft' = [s \in Requests |-> draft'[s]]
      /\ \A s \in Requests : s # r => draft'[s] = draft[s]
  BY <1>1 DEF IInv
<1>5. \A s \in Requests : StampedOK(s)'
  <2>1. StampedOK(r)'
    BY <1>3 DEF StampedOK
  <2> QED
    BY <1>2, <1>3, <1>4, <2>1, OtherStamp DEF IInv
<1> QED
  BY <1>2, <1>3, <1>4, <1>5 DEF IInv

LEMMA EvaluateStep ==
  ASSUME IInv, NEW r \in Requests, Evaluate(r)
  PROVE  IInv'
<1>1. PICK d : draft' = [draft EXCEPT ![r] = d] /\ IsDraft(d)
  <2> DEFINE q == draft[r].request
             past == LoggedUntil(logs, draft[r].at)
             history == draft[r].recent \cup Latest(past, LatestLimit)
             verdict == Decide(q, history, policies, config, now)
             d == [id |-> 0, at |-> draft[r].at, allowed |-> verdict.allowed,
                   type |-> q.type, device |-> q.device, ip |-> q.ip,
                   country |-> q.country, amount |-> q.amount,
                   new_owner |-> q.new_owner, config |-> config,
                   verdict |-> verdict, evaluated |-> now,
                   policies |-> policies, seen |-> {l.id : l \in past}]
  <2>1. draft' = [draft EXCEPT ![r] = d]
    BY DEF Evaluate
  <2>2. IsDraft(d)
    BY DEF IsDraft
  <2> QED
    BY <2>1, <2>2
<1>2. /\ step' = [step EXCEPT ![r] = "decided"]
      /\ now' = now /\ logs' = logs /\ lock' = lock
  BY DEF Evaluate, Goto
<1>3. /\ step' \in [Requests -> Steps] /\ step'[r] = "decided"
      /\ \A s \in Requests : s # r => step'[s] = step[s]
  BY <1>2 DEF IInv, Steps
<1>4. /\ draft' = [s \in Requests |-> draft'[s]] /\ draft'[r] = d
      /\ \A s \in Requests : s # r => draft'[s] = draft[s]
  BY <1>1 DEF IInv
<1>5. \A s \in Requests : StampedOK(s)'
  <2>1. StampedOK(r)'
    BY <1>3 DEF StampedOK
  <2> QED
    BY <1>2, <1>3, <1>4, <2>1, OtherStamp DEF IInv
<1>6. \A s \in Requests : step'[s] = "decided" => IsDraft(draft'[s])
  BY <1>1, <1>3, <1>4 DEF IInv
<1>7. \A s \in Requests : (step[s] = "decided" => IsDraft(draft[s]))'
  BY <1>6 DEF IsDraft
<1> QED
  BY <1>2, <1>3, <1>4, <1>5, <1>7 DEF IInv

(* The log is stamped with the present, and nobody else is between stamp   *)
(* and commit.                                                             *)
LEMMA StampStep ==
  ASSUME IInv, NEW r \in Requests, Stamp(r)
  PROVE  IInv'
<1>1. /\ step[r] = "decided" /\ lock = {} /\ lock' = {r}
      /\ step' = [step EXCEPT ![r] = "stamped"]
      /\ draft' = [draft EXCEPT ![r].id = nextId, ![r].at = now]
      /\ now' = now /\ logs' = logs
  BY DEF Stamp, Stamped, Goto
<1>2. /\ step' \in [Requests -> Steps] /\ step'[r] = "stamped"
      /\ \A s \in Requests : s # r => step'[s] = step[s]
  BY <1>1 DEF IInv, Steps
<1>3. PICK old : old = draft[r] /\ IsDraft(old)
  BY <1>1 DEF IInv
<1>4. PICK i, n : i = nextId /\ n = now
  OBVIOUS
<1>5. draft' = [draft EXCEPT ![r] = [old EXCEPT !.id = i, !.at = n]]
  BY <1>1, <1>3, <1>4
<1>6. /\ draft' = [s \in Requests |-> draft'[s]]
      /\ draft'[r] = [old EXCEPT !.id = i, !.at = n]
      /\ \A s \in Requests : s # r => draft'[s] = draft[s]
  BY <1>5 DEF IInv
<1>7. [old EXCEPT !.id = i, !.at = n].at = n
  BY <1>3 DEF IsDraft
<1>8. StampedOK(r)'
  <2>1. draft'[r].at = now
    BY <1>4, <1>6, <1>7
  <2>2. now \in Int /\ \A l \in logs : l.at <= now
    BY DEF IInv
  <2>3. now <= now
    BY <2>2
  <2> QED
    BY <1>1, <2>1, <2>2, <2>3 DEF StampedOK
<1>9. \A s \in Requests : s # r => step[s] # "stamped"
  BY <1>1 DEF IInv, StampedOK
<1>10. \A s \in Requests : StampedOK(s)'
  BY <1>2, <1>8, <1>9 DEF StampedOK
<1>11. \A s \in Requests : (step[s] = "decided" => IsDraft(draft[s]))'
  BY <1>2, <1>6 DEF IInv, IsDraft
<1> QED
  BY <1>1, <1>2, <1>6, <1>10, <1>11 DEF IInv

(* A log becomes visible, and the row of the tenant is free.               *)
LEMMA CommitStep ==
  ASSUME IInv, NEW r \in Requests, Commit(r) \/ Fail(r)
  PROVE  IInv'
<1>1. /\ step[r] = "stamped" /\ lock' = lock \ {r}
      /\ step' = [step EXCEPT ![r] = "done"]
      /\ draft' = [draft EXCEPT ![r] = <<>>]
      /\ now' = now /\ logs' \subseteq logs \cup {draft[r]}
  BY DEF Commit, Fail, Goto
<1>2. /\ step' \in [Requests -> Steps] /\ step'[r] = "done"
      /\ \A s \in Requests : s # r => step'[s] = step[s]
  BY <1>1 DEF IInv, Steps
<1>3. /\ draft' = [s \in Requests |-> draft'[s]]
      /\ \A s \in Requests : s # r => draft'[s] = draft[s]
  BY <1>1 DEF IInv
<1>4. \A l \in logs' : l.at \in Int /\ l.at <= now'
  BY <1>1 DEF IInv, StampedOK
<1>5. \A s \in Requests : s # r => step[s] # "stamped"
  BY <1>1 DEF IInv, StampedOK
<1>6. \A s \in Requests : StampedOK(s)'
  BY <1>2, <1>5 DEF StampedOK
<1>7. \A s \in Requests : (step[s] = "decided" => IsDraft(draft[s]))'
  BY <1>2, <1>3 DEF IInv, IsDraft
<1> QED
  BY <1>1, <1>2, <1>3, <1>4, <1>6, <1>7 DEF IInv

(* Every step keeps the invariant.                                         *)
LEMMA Step ==
  ASSUME IInv, [Next]_vars
  PROVE  IInv'
<1>1. CASE Administer \/ UNCHANGED vars
  <2>1. UNCHANGED <<now, logs, lock, step, draft>>
    BY <1>1 DEF Administer, vars
  <2> QED
    BY <2>1 DEF IInv, StampedOK, IsDraft
<1>2. CASE Tick
  <2>1. now' = now + 1 /\ UNCHANGED <<logs, lock, step, draft>>
    BY <1>2 DEF Tick
  <2>2. now' \in Int /\ now <= now'
    BY <2>1 DEF IInv
  <2>3. \A r \in Requests : StampedOK(r)'
    BY <2>1, <2>2, OtherStamp
  <2>4. \A l \in logs' : l.at \in Int /\ l.at <= now'
    BY <2>1 DEF IInv
  <2> QED
    BY <2>1, <2>2, <2>3, <2>4 DEF IInv, IsDraft
<1> QED
  BY <1>1, <1>2, ReadStep, EvaluateStep, StampStep, CommitStep DEF Next

(* The invariant: the logs become visible in the order of created_at.      *)
THEOREM Invariance == Spec => []IInv
  BY Start, Step, PTL DEF Spec

(* What a replay reads are the logs before the decision, and none is added *)
(* to them.                                                                *)
LEMMA PastKept ==
  ASSUME IInv, [Next]_vars, NEW l \in logs
  PROVE  LoggedBefore(logs', l.at) = LoggedBefore(logs, l.at)
<1>1. CASE logs' = logs
  BY <1>1
<1>2. ASSUME NEW r \in Requests, Commit(r)
      PROVE  LoggedBefore(logs', l.at) = LoggedBefore(logs, l.at)
  <2>1. logs' = logs \cup {draft[r]}
    BY <1>2 DEF Commit
  <2>2. draft[r].at \in Int /\ l.at \in Int /\ l.at <= draft[r].at
    BY <1>2 DEF Commit, IInv, StampedOK
  <2>3. ~(draft[r].at < l.at)
    BY <2>2
  <2> QED
    BY <2>1, <2>3 DEF LoggedBefore
<1> QED
  BY <1>1, <1>2
  DEF Next, vars, ReadRecent, Evaluate, Stamp, Fail, Administer, Tick

(* Once a decision is logged, its replay gives the same answer for ever.   *)
THEOREM Stability == Spec => ReplayStable
<1>1. ASSUME IInv, [Next]_vars, NEW l \in logs
      PROVE  Replay(l, logs') = Replay(l, logs)
  <2>1. RiskHistory(logs', l.at) = RiskHistory(logs, l.at)
    BY <1>1, PastKept DEF RiskHistory
  <2> QED
    BY <2>1 DEF Replay
<1>2. IInv /\ [Next]_vars => \A l \in logs : Replay(l, logs') = Replay(l, logs)
  BY <1>1
<1> QED
  BY <1>2, Invariance, PTL DEF Spec, ReplayStable
=============================================================================
