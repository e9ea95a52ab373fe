------------------------- MODULE DecisionRuleProofs -------------------------
(***************************************************************************)
(* That decisions follow the rule of the policies, for every finite set of *)
(* policies with names of their own: PolicyEngine sorts by a key, and the  *)
(* first that matches is the one that the rule, stated without a sort,     *)
(* asks for.                                                               *)
(***************************************************************************)
EXTENDS AuditReplayProofs, FiniteSetTheorems

Weight(p) == IF p.effect = "deny" THEN 0 ELSE 1

(* What a tenant's policies are: uq_policy_name_per_tenant.                *)
PolicySet(P) ==
    /\ P \subseteq Policy
    /\ IsFiniteSet(P)
    /\ \A p, q \in P : p.name = q.name => p = q

(* The policy of a draft or a log is the one that the engine found.        *)
MadeOK(d) ==
    /\ PolicySet(d.policies)
    /\ d.evaluated \in Int
    /\ d.verdict.deciding
         = Deciding(d.policies, d, d.verdict.risk, d.evaluated)

RuleOK ==
    /\ PolicySet(policies)
    /\ \A l \in logs : MadeOK(l)
    /\ \A r \in Requests : step[r] \in {"decided", "stamped"}
                             => MadeOK(draft[r])

-----------------------------------------------------------------------------
(* The order of the sort, written out.                                     *)
LEMMA PrecedesMeans ==
  ASSUME NEW p \in Policy, NEW q \in Policy
  PROVE  Precedes(p, q) <=>
           \/ p.priority < q.priority
           \/ p.priority = q.priority /\ Weight(p) < Weight(q)
           \/ /\ p.priority = q.priority /\ Weight(p) = Weight(q)
              /\ p.name < q.name
<1> DEFINE a == Rank(p)
           b == Rank(q)
<1>1. /\ a[1] = p.priority /\ a[2] = Weight(p) /\ a[3] = p.name
      /\ b[1] = q.priority /\ b[2] = Weight(q) /\ b[3] = q.name
  BY DEF Rank, Weight
<1>2. Precedes(p, q) <=>
        \E i \in 1..3 : a[i] < b[i] /\ \A j \in 1..(i - 1) : a[j] = b[j]
  BY DEF Precedes
<1> HIDE DEF a, b
<1>3. (\E i \in 1..3 : a[i] < b[i] /\ \A j \in 1..(i - 1) : a[j] = b[j]) <=>
        \/ a[1] < b[1] /\ \A j \in 1..0 : a[j] = b[j]
        \/ a[2] < b[2] /\ \A j \in 1..1 : a[j] = b[j]
        \/ a[3] < b[3] /\ \A j \in 1..2 : a[j] = b[j]
  <2>1. 1..3 = {1, 2, 3} /\ 1 - 1 = 0 /\ 2 - 1 = 1 /\ 3 - 1 = 2
    OBVIOUS
  <2> QED
    BY <2>1
<1>4. 1..0 = {} /\ 1..1 = {1} /\ 1..2 = {1, 2}
  OBVIOUS
<1> QED
  BY <1>1, <1>2, <1>3, <1>4

(* It is a strict order, and total where names differ.                     *)
LEMMA OrderOfPolicies ==
  ASSUME NEW p \in Policy, NEW q \in Policy, NEW s \in Policy
  PROVE  /\ ~Precedes(p, p)
         /\ Precedes(p, q) /\ Precedes(q, s) => Precedes(p, s)
         /\ p.name # q.name => Precedes(p, q) \/ Precedes(q, p)
<1>1. /\ {p.priority, q.priority, s.priority} \subseteq Int
      /\ {p.name, q.name, s.name} \subseteq Nat
  BY DEF Policy
<1>2. {Weight(p), Weight(q), Weight(s)} \subseteq {0, 1}
  BY DEF Weight
<1> QED
  BY <1>1, <1>2, PrecedesMeans

(* Some policy of a set that is not empty comes before all others.         *)
LEMMA FirstExists ==
  ASSUME NEW C, PolicySet(C), C # {}
  PROVE  \E p \in C : \A q \in C \ {p} : Precedes(p, q)
<1> DEFINE Below(p) == {q \in C : Precedes(q, p)}
           Belows == {Below(p) : p \in C}
<1>1. IsWellFoundedOn(StrictSubsetOrdering(C), SUBSET C)
  BY FS_StrictSubsetOrderingWellFounded, FS_FiniteSubsetsOfFinite DEF PolicySet
<1>2. Belows \subseteq SUBSET C /\ Belows # {}
  OBVIOUS
<1>3. \E x \in Belows : \A y \in Belows : <<y, x>> \notin StrictSubsetOrdering(C)
  <2> HIDE DEF Belows
  <2> QED
    BY <1>1, <1>2, WFMin
<1>4. PICK p \in C : \A y \in Belows :
                       <<y, Below(p)>> \notin StrictSubsetOrdering(C)
  BY <1>3
<1>5. Below(p) = {}
  <2> SUFFICES ASSUME NEW q \in C, Precedes(q, p) PROVE FALSE
    OBVIOUS
  <2>1. p \in Policy /\ q \in Policy /\ C \subseteq Policy
    BY DEF PolicySet
  <2>2. Below(q) \subseteq Below(p)
    BY <2>1, OrderOfPolicies
  <2>3. q \in Below(p) /\ q \notin Below(q)
    BY <2>1, OrderOfPolicies
  <2>4. <<Below(q), Below(p)>> \in StrictSubsetOrdering(C)
    <3> HIDE DEF Below
    <3>1. Below(q) \subseteq C /\ Below(p) \subseteq C
      BY DEF Below
    <3>2. Below(q) # Below(p)
      BY <2>3
    <3> QED
      BY <2>2, <3>1, <3>2 DEF StrictSubsetOrdering
  <2> QED
    BY <1>4, <2>4
<1>6. ASSUME NEW q \in C \ {p} PROVE Precedes(p, q)
  <2>1. p \in Policy /\ q \in Policy /\ p.name # q.name
    BY DEF PolicySet
  <2>2. ~Precedes(q, p)
    BY <1>5
  <2> QED
    BY <2>1, <2>2, OrderOfPolicies
<1> QED
  BY <1>6

(* No two do.                                                              *)
LEMMA FirstUnique ==
  ASSUME NEW C, PolicySet(C), NEW p \in C, NEW q \in C,
         \A s \in C \ {p} : Precedes(p, s), \A s \in C \ {q} : Precedes(q, s)
  PROVE  p = q
<1>1. p \in Policy /\ q \in Policy
  BY DEF PolicySet
<1> QED
  BY <1>1, OrderOfPolicies

-----------------------------------------------------------------------------
(* An hour is one of the clock's.                                          *)
LEMMA HourInRange == \A t \in Int : HourOf(t) \in 0..23
<1> SUFFICES ASSUME NEW t \in Int PROVE HourOf(t) \in 0..23
  OBVIOUS
<1>1. PICK n \in Nat : n = HourLength /\ n > 0
  BY EnginesAssumption
<1>2. PICK h \in Int : h = t \div n
  BY <1>1, SMT
<1>3. h % 24 \in 0..23
  OBVIOUS
<1> QED
  BY <1>1, <1>2, <1>3 DEF HourOf

(* The comparisons of _matches are those of a clock.                       *)
LEMMA HoursOnClock ==
  ASSUME NEW start \in 0..23 \cup {NULL}, NEW end \in 0..23 \cup {NULL},
         NEW hour \in 0..23
  PROVE  hour \in Arc(start, end) <=>
           (start # NULL \/ end # NULL => InHours(start, end, hour))
<1>1. CASE start = NULL /\ end = NULL
  <2>1. {0, start} = {0, -1}
    BY <1>1 DEF NULL
  <2>2. Max({0, -1}) = 0
    BY DEF Max
  <2> QED
    BY <1>1, <2>1, <2>2 DEF Arc
<1>2. CASE start = NULL /\ end # NULL
  <2>1. {0, start} = {0, -1}
    BY <1>2 DEF NULL
  <2>2. Max({0, -1}) = 0
    BY DEF Max
  <2>3. end \in 0..23
    BY <1>2
  <2> QED
    BY <1>2, <2>1, <2>2, <2>3 DEF Arc, InHours
<1>3. CASE start # NULL /\ end = NULL
  <2>1. start \in 0..23
    BY <1>3
  <2>2. Max({0, start}) = start
    BY <2>1 DEF Max
  <2> QED
    BY <1>3, <2>1, <2>2 DEF Arc, InHours
<1>4. CASE start # NULL /\ end # NULL /\ start = end
  BY <1>4 DEF Arc, InHours
<1>5. CASE start # NULL /\ end # NULL /\ start # end
  <2>1. start \in 0..23 /\ end \in 0..23
    BY <1>5
  <2>2. PICK n \in 1..23 : /\ n = (end - start) % 24
                           /\ start < end => n = end - start
                           /\ start > end => n = end - start + 24
    <3>1. start < end => (end - start) % 24 = end - start
      BY <2>1
    <3>2. start > end => (end - start) % 24 = end - start + 24
      BY <2>1
    <3> QED
      BY <1>5, <2>1, <3>1, <3>2
  <2>3. Arc(start, end) = {(start + k) % 24 : k \in 0..(n - 1)}
    BY <1>5, <2>2 DEF Arc
  <2>4. \A k \in 0..23 : (start + k) % 24 = IF start + k < 24 THEN start + k
                                            ELSE start + k - 24
    BY <2>1
  <2>5. hour \in Arc(start, end) <=>
          \E k \in 0..(n - 1) : hour = (start + k) % 24
    BY <2>3
  <2>6. \A k \in 0..(n - 1) : k \in 0..23 /\ k < n
    BY <2>2
  <2>7. ASSUME NEW k \in 0..(n - 1), hour = (start + k) % 24
        PROVE  \/ hour >= start /\ hour - start < n
               \/ hour < start /\ hour + 24 - start < n
    <3>1. k \in 0..23 /\ k < n
      BY <2>6, <2>7
    <3>2. hour = IF start + k < 24 THEN start + k ELSE start + k - 24
      BY <2>4, <2>7, <3>1
    <3> QED
      BY <2>1, <3>1, <3>2
  <2>8. ASSUME hour >= start, hour - start < n
        PROVE  \E k \in 0..(n - 1) : hour = (start + k) % 24
    <3>1. PICK k \in 0..(n - 1) : k = hour - start /\ k \in 0..23
      BY <2>1, <2>2, <2>8
    <3>2. hour = (start + k) % 24
      BY <2>1, <2>4, <3>1
    <3> QED
      BY <3>2
  <2>9. ASSUME hour < start, hour + 24 - start < n
        PROVE  \E k \in 0..(n - 1) : hour = (start + k) % 24
    <3>1. PICK k \in 0..(n - 1) : k = hour + 24 - start /\ k \in 0..23
      BY <2>1, <2>2, <2>9
    <3>2. hour = (start + k) % 24
      BY <2>1, <2>4, <3>1
    <3> QED
      BY <3>2
  <2>10. hour \in Arc(start, end) <=>
           \/ hour >= start /\ hour - start < n
           \/ hour < start /\ hour + 24 - start < n
    BY <2>5, <2>7, <2>8, <2>9
  <2>11. InHours(start, end, hour) <=>
          \/ start < end /\ hour >= start /\ hour < end
          \/ start > end /\ (hour >= start \/ hour < end)
    BY <1>5 DEF InHours
  <2> QED
    BY <1>5, <2>1, <2>2, <2>10, <2>11
<1> QED
  BY <1>1, <1>2, <1>3, <1>4, <1>5

-----------------------------------------------------------------------------
(* What the engine finds for a draft or a log does not depend on the rest  *)
(* of it.                                                                  *)
LEMMA SameDeciding ==
  ASSUME NEW P, NEW q, NEW d, NEW risk, NEW time,
         q.type = d.type, q.device = d.device, q.country = d.country,
         q.amount = d.amount
  PROVE  Deciding(P, q, risk, time) = Deciding(P, d, risk, time)
<1>1. \A p \in P : Matches(p, q, risk, HourOf(time))
                     <=> Matches(p, d, risk, HourOf(time))
  BY DEF Matches
<1>2. Candidates(P, q, risk, time) = Candidates(P, d, risk, time)
  BY <1>1 DEF Candidates
<1> QED
  BY <1>2 DEF Deciding

(* A draft keeps its decision when it is stamped.                          *)
LEMMA SameMade ==
  ASSUME NEW d, NEW e, MadeOK(d),
         e.policies = d.policies, e.evaluated = d.evaluated,
         e.verdict = d.verdict, e.type = d.type, e.device = d.device,
         e.country = d.country, e.amount = d.amount
  PROVE  MadeOK(e)
<1>1. Deciding(d.policies, d, d.verdict.risk, d.evaluated)
        = Deciding(d.policies, e, d.verdict.risk, d.evaluated)
  BY SameDeciding
<1> QED
  BY <1>1 DEF MadeOK

(* The engine decides with the policies of now.                            *)
LEMMA EvaluateMakes ==
  ASSUME IInv, RuleOK, NEW r \in Requests, Evaluate(r)
  PROVE  MadeOK(draft'[r])
<1>1. PICK q, past, history :
        draft' = [draft EXCEPT ![r] =
          [id |-> 0, at |-> draft[r].at,
           allowed |-> Decide(q, history, policies, config, now).allowed,
           type |-> q.type, device |-> q.device, ip |-> q.ip,
           country |-> q.country, amount |-> q.amount,
           new_owner |-> q.new_owner, config |-> config,
           verdict |-> Decide(q, history, policies, config, now),
           evaluated |-> now, policies |-> policies,
           seen |-> {l.id : l \in past}]]
  BY DEF Evaluate
<1>2. PICK v : v = Decide(q, history, policies, config, now)
  OBVIOUS
<1>3. v.deciding = Deciding(policies, q, v.risk, now)
  BY <1>2 DEF Decide, Verdict
<1>4. PICK d : d = draft'[r]
  OBVIOUS
<1>5. /\ d.policies = policies /\ d.evaluated = now /\ d.verdict = v
      /\ d.type = q.type /\ d.device = q.device /\ d.country = q.country
      /\ d.amount = q.amount
  BY <1>1, <1>2, <1>4 DEF IInv
<1>6. Deciding(policies, q, v.risk, now) = Deciding(policies, d, v.risk, now)
  BY <1>5, SameDeciding
<1>7. now \in Int /\ PolicySet(policies)
  BY DEF IInv, RuleOK
<1>8. MadeOK(d)
  BY <1>3, <1>5, <1>6, <1>7 DEF MadeOK
<1> QED
  BY <1>4, <1>8

(* The stamp changes the id and created_at only.                           *)
LEMMA StampKeepsMade ==
  ASSUME IInv, RuleOK, NEW r \in Requests, Stamp(r)
  PROVE  MadeOK(draft'[r])
<1>1. PICK d, i, n : d = draft[r] /\ i = nextId /\ n = now
  OBVIOUS
<1>2. IsDraft(d) /\ MadeOK(d)
  BY <1>1 DEF Stamp, IInv, RuleOK
<1>3. draft' = [draft EXCEPT ![r] = [d EXCEPT !.id = i, !.at = n]]
  BY <1>1 DEF Stamp, Stamped
<1>4. PICK e : e = [d EXCEPT !.id = i, !.at = n]
  OBVIOUS
<1>5. draft'[r] = e
  BY <1>3, <1>4 DEF IInv
<1>6. /\ e.policies = d.policies /\ e.evaluated = d.evaluated
      /\ e.verdict = d.verdict /\ e.type = d.type /\ e.device = d.device
      /\ e.country = d.country /\ e.amount = d.amount
  BY <1>2, <1>4 DEF IsDraft
<1> QED
  BY <1>2, <1>5, <1>6, SameMade

(* Every step keeps that policies decide as the engine found.              *)
LEMMA RuleStep ==
  ASSUME IInv, RuleOK, [Next]_vars
  PROVE  RuleOK'
<1>1. CASE Tick \/ UNCHANGED vars
  BY <1>1 DEF Tick, vars, RuleOK, MadeOK
<1>2. CASE Administer
  <2>1. PICK g \in Regimes : policies' = g.policies
    BY <1>2 DEF Administer
  <2>2. PolicySet(policies')
    BY <2>1, AuditAssumption DEF PolicySet
  <2>3. UNCHANGED <<logs, step, draft>>
    BY <1>2 DEF Administer
  <2> QED
    BY <2>2, <2>3 DEF RuleOK, MadeOK
<1>3. ASSUME NEW r \in Requests, ReadRecent(r) PROVE RuleOK'
  <2>1. \E d : draft' = [draft EXCEPT ![r] = d]
    BY <1>3 DEF ReadRecent
  <2>2. /\ step' = [step EXCEPT ![r] = "reading"]
        /\ policies' = policies /\ logs' = logs
    BY <1>3 DEF ReadRecent, Goto
  <2>3. ASSUME NEW s \in Requests, step'[s] \in {"decided", "stamped"}
        PROVE  MadeOK(draft'[s])
    <3>1. s # r /\ step'[s] = step[s] /\ draft'[s] = draft[s]
      BY <2>1, <2>2, <2>3 DEF IInv
    <3> QED
      BY <2>3, <3>1 DEF RuleOK
  <2> QED
    BY <2>2, <2>3 DEF RuleOK, MadeOK
<1>4. ASSUME NEW r \in Requests, Evaluate(r) \/ Stamp(r) PROVE RuleOK'
  <2>1. \E d : draft' = [draft EXCEPT ![r] = d]
    BY <1>4 DEF Evaluate, Stamp, Stamped
  <2>2. /\ \E at : step' = [step EXCEPT ![r] = at]
        /\ policies' = policies /\ logs' = logs
    BY <1>4 DEF Evaluate, Stamp, Goto
  <2>3. ASSUME NEW s \in Requests, step'[s] \in {"decided", "stamped"}
        PROVE  MadeOK(draft'[s])
    <3>1. CASE s = r
      BY <1>4, <3>1, EvaluateMakes, StampKeepsMade
    <3>2. CASE s # r
      <4>1. step'[s] = step[s] /\ draft'[s] = draft[s]
        BY <2>1, <2>2, <3>2 DEF IInv
      <4> QED
        BY <2>3, <4>1 DEF RuleOK
    <3> QED
      BY <3>1, <3>2
  <2> QED
    BY <2>2, <2>3 DEF RuleOK, MadeOK
<1>5. ASSUME NEW r \in Requests, Commit(r) \/ Fail(r) PROVE RuleOK'
  <2>1. /\ step[r] = "stamped"
        /\ step' = [step EXCEPT ![r] = "done"]
        /\ draft' = [draft EXCEPT ![r] = <<>>]
        /\ policies' = policies /\ logs' \subseteq logs \cup {draft[r]}
    BY <1>5 DEF Commit, Fail, Goto
  <2>2. MadeOK(draft[r])
    BY <2>1 DEF RuleOK
  <2>3. \A l \in logs' : MadeOK(l)
    BY <2>1, <2>2 DEF RuleOK
  <2>4. ASSUME NEW s \in Requests, step'[s] \in {"decided", "stamped"}
        PROVE  MadeOK(draft'[s])
    <3>1. s # r /\ step'[s] = step[s] /\ draft'[s] = draft[s]
      BY <2>1, <2>4 DEF IInv
    <3> QED
      BY <2>4, <3>1 DEF RuleOK
  <2> QED
    BY <2>1, <2>3, <2>4 DEF RuleOK, MadeOK
<1> QED
  BY <1>1, <1>2, <1>3, <1>4, <1>5 DEF Next

-----------------------------------------------------------------------------
(* `apply` of DecidedByRule.                                               *)
Applying(P, l, risk, time) ==
    {p \in P : /\ InForce(p, time)
               /\ Matches([p EXCEPT !.start_hour = NULL, !.end_hour = NULL],
                          l, risk, NULL)
               /\ HourOf(time) \in Arc(p.start_hour, p.end_hour)}

(* The candidates of the engine are the policies that apply by the clock.  *)
LEMMA CandidatesApply ==
  ASSUME NEW P, P \subseteq Policy, NEW l, NEW risk, NEW time \in Int
  PROVE  Candidates(P, l, risk, time) = Applying(P, l, risk, time)
<1> SUFFICES ASSUME NEW p \in P
             PROVE  Matches(p, l, risk, HourOf(time)) <=>
                      /\ Matches([p EXCEPT !.start_hour = NULL,
                                           !.end_hour = NULL], l, risk, NULL)
                      /\ HourOf(time) \in Arc(p.start_hour, p.end_hour)
  BY DEF Candidates, Applying
<1>1. p \in Policy
  OBVIOUS
<1>2. PICK q : q = [p EXCEPT !.start_hour = NULL, !.end_hour = NULL]
  OBVIOUS
<1>3. /\ q.request_types = p.request_types /\ q.devices = p.devices
      /\ q.countries = p.countries /\ q.max_risk_score = p.max_risk_score
      /\ q.min_trust_score = p.min_trust_score
      /\ q.max_amount = p.max_amount
      /\ q.start_hour = NULL /\ q.end_hour = NULL
  BY <1>1, <1>2 DEF Policy
<1>4. PICK h \in 0..23 : h = HourOf(time)
  BY HourInRange
<1>5. /\ p.start_hour \in 0..23 \cup {NULL} /\ p.end_hour \in 0..23 \cup {NULL}
      /\ h # NULL
  BY <1>1 DEF Policy, NULL
<1>6. h \in Arc(p.start_hour, p.end_hour) <=>
        (p.start_hour # NULL \/ p.end_hour # NULL
           => InHours(p.start_hour, p.end_hour, h))
  BY <1>5, HoursOnClock
<1> QED
  BY <1>2, <1>3, <1>4, <1>5, <1>6 DEF Matches

(* The decision of a log is by the rule.                                   *)
LEMMA LogByRule == RuleOK => DecidedByRule
<1> SUFFICES ASSUME RuleOK PROVE DecidedByRule
  OBVIOUS
<1> DEFINE
    Apply(l) == Applying(l.policies, l, l.verdict.risk, l.evaluated)
    First(l) == {p \in Apply(l) : \A q \in Apply(l) : p.priority <= q.priority}
    Deny(l) == {p \in First(l) : p.effect = "deny"}
<1>1. ASSUME NEW l \in logs
      PROVE  /\ Cardinality(l.verdict.deciding) = IF Apply(l) = {} THEN 0 ELSE 1
             /\ l.verdict.deciding \subseteq IF Deny(l) = {} THEN First(l)
                                             ELSE Deny(l)
  <2>1. PICK P, C, D : P = l.policies /\ C = Apply(l) /\ D = l.verdict.deciding
    OBVIOUS
  <2>2. MadeOK(l) /\ P \subseteq Policy /\ l.evaluated \in Int
    BY <1>1, <2>1 DEF RuleOK, MadeOK, PolicySet
  <2>3. C = Candidates(P, l, l.verdict.risk, l.evaluated)
    BY <2>1, <2>2, CandidatesApply
  <2>4. D = {p \in C : \A q \in C \ {p} : Precedes(p, q)}
    BY <2>1, <2>2, <2>3 DEF MadeOK, Deciding
  <2>5. PolicySet(C)
    <3>1. C \subseteq P /\ PolicySet(P)
      BY <2>1, <2>2 DEF MadeOK, Applying
    <3> QED
      BY <3>1, FS_Subset DEF PolicySet
  <2>6. First(l) = {p \in C : \A q \in C : p.priority <= q.priority}
    BY <2>1
  <2> HIDE DEF Apply, First
  <2>7. CASE C = {}
    <3>1. D = {}
      BY <2>4, <2>7
    <3> QED
      BY <2>1, <2>7, <3>1, FS_EmptySet
  <2>8. CASE C # {}
    <3>1. PICK p \in C : \A q \in C \ {p} : Precedes(p, q)
      BY <2>5, <2>8, FirstExists
    <3>2. D = {p}
      BY <2>4, <2>5, <3>1, FirstUnique
    <3>3. \A q \in C : q \in Policy /\ q.priority \in Int
      BY <2>5 DEF PolicySet, Policy
    <3>4. ASSUME NEW q \in C
          PROVE  /\ p.priority <= q.priority
                 /\ p.priority = q.priority => Weight(p) <= Weight(q)
      <4>1. CASE q = p
        BY <3>3, <4>1 DEF Weight
      <4>2. CASE q # p
        <5>1. Weight(p) \in {0, 1} /\ Weight(q) \in {0, 1}
          BY DEF Weight
        <5> QED
          BY <3>1, <3>3, <4>2, <5>1, PrecedesMeans
      <4> QED
        BY <4>1, <4>2
    <3>5. p \in First(l)
      BY <2>6, <3>4
    <3>6. ASSUME NEW q \in Deny(l) PROVE p \in Deny(l)
      <4>1. /\ q \in C /\ q.priority <= p.priority /\ q.effect = "deny"
        BY <2>6, <3>6
      <4>2. p.priority = q.priority
        BY <3>3, <3>4, <4>1
      <4>3. Weight(p) <= 0
        BY <3>4, <4>1, <4>2 DEF Weight
      <4> QED
        BY <3>5, <4>3 DEF Weight
    <3> HIDE DEF Deny
    <3> QED
      BY <2>1, <2>8, <3>2, <3>5, <3>6, FS_Singleton
  <2> QED
    BY <2>7, <2>8
<1> QED
  BY <1>1 DEF DecidedByRule, Applying

(* PolicyEngine.evaluate behind request_access: a logged decision is made  *)
(* by a policy only if that one is in force, matches and its hours have    *)
(* come, and it has the right of way over every other that does.           *)
THEOREM Rule == Spec => []DecidedByRule
<1>1. Init => RuleOK
  <2> SUFFICES ASSUME Init PROVE RuleOK
    OBVIOUS
  <2>1. PICK g \in Regimes : policies = g.policies
    BY DEF Init
  <2>2. PolicySet(policies)
    BY <2>1, AuditAssumption DEF PolicySet
  <2> QED
    BY <2>2 DEF Init, RuleOK
<1>2. IInv /\ RuleOK /\ [Next]_vars => RuleOK'
  BY RuleStep
<1> QED
  BY <1>1, <1>2, LogByRule, Invariance, PTL DEF Spec
=============================================================================
