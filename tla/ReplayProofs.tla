---------------------------- MODULE ReplayProofs ----------------------------
(***************************************************************************)
(* That the replay of a decision agrees with it (ReplayAgrees), for any    *)
(* number of requests, all inputs, policies, configurations and constants  *)
(* of the engines.                                                         *)
(*                                                                         *)
(* The engines look at a history through two windows of at most an hour    *)
(* and at its latest few logs.  A history that has the last hour and the   *)
(* latest LatestLimit of the past shows them what the whole past would     *)
(* (LatestOf, WithinOf), so that two such histories of one past are one to *)
(* them, and the policy that decided decides again when it is the only one *)
(* (DecidingAgain): LogReplays.  The invariant JInv is that each decision  *)
(* was taken from such a history of the logs that it saw.  The hard part   *)
(* is that the history is read in two statements (HistoryWhole): what the  *)
(* first missed is the latest there is, and is found by the second as long *)
(* as it is not more than that reads.  What it missed was stamped, but for *)
(* one log, no earlier than the clock that the request read, and is looked *)
(* for only up to that clock: so it is one log and those of the very same  *)
(* time.  In the code a time is a microsecond, in which no LatestLimit     *)
(* transactions take the row of the tenant in turn; in the model any       *)
(* number of them fits in a unit, hence the condition Apart.               *)
(***************************************************************************)
EXTENDS DecisionRuleProofs

-----------------------------------------------------------------------------
(* What the assumptions on the constants are cited for.                    *)
LEMMA Limits ==
  /\ HourLength \in Nat /\ HourLength > 0 /\ LatestLimit \in Nat
  /\ RecentLogs \in Nat /\ RecentLogs <= LatestLimit
  /\ CountryLogs \in Nat /\ CountryLogs <= LatestLimit
  /\ FailureWindow \in Nat /\ FailureWindow <= HourLength
  BY AuditAssumption, EnginesAssumption

(* Rows of request_logs, as far as their order goes.                       *)
Rows(S) == IsFiniteSet(S) /\ \A l \in S : l.at \in Int /\ l.id \in Int

(* The order of the history.                                               *)
LEMMA OrderOfRows ==
  ASSUME NEW S, Rows(S)
  PROVE  /\ \A k \in S : ~Later(k, k)
         /\ \A k, l \in S : Later(k, l) => ~Later(l, k) /\ k.at >= l.at
         /\ \A j, k, l \in S : Later(j, k) /\ Later(k, l) => Later(j, l)
  BY DEF Rows, Later

(* Some row is the latest of those there are.                              *)
LEMMA LatestExists ==
  ASSUME NEW S, Rows(S), NEW T \in SUBSET S, T # {}
  PROVE  \E k \in T : \A j \in T : ~Later(j, k)
<1> DEFINE Above(k) == {j \in T : Later(j, k)}
           Aboves == {Above(k) : k \in T}
<1>1. IsFiniteSet(T)
  BY FS_Subset DEF Rows
<1>2. IsWellFoundedOn(StrictSubsetOrdering(T), SUBSET T)
  BY <1>1, FS_StrictSubsetOrderingWellFounded, FS_FiniteSubsetsOfFinite
<1>3. Aboves \subseteq SUBSET T /\ Aboves # {}
  OBVIOUS
<1>4. \E x \in Aboves : \A y \in Aboves : <<y, x>> \notin StrictSubsetOrdering(T)
  <2> HIDE DEF Aboves
  <2> QED
    BY <1>2, <1>3, WFMin
<1>5. PICK k \in T : \A y \in Aboves :
                       <<y, Above(k)>> \notin StrictSubsetOrdering(T)
  BY <1>4
<1>6. ASSUME NEW j \in T, Later(j, k) PROVE FALSE
  <2>1. j \in S /\ k \in S
    OBVIOUS
  <2>2. Above(j) \subseteq Above(k)
    BY <1>6, <2>1, OrderOfRows
  <2>3. j \in Above(k) /\ j \notin Above(j)
    BY <1>6, <2>1, OrderOfRows
  <2>4. <<Above(j), Above(k)>> \in StrictSubsetOrdering(T)
    <3> HIDE DEF Above
    <3>1. Above(j) \subseteq T /\ Above(k) \subseteq T
      BY DEF Above
    <3>2. Above(j) # Above(k)
      BY <2>3
    <3> QED
      BY <2>2, <3>1, <3>2 DEF StrictSubsetOrdering
  <2> QED
    BY <1>5, <2>4
<1> QED
  BY <1>6

(* Some rows are finite and no more than all.                              *)
LEMMA FewerRows ==
  ASSUME NEW S, IsFiniteSet(S), NEW T \in SUBSET S
  PROVE  /\ IsFiniteSet(T) /\ Cardinality(T) \in Nat
         /\ Cardinality(S) \in Nat /\ Cardinality(T) <= Cardinality(S)
<1>1. IsFiniteSet(T) /\ Cardinality(T) <= Cardinality(S)
  BY FS_Subset
<1> QED
  BY <1>1, FS_CardinalityType

(* The latest n of a history that has the latest m and no others than past *)
(* rows are the latest n of the past.                                      *)
LEMMA LatestOf ==
  ASSUME NEW S, Rows(S), NEW m \in Nat, NEW n \in Nat, n <= m,
         NEW H \in SUBSET S, Latest(S, m) \subseteq H
  PROVE  Latest(H, n) = Latest(S, n)
<1> DEFINE Over(T, l) == {k \in T : Later(k, l)}
<1>1. \A T : Latest(T, n) = {l \in T : Cardinality(Over(T, l)) < n}
  BY DEF Latest
<1>2. \A l : /\ Cardinality(Over(S, l)) \in Nat /\ Cardinality(Over(H, l)) \in Nat
             /\ Cardinality(Over(H, l)) <= Cardinality(Over(S, l))
  <2> SUFFICES ASSUME NEW l
               PROVE  /\ Cardinality(Over(S, l)) \in Nat
                      /\ Cardinality(Over(H, l)) \in Nat
                      /\ Cardinality(Over(H, l)) <= Cardinality(Over(S, l))
    OBVIOUS
  <2>1. Over(S, l) \subseteq S /\ Over(H, l) \subseteq Over(S, l)
    OBVIOUS
  <2>2. IsFiniteSet(S)
    BY DEF Rows
  <2> HIDE DEF Over
  <2>3. IsFiniteSet(Over(S, l))
    BY <2>1, <2>2, FewerRows
  <2> QED
    BY <2>1, <2>3, FewerRows
<1>3. ASSUME NEW l \in Latest(S, n) PROVE l \in Latest(H, n)
  <2>1. l \in S /\ Cardinality(Over(S, l)) < n
    BY <1>1, <1>3
  <2>2. Cardinality(Over(S, l)) < m
    <3> HIDE DEF Over
    <3> QED
      BY <1>2, <2>1
  <2>3. l \in H
    BY <2>1, <2>2 DEF Latest
  <2>4. Cardinality(Over(H, l)) < n
    BY <1>2, <2>1
  <2> QED
    BY <1>1, <2>3, <2>4
<1>4. ASSUME NEW l \in Latest(H, n) PROVE l \in Latest(S, n)
  <2>1. l \in H /\ l \in S /\ Cardinality(Over(H, l)) < n
    BY <1>1, <1>4
  <2>2. Over(S, l) \subseteq H
    <3> SUFFICES ASSUME Over(S, l) \ H # {} PROVE FALSE
      OBVIOUS
    <3>1. (Over(S, l) \ H) \in SUBSET S
      OBVIOUS
    <3>2. PICK k \in Over(S, l) \ H : \A j \in Over(S, l) \ H : ~Later(j, k)
      <4> HIDE DEF Over
      <4> QED
        BY <3>1, LatestExists
    <3>3. k \in S /\ Later(k, l)
      OBVIOUS
    <3>4. Over(S, k) \subseteq Over(H, l)
      <4> SUFFICES ASSUME NEW j \in S, Later(j, k) PROVE j \in H /\ Later(j, l)
        OBVIOUS
      <4>1. Later(j, l)
        BY <2>1, <3>3, OrderOfRows
      <4> QED
        BY <3>2, <4>1
    <3>5. Cardinality(Over(S, k)) <= Cardinality(Over(H, l))
      <4>1. Over(H, l) \subseteq S /\ IsFiniteSet(S)
        BY DEF Rows
      <4> HIDE DEF Over
      <4>2. IsFiniteSet(Over(H, l))
        BY <4>1, FewerRows
      <4> QED
        BY <3>4, <4>2, FewerRows
    <3>6. Cardinality(Over(S, k)) < m
      <4> HIDE DEF Over
      <4> QED
        BY <1>2, <2>1, <3>5
    <3>7. k \in H
      BY <3>3, <3>6 DEF Latest
    <3> QED
      BY <3>2, <3>7
  <2>3. Over(S, l) = Over(H, l)
    BY <2>2
  <2> QED
    BY <1>1, <2>1, <2>3
<1> QED
  BY <1>3, <1>4

(* A history that has the last hour before a time has every shorter window *)
(* before it.                                                              *)
LEMMA WithinOf ==
  ASSUME NEW S, Rows(S), NEW time \in Int, NEW w \in Nat, w <= HourLength,
         NEW H \in SUBSET S, RecentByTime(S, time) \subseteq H
  PROVE  Within(H, time, w) = Within(S, time, w)
<1>1. \A l \in S : time - l.at <= w => l \in H
  <2> SUFFICES ASSUME NEW l \in S, time - l.at <= w PROVE l \in H
    OBVIOUS
  <2>1. l.at >= time - HourLength
    BY Limits DEF Rows
  <2> QED
    BY <2>1 DEF RecentByTime
<1> QED
  BY <1>1 DEF Within

(* The risk engine looks at the windows and the latest only.               *)
LEMMA SameSignals ==
  ASSUME NEW q, NEW H, NEW R, NEW e, NEW t,
         Within(H, e, FailureWindow) = Within(R, t, FailureWindow),
         Within(H, e, HourLength) = Within(R, t, HourLength),
         Latest(H, RecentLogs) = Latest(R, RecentLogs),
         Latest(H, CountryLogs) = Latest(R, CountryLogs)
  PROVE  RiskDecision(q, H, e) = RiskDecision(q, R, t)
<1>1. Signals(q, H, e) = Signals(q, R, t)
  BY DEF Signals
<1> QED
  BY <1>1 DEF RiskDecision

(* The engines look at these fields of a request only.                     *)
LEMMA SameRequest ==
  ASSUME NEW q, NEW d, NEW H, NEW P, NEW C, NEW time,
         q.type = d.type, q.device = d.device, q.ip = d.ip,
         q.country = d.country, q.amount = d.amount,
         q.new_owner = d.new_owner
  PROVE  Decide(q, H, P, C, time) = Decide(d, H, P, C, time)
<1>1. Signals(q, H, time) = Signals(d, H, time)
  BY DEF Signals
<1>2. PICK risk : risk = RiskDecision(q, H, time)
  OBVIOUS
<1>3. RiskDecision(d, H, time) = risk
  BY <1>1, <1>2 DEF RiskDecision
<1>4. Deciding(P, q, risk, time) = Deciding(P, d, risk, time)
  BY SameDeciding
<1>5. OwnershipDenied(q) = OwnershipDenied(d)
  BY DEF OwnershipDenied
<1> QED
  BY <1>2, <1>3, <1>4, <1>5 DEF Decide

(* The policy that decided decides again when it is the only one, as long  *)
(* as the hour is the same and it is still in force.                       *)
LEMMA DecidingAgain ==
  ASSUME NEW P, NEW q, NEW risk, NEW e, NEW t, HourOf(t) = HourOf(e),
         NEW D, D = Deciding(P, q, risk, e), \A p \in D : InForce(p, t)
  PROVE  Deciding(D, q, risk, t) = D
<1>1. Candidates(D, q, risk, t) = D
  BY DEF Candidates, Deciding
<1>2. \A p \in D : \A s \in D \ {p} : Precedes(p, s)
  BY DEF Deciding
<1> QED
  BY <1>1, <1>2 DEF Deciding

-----------------------------------------------------------------------------
(* Fewer decisions in one unit of time than the second SELECT reads; or    *)
(* not more of them ever than one decision can miss.                       *)
Apart(L) == \A l \in L : Cardinality({k \in L : k.at = l.at}) < LatestLimit

Few == IsFiniteSet(Requests) /\ Cardinality(Requests) <= LatestLimit + 1

(* The logs that a decision saw, found again by their ids.                 *)
Seen(d, L) == {k \in L : k.id \in d.seen}

(* What a decision was taken from.                                         *)
EvaluatedOK(d, L) ==
    /\ d.evaluated \in Int
    /\ \A i \in d.seen : \E k \in L : k.id = i
    /\ \E H \in SUBSET Seen(d, L) :
         /\ Latest(Seen(d, L), LatestLimit) \subseteq H
         /\ Few \/ Apart(Seen(d, L))
              => RecentByTime(Seen(d, L), d.evaluated) \subseteq H
         /\ d.verdict = Decide(d, H, d.policies, d.config, d.evaluated)

(* The replay of such a decision, when the rest of it may be neglected.    *)
LEMMA LogReplays ==
  ASSUME NEW L, Rows(L), \A k, m \in L : k.id = m.id => k = m,
         NEW l \in L, EvaluatedOK(l, L), Few \/ Apart(L),
         l.seen = {k.id : k \in {k \in L : k.at < l.at}},
         HourOf(l.at) = HourOf(l.evaluated),
         Within(LoggedBefore(L, l.at), l.at, FailureWindow)
           = Within(LoggedBefore(L, l.at), l.evaluated, FailureWindow),
         Within(LoggedBefore(L, l.at), l.at, HourLength)
           = Within(LoggedBefore(L, l.at), l.evaluated, HourLength),
         \A p \in l.verdict.deciding : InForce(p, l.at),
         ~OwnershipDenied(l)
  PROVE  Replay(l, L) = l.verdict
<1>1. PICK past : past = LoggedBefore(L, l.at)
  OBVIOUS
<1>2. PICK t \in Int, e \in Int : t = l.at /\ e = l.evaluated
  BY DEF Rows, EvaluatedOK
<1>3. past \subseteq L /\ Rows(past) /\ IsFiniteSet(L)
  BY <1>1, FS_Subset DEF LoggedBefore, Rows
<1>4. Seen(l, L) = past
  BY <1>1 DEF Seen, LoggedBefore
<1>5. Few \/ Apart(past)
  <2> SUFFICES ASSUME Apart(L), NEW k \in past
               PROVE  Cardinality({j \in past : j.at = k.at}) < LatestLimit
    BY DEF Apart
  <2>1. PICK n : n = Cardinality({j \in L : j.at = k.at}) /\ n < LatestLimit
    BY <1>3 DEF Apart
  <2>2. {j \in past : j.at = k.at} \subseteq {j \in L : j.at = k.at}
        /\ {j \in L : j.at = k.at} \subseteq L
    BY <1>3
  <2>3. IsFiniteSet({j \in L : j.at = k.at})
    BY <1>3, <2>2, FewerRows
  <2>4. Cardinality({j \in past : j.at = k.at}) <= n
        /\ Cardinality({j \in past : j.at = k.at}) \in Nat /\ n \in Nat
    BY <2>1, <2>2, <2>3, FewerRows
  <2> QED
    BY <2>1, <2>4, Limits
<1>6. PICK H \in SUBSET past :
        /\ Latest(past, LatestLimit) \subseteq H
        /\ RecentByTime(past, e) \subseteq H
        /\ l.verdict = Decide(l, H, l.policies, l.config, e)
  BY <1>2, <1>4, <1>5 DEF EvaluatedOK
<1>7. PICK R : R = RiskHistory(L, t)
  OBVIOUS
<1>8. R \in SUBSET past /\ Latest(past, LatestLimit) \subseteq R
      /\ RecentByTime(past, t) \subseteq R
  BY <1>1, <1>2, <1>7 DEF RiskHistory, RecentByTime, Latest
<1>9. /\ Within(H, e, FailureWindow) = Within(past, e, FailureWindow)
      /\ Within(H, e, HourLength) = Within(past, e, HourLength)
  BY <1>3, <1>6, Limits, WithinOf
<1>10. /\ Within(R, t, FailureWindow) = Within(past, t, FailureWindow)
       /\ Within(R, t, HourLength) = Within(past, t, HourLength)
  BY <1>3, <1>8, Limits, WithinOf
<1>11. /\ Latest(H, RecentLogs) = Latest(past, RecentLogs)
       /\ Latest(H, CountryLogs) = Latest(past, CountryLogs)
  BY <1>3, <1>6, Limits, LatestOf
<1>12. /\ Latest(R, RecentLogs) = Latest(past, RecentLogs)
       /\ Latest(R, CountryLogs) = Latest(past, CountryLogs)
  BY <1>3, <1>8, Limits, LatestOf
<1>13. PICK risk : risk = RiskDecision(l, H, e)
  OBVIOUS
<1>14. RiskDecision(l, R, t) = risk
  <2>1. /\ Within(H, e, FailureWindow) = Within(R, t, FailureWindow)
        /\ Within(H, e, HourLength) = Within(R, t, HourLength)
    BY <1>1, <1>2, <1>9, <1>10
  <2>2. /\ Latest(H, RecentLogs) = Latest(R, RecentLogs)
        /\ Latest(H, CountryLogs) = Latest(R, CountryLogs)
    BY <1>11, <1>12
  <2> QED
    BY <1>13, <2>1, <2>2, SameSignals
<1>15. PICK D : D = Deciding(l.policies, l, risk, e)
  OBVIOUS
<1>16. PICK allowed : allowed = ResolveAllowed(risk, D)
  OBVIOUS
<1>17. l.verdict = Verdict(ResolveAllowed(risk, D) /\ ~OwnershipDenied(l),
                           risk, D,
                           DecisionPath(l.config, D # {},
                             ResolveAllowed(risk, D) /\ ~OwnershipDenied(l)))
  BY <1>6, <1>13, <1>15 DEF Decide
<1>18. (ResolveAllowed(risk, D) /\ ~OwnershipDenied(l)) = ResolveAllowed(risk, D)
  BY DEF ResolveAllowed
<1>19. l.verdict = Verdict(ResolveAllowed(risk, D), risk, D,
                           DecisionPath(l.config, D # {},
                                        ResolveAllowed(risk, D)))
  BY <1>17, <1>18
<1>20. l.verdict.deciding = D
  BY <1>19 DEF Verdict
<1>21. Deciding(D, l, risk, t) = D
  BY <1>2, <1>15, <1>20, DecidingAgain
<1> QED
  BY <1>2, <1>7, <1>14, <1>19, <1>20, <1>21 DEF Replay

-----------------------------------------------------------------------------
(* The log that is between its stamp and its commit; and the logs of the   *)
(* last hour that became visible after the first SELECT of a request.      *)
Stamping == {draft[r] : r \in {s \in Requests : step[s] = "stamped"}}

Missed(r) ==
    {k \in logs : k.at >= draft[r].at - HourLength} \ draft[r].recent

Done == {r \in Requests : step[r] = "done"}

(* Ids are given in the order in which logs become visible.                *)
RowsOK ==
    /\ Rows(logs)
    /\ nextId \in Int
    /\ \A k \in logs : k.id < nextId
    /\ \A k, m \in logs : k.id = m.id => k = m
    /\ \A r \in Requests : step[r] = "stamped" =>
         /\ draft[r].id \in Int /\ draft[r].id < nextId
         /\ \A k \in logs : k.id < draft[r].id

(* What the first SELECT missed is later than all that it read, and stamped *)
(* no earlier than its reference time, but for one that was on its way.    *)
ReadOK(r) ==
    step[r] = "reading" =>
      /\ draft[r].at \in Int /\ draft[r].at <= now
      /\ draft[r].recent \subseteq LoggedUntil(logs, draft[r].at)
      /\ \A k \in draft[r].recent, m \in Missed(r) : Later(m, k)
      /\ \A k, m \in Missed(r) \cup Stamping :
           k.at < draft[r].at /\ m.at < draft[r].at => k = m

(* A decision has overlooked one log at most, or none before the one that  *)
(* is on its way.                                                          *)
DecidedOK(r) ==
    step[r] = "decided" =>
      /\ draft[r].at \in Int /\ draft[r].at <= now
      /\ \A k, m \in Overlooked(r) \cup Stamping :
           k.at < draft[r].at /\ m.at < draft[r].at => k = m

JInv ==
    /\ RowsOK
    /\ IsFiniteSet(Requests) => Cardinality(logs) <= Cardinality(Done)
    /\ \A r \in Requests : ReadOK(r) /\ DecidedOK(r)
    /\ \A r \in Requests : step[r] \in {"decided", "stamped"}
                             => EvaluatedOK(draft[r], logs)
    /\ \A l \in logs : EvaluatedOK(l, logs)

-----------------------------------------------------------------------------
(* The two SELECTs together read the last hour before the second, unless   *)
(* many decisions came between them.                                       *)
LEMMA HistoryWhole ==
  ASSUME IInv, JInv, NEW r \in Requests, step[r] = "reading",
         NEW past, past = LoggedUntil(logs, draft[r].at),
         Few \/ Apart(past)
  PROVE  RecentByTime(past, now)
           \subseteq draft[r].recent \cup Latest(past, LatestLimit)
<1>1. PICK t, recent : t = draft[r].at /\ recent = draft[r].recent
  OBVIOUS
<1>2. /\ now \in Int /\ t \in Int /\ t <= now
      /\ recent \subseteq past
      /\ \A k \in recent, m \in Missed(r) : Later(m, k)
      /\ \A k, m \in Missed(r) : k.at < t /\ m.at < t => k = m
      /\ Missed(r) = {k \in logs : k.at >= t - HourLength} \ recent
  BY <1>1 DEF JInv, IInv, ReadOK, Missed
<1>3. Rows(logs) /\ IsFiniteSet(logs) /\ past \subseteq logs
      /\ \A k \in past : k.at <= t /\ k.at \in Int
  BY <1>1 DEF JInv, RowsOK, Rows, LoggedUntil
<1>4. SUFFICES ASSUME NEW m \in past, m.at >= now - HourLength, m \notin recent
               PROVE  m \in Latest(past, LatestLimit)
  BY <1>1 DEF RecentByTime
<1>5. PICK B : B = {k \in past : Later(k, m)}
  OBVIOUS
<1>6. m \in Missed(r) /\ m \in logs /\ m.at \in Int
  BY <1>2, <1>3, <1>4, Limits
<1>7. B \subseteq Missed(r) /\ m \notin B
  <2>1. m \notin B
    BY <1>3, <1>5, <1>6, OrderOfRows
  <2>2. ASSUME NEW k \in B PROVE k \in Missed(r)
    <3>1. k \in logs /\ k.at \in Int /\ Later(k, m)
      BY <1>3, <1>5
    <3>2. k.at >= m.at /\ ~Later(m, k)
      BY <1>3, <1>6, <3>1, OrderOfRows
    <3>3. k \notin recent
      BY <1>2, <1>6, <3>2
    <3>4. k.at >= t - HourLength
      BY <1>2, <1>4, <1>6, <3>1, <3>2, Limits
    <3> QED
      BY <1>2, <3>1, <3>3, <3>4
  <2> QED
    BY <2>1, <2>2
<1>8. IsFiniteSet(B) /\ Cardinality(B) \in Nat
      /\ IsFiniteSet(B \cup {m}) /\ Cardinality(B \cup {m}) = Cardinality(B) + 1
  <2>1. IsFiniteSet(B) /\ Cardinality(B) \in Nat
    BY <1>3, <1>5, FewerRows
  <2> QED
    BY <1>7, <2>1, FS_AddElement
<1>9. Cardinality(B) < LatestLimit
  <2>1. CASE Few
    <3>1. B \cup {m} \subseteq logs
      BY <1>3, <1>5, <1>6
    <3>2. Cardinality(B \cup {m}) <= Cardinality(logs)
          /\ Cardinality(logs) \in Nat
      BY <1>3, <3>1, FewerRows
    <3>3. Cardinality(logs) <= Cardinality(Done) /\ IsFiniteSet(Requests)
      BY <2>1 DEF Few, JInv
    <3>4. Done \subseteq Requests \ {r}
      BY DEF Done
    <3>5. IsFiniteSet(Requests \ {r})
          /\ Cardinality(Requests \ {r}) = Cardinality(Requests) - 1
      BY <3>3, FS_RemoveElement
    <3>6. Cardinality(Done) <= Cardinality(Requests) - 1
          /\ Cardinality(Done) \in Nat
      BY <3>4, <3>5, FewerRows
    <3>7. Cardinality(Requests) \in Nat
          /\ Cardinality(Requests) <= LatestLimit + 1
      BY <2>1, <3>3, FS_CardinalityType DEF Few
    <3> QED
      BY <1>8, <3>2, <3>3, <3>6, <3>7, Limits
  <2>2. CASE Apart(past)
    <3>1. PICK E : E = {k \in past : k.at = t}
      OBVIOUS
    <3>2. IsFiniteSet(E) /\ Cardinality(E) \in Nat
      BY <1>3, <3>1, FewerRows
    <3>3. \E x : B \cup {m} \subseteq E \cup {x}
      <4>1. CASE B \cup {m} \subseteq E
        BY <4>1
      <4>2. CASE ~(B \cup {m} \subseteq E)
        <5>1. PICK x \in B \cup {m} : x \notin E
          BY <4>2
        <5>2. x \in Missed(r) /\ x.at < t
          <6>1. x \in past /\ x \in Missed(r)
            BY <1>4, <1>5, <1>6, <1>7, <5>1
          <6>2. x.at <= t /\ x.at \in Int /\ x.at # t
            BY <1>3, <3>1, <5>1, <6>1
          <6> QED
            BY <1>2, <6>1, <6>2
        <5>3. \A y \in B \cup {m} : y \notin E => y = x
          BY <1>2, <1>3, <1>4, <1>5, <1>6, <1>7, <3>1, <5>2
        <5> QED
          BY <5>3
      <4> QED
        BY <4>1, <4>2
    <3>4. PICK x : B \cup {m} \subseteq E \cup {x}
      BY <3>3
    <3>5. IsFiniteSet(E \cup {x}) /\ Cardinality(E \cup {x}) <= Cardinality(E) + 1
      BY <3>2, FS_AddElement
    <3>6. Cardinality(B \cup {m}) <= Cardinality(E \cup {x})
          /\ Cardinality(E \cup {x}) \in Nat
      BY <3>4, <3>5, FewerRows
    <3>7. Cardinality(E) < LatestLimit
      <4>1. CASE E = {}
        <5>1. Cardinality(E) = 0
          BY <4>1, FS_EmptySet, Zenon
        <5>2. PICK n : n = Cardinality({k \in past : k.at = m.at})
                       /\ n < LatestLimit
          BY <1>4, <2>2 DEF Apart
        <5>3. n \in Nat
          BY <1>3, <5>2, FewerRows
        <5> QED
          BY <5>1, <5>2, <5>3, Limits
      <4>2. CASE E # {}
        <5>1. PICK k \in past : k.at = t
          BY <3>1, <4>2
        <5> QED
          BY <2>2, <3>1, <5>1 DEF Apart
      <4> QED
        BY <4>1, <4>2
    <3> QED
      BY <1>8, <3>2, <3>5, <3>6, <3>7, Limits
  <2> QED
    BY <2>1, <2>2
<1> QED
  BY <1>4, <1>5, <1>9 DEF Latest

-----------------------------------------------------------------------------
(* A log that becomes visible changes nothing for the decisions before.    *)
LEMMA SeenGrows ==
  ASSUME NEW d, NEW L, NEW m, EvaluatedOK(d, L), \A k \in L : k.id # m.id
  PROVE  EvaluatedOK(d, L \cup {m})
<1>1. m.id \notin d.seen
  BY DEF EvaluatedOK
<1>2. Seen(d, L \cup {m}) = Seen(d, L)
  BY <1>1 DEF Seen
<1> QED
  BY <1>2 DEF EvaluatedOK

(* Nor does the stamp, which gives the draft its id and time.              *)
LEMMA SameEvaluated ==
  ASSUME NEW d, NEW e, NEW L, EvaluatedOK(d, L),
         e.type = d.type, e.device = d.device, e.ip = d.ip,
         e.country = d.country, e.amount = d.amount,
         e.new_owner = d.new_owner, e.config = d.config,
         e.verdict = d.verdict, e.evaluated = d.evaluated,
         e.policies = d.policies, e.seen = d.seen
  PROVE  EvaluatedOK(e, L)
<1>1. Seen(e, L) = Seen(d, L)
  BY DEF Seen
<1>2. \A H : Decide(e, H, e.policies, e.config, e.evaluated)
               = Decide(d, H, d.policies, d.config, d.evaluated)
  BY SameRequest
<1> QED
  BY <1>1, <1>2 DEF EvaluatedOK

(* Evaluate makes such a decision.                                         *)
LEMMA EvaluateSees ==
  ASSUME IInv, JInv, NEW r \in Requests, Evaluate(r)
  PROVE  EvaluatedOK(draft'[r], logs)
<1>1. PICK q, past, H, v :
        /\ past = LoggedUntil(logs, draft[r].at)
        /\ H = draft[r].recent \cup Latest(past, LatestLimit)
        /\ v = Decide(q, H, policies, config, now)
        /\ draft' = [draft EXCEPT ![r] =
             [id |-> 0, at |-> draft[r].at, allowed |-> v.allowed,
              type |-> q.type, device |-> q.device, ip |-> q.ip,
              country |-> q.country, amount |-> q.amount,
              new_owner |-> q.new_owner, config |-> config, verdict |-> v,
              evaluated |-> now, policies |-> policies,
              seen |-> {l.id : l \in past}]]
  BY DEF Evaluate
<1>2. PICK d : d = draft'[r]
  OBVIOUS
<1>3. /\ d.policies = policies /\ d.evaluated = now /\ d.verdict = v
      /\ d.type = q.type /\ d.device = q.device /\ d.country = q.country
      /\ d.amount = q.amount /\ d.ip = q.ip /\ d.new_owner = q.new_owner
      /\ d.config = config /\ d.seen = {l.id : l \in past}
  BY <1>1, <1>2 DEF IInv
<1>4. past \subseteq logs
  BY <1>1 DEF LoggedUntil
<1>5. Seen(d, logs) = past
  BY <1>3, <1>4 DEF Seen, JInv, RowsOK
<1>6. step[r] = "reading"
  BY DEF Evaluate
<1>7. H \subseteq past
  BY <1>1, <1>6 DEF JInv, ReadOK, Latest
<1>8. Few \/ Apart(past) => RecentByTime(past, now) \subseteq H
  BY <1>1, <1>6, HistoryWhole
<1>9. v = Decide(d, H, policies, config, now)
  BY <1>1, <1>3, SameRequest
<1>10. now \in Int /\ \A i \in d.seen : \E k \in logs : k.id = i
  BY <1>3, <1>4 DEF IInv
<1>11. Latest(past, LatestLimit) \subseteq H
  BY <1>1
<1>12. EvaluatedOK(d, logs)
  BY <1>3, <1>5, <1>7, <1>8, <1>9, <1>10, <1>11 DEF EvaluatedOK
<1> QED
  BY <1>2, <1>12

(* Stamp keeps it.                                                         *)
LEMMA StampSees ==
  ASSUME IInv, JInv, NEW r \in Requests, Stamp(r)
  PROVE  /\ EvaluatedOK(draft'[r], logs)
         /\ draft'[r].id = nextId /\ draft'[r].at = now
         /\ \A s \in Requests : s # r => draft'[s] = draft[s]
<1>1. PICK d, i, n : d = draft[r] /\ i = nextId /\ n = now
  OBVIOUS
<1>2. IsDraft(d) /\ EvaluatedOK(d, logs)
  BY <1>1 DEF Stamp, IInv, JInv
<1>3. draft' = [draft EXCEPT ![r] = [d EXCEPT !.id = i, !.at = n]]
  BY <1>1 DEF Stamp, Stamped
<1>4. PICK e : e = [d EXCEPT !.id = i, !.at = n]
  OBVIOUS
<1>5. draft'[r] = e /\ \A s \in Requests : s # r => draft'[s] = draft[s]
  BY <1>3, <1>4 DEF IInv
<1>6. /\ e.type = d.type /\ e.device = d.device /\ e.ip = d.ip
      /\ e.country = d.country /\ e.amount = d.amount
      /\ e.new_owner = d.new_owner /\ e.config = d.config
      /\ e.verdict = d.verdict /\ e.evaluated = d.evaluated
      /\ e.policies = d.policies /\ e.seen = d.seen
      /\ e.id = i /\ e.at = n
  BY <1>2, <1>4 DEF IsDraft
<1>7. EvaluatedOK(e, logs)
  BY <1>2, <1>6, SameEvaluated
<1> QED
  BY <1>1, <1>5, <1>6, <1>7

-----------------------------------------------------------------------------
(* At the start there is nothing to miss.                                  *)
LEMMA NothingMissed == Init => JInv
<1> SUFFICES ASSUME Init PROVE JInv
  OBVIOUS
<1>1. /\ logs = {} /\ nextId = 1
      /\ \A r \in Requests : step[r] = "idle"
  BY DEF Init
<1>2. IsFiniteSet(logs) /\ Cardinality(logs) = 0
  <2>1. IsFiniteSet({}) /\ Cardinality({}) = 0
    BY FS_EmptySet
  <2> QED
    BY <1>1, <2>1, Zenon
<1>3. IsFiniteSet(Requests) => Cardinality(logs) <= Cardinality(Done)
  <2>1. SUFFICES ASSUME IsFiniteSet(Requests) PROVE 0 <= Cardinality(Done)
    BY <1>2
  <2>2. Done \in SUBSET Requests
    BY DEF Done
  <2>3. Cardinality(Done) \in Nat
    BY <2>1, <2>2, FewerRows
  <2> QED
    BY <2>3
<1>4. RowsOK
  BY <1>1, <1>2 DEF RowsOK, Rows
<1> QED
  BY <1>1, <1>3, <1>4 DEF JInv, ReadOK, DecidedOK

(* What a request has read stays good when others go on.                   *)
LEMMA OtherRead ==
  ASSUME IInv, JInv, NEW r \in Requests,
         step'[r] = step[r], draft'[r] = draft[r],
         now' \in Int, now <= now', logs \subseteq logs',
         \A m \in logs' \ logs : \A k \in logs : Later(m, k),
         \A k \in (logs' \ logs) \cup Stamping' :
           k \in Stamping \/ (k.at \in Int /\ now <= k.at)
  PROVE  ReadOK(r)'
<1> SUFFICES ASSUME step[r] = "reading" PROVE ReadOK(r)'
  BY DEF ReadOK
<1>1. PICK d, t : d = draft[r] /\ t = d.at
  OBVIOUS
<1>2. PICK M, N : M = Missed(r) /\ N = Missed(r)'
  OBVIOUS
<1>3. /\ M = {k \in logs : k.at >= t - HourLength} \ d.recent
      /\ N = {k \in logs' : k.at >= t - HourLength} \ d.recent
  BY <1>1, <1>2 DEF Missed
<1>4. /\ t \in Int /\ t <= now
      /\ d.recent \subseteq LoggedUntil(logs, t)
      /\ \A k \in d.recent, m \in M : Later(m, k)
      /\ \A k, m \in M \cup Stamping : k.at < t /\ m.at < t => k = m
  BY <1>1, <1>2 DEF JInv, ReadOK
<1>5. now \in Int
  BY DEF IInv
<1>6. t <= now'
  BY <1>4, <1>5
<1>7. d.recent \subseteq LoggedUntil(logs', t)
  BY <1>4 DEF LoggedUntil
<1>8. \A k \in d.recent, m \in N : Later(m, k)
  <2> SUFFICES ASSUME NEW k \in d.recent, NEW m \in N PROVE Later(m, k)
    OBVIOUS
  <2>1. k \in logs
    BY <1>4 DEF LoggedUntil
  <2>2. CASE m \in logs
    BY <1>3, <1>4, <2>2
  <2>3. CASE m \notin logs
    BY <1>3, <2>1, <2>3
  <2> QED
    BY <2>2, <2>3
<1>9. \A k \in N \cup Stamping' : k.at < t => k \in M \cup Stamping
  <2> SUFFICES ASSUME NEW k \in N \cup Stamping', k.at < t
               PROVE  k \in M \cup Stamping
    OBVIOUS
  <2>1. CASE k \in N /\ k \in logs
    BY <1>3, <2>1
  <2>2. CASE k \in (logs' \ logs) \cup Stamping'
    BY <1>4, <1>5, <2>2
  <2> QED
    BY <1>3, <2>1, <2>2
<1>10. \A k, m \in N \cup Stamping' : k.at < t /\ m.at < t => k = m
  BY <1>4, <1>9
<1> QED
  BY <1>1, <1>2, <1>4, <1>6, <1>7, <1>8, <1>10 DEF ReadOK

(* Nor does it overlook more.                                              *)
LEMMA OtherDecided ==
  ASSUME IInv, JInv, NEW r \in Requests,
         step'[r] = step[r], draft'[r] = draft[r],
         now' \in Int, now <= now',
         \A k \in (logs' \ logs) \cup Stamping' :
           k \in Stamping \/ (k.at \in Int /\ now <= k.at)
  PROVE  DecidedOK(r)'
<1> SUFFICES ASSUME step[r] = "decided" PROVE DecidedOK(r)'
  BY DEF DecidedOK
<1>1. PICK d, t : d = draft[r] /\ t = d.at
  OBVIOUS
<1>2. PICK M, N : M = Overlooked(r) /\ N = Overlooked(r)'
  OBVIOUS
<1>3. /\ M = {k \in logs : k.at < t /\ k.id \notin d.seen}
      /\ N = {k \in logs' : k.at < t /\ k.id \notin d.seen}
  BY <1>1, <1>2 DEF Overlooked
<1>4. /\ t \in Int /\ t <= now /\ now \in Int
      /\ \A k, m \in M \cup Stamping : k.at < t /\ m.at < t => k = m
  BY <1>1, <1>2 DEF JInv, IInv, DecidedOK
<1>5. t <= now'
  BY <1>4
<1>6. \A k \in N \cup Stamping' : k.at < t => k \in M \cup Stamping
  <2> SUFFICES ASSUME NEW k \in N \cup Stamping', k.at < t
               PROVE  k \in M \cup Stamping
    OBVIOUS
  <2>1. CASE k \in N /\ k \in logs
    BY <1>3, <2>1
  <2>2. CASE k \in (logs' \ logs) \cup Stamping'
    BY <1>4, <2>2
  <2> QED
    BY <1>3, <2>1, <2>2
<1>7. \A k, m \in N \cup Stamping' : k.at < t /\ m.at < t => k = m
  BY <1>4, <1>6
<1> QED
  BY <1>1, <1>2, <1>4, <1>5, <1>7 DEF DecidedOK

(* A step that moves no log and no other request.                          *)
LEMMA NoLogStep ==
  ASSUME IInv, JInv, logs' = logs, nextId' = nextId,
         now' \in Int, now <= now',
         step' = step, draft' = draft
  PROVE  JInv'
<1>1. Stamping' = Stamping /\ Done' = Done
  BY DEF Stamping, Done
<1>2. ASSUME NEW r \in Requests PROVE ReadOK(r)' /\ DecidedOK(r)'
  <2>1. logs' \ logs = {} /\ logs \subseteq logs'
    OBVIOUS
  <2>2. \A k \in (logs' \ logs) \cup Stamping' :
          k \in Stamping \/ (k.at \in Int /\ now <= k.at)
    BY <1>1, <2>1
  <2> QED
    BY <2>1, <2>2, OtherRead, OtherDecided
<1>3. RowsOK'
  BY DEF JInv, RowsOK
<1>4. \A r \in Requests : step'[r] \in {"decided", "stamped"}
                            => EvaluatedOK(draft'[r], logs')
  BY DEF JInv
<1>5. \A l \in logs' : EvaluatedOK(l, logs')
  BY DEF JInv
<1>6. (IsFiniteSet(Requests) => Cardinality(logs) <= Cardinality(Done))'
  BY <1>1 DEF JInv
<1> QED
  BY <1>2, <1>3, <1>4, <1>5, <1>6 DEF JInv

(* The step of one request, seen from the others.                          *)
Moves(r) ==
    \A s \in Requests : s # r => step'[s] = step[s] /\ draft'[s] = draft[s]

(* A request that is not the one that moves reads as before.               *)
LEMMA OthersRead ==
  ASSUME IInv, JInv, NEW r \in Requests, Moves(r), now' = now,
         logs \subseteq logs',
         \A m \in logs' \ logs : \A k \in logs : Later(m, k),
         \A k \in (logs' \ logs) \cup Stamping' :
           k \in Stamping \/ (k.at \in Int /\ now <= k.at),
         NEW s \in Requests, s # r
  PROVE  ReadOK(s)' /\ DecidedOK(s)'
<1>1. now' \in Int /\ now <= now'
  BY DEF IInv
<1> QED
  BY <1>1, OtherRead, OtherDecided DEF Moves

(* The first SELECT.                                                       *)
LEMMA ReadKeeps ==
  ASSUME IInv, JInv, NEW r \in Requests, ReadRecent(r)
  PROVE  JInv'
<1>1. PICK i, t : /\ t = now
                  /\ draft' = [draft EXCEPT ![r] =
                       [request |-> i, at |-> t,
                        recent |-> RecentByTime(LoggedUntil(logs, t), t)]]
  BY DEF ReadRecent
<1>2. /\ step[r] = "idle" /\ step' = [step EXCEPT ![r] = "reading"]
      /\ now' = now /\ logs' = logs /\ nextId' = nextId
  BY DEF ReadRecent, Goto
<1>3. PICK d : d = draft'[r]
  OBVIOUS
<1>4. Moves(r) /\ step'[r] = "reading"
      /\ d.at = t /\ d.recent = RecentByTime(LoggedUntil(logs, t), t)
  BY <1>1, <1>2, <1>3 DEF IInv, Moves
<1>5. Stamping' = Stamping /\ Done' = Done
  BY <1>2, <1>4 DEF Stamping, Done, Moves
<1>6. t \in Int /\ \A l \in logs : l.at \in Int /\ l.at <= t
  BY <1>1 DEF IInv
<1>7. d.recent = {l \in logs : l.at >= t - HourLength}
  BY <1>4, <1>6 DEF RecentByTime, LoggedUntil
<1>8. Missed(r)' = {}
  BY <1>2, <1>3, <1>4, <1>7 DEF Missed
<1>9. \A k, m \in Stamping : k = m
  BY DEF Stamping, IInv, StampedOK
<1>10. ReadOK(r)' /\ DecidedOK(r)'
  <2>1. d.recent \subseteq LoggedUntil(logs, t)
    BY <1>4 DEF RecentByTime
  <2>2. t <= t
    BY <1>6
  <2> QED
    BY <1>1, <1>2, <1>3, <1>4, <1>5, <1>6, <1>8, <1>9, <2>1, <2>2
    DEF ReadOK, DecidedOK
<1>11. \A s \in Requests : ReadOK(s)' /\ DecidedOK(s)'
  <2>1. logs' \ logs = {} /\ logs \subseteq logs'
    BY <1>2
  <2>2. \A k \in (logs' \ logs) \cup Stamping' :
          k \in Stamping \/ (k.at \in Int /\ now <= k.at)
    BY <1>5, <2>1
  <2>3. ASSUME NEW s \in Requests, s # r PROVE ReadOK(s)' /\ DecidedOK(s)'
    BY <1>2, <1>4, <2>1, <2>2, <2>3, OthersRead
  <2> QED
    BY <1>10, <2>3
<1>12. RowsOK'
  BY <1>2, <1>4 DEF JInv, RowsOK, Moves
<1>13. \A s \in Requests : step'[s] \in {"decided", "stamped"}
                             => EvaluatedOK(draft'[s], logs')
  BY <1>2, <1>4 DEF JInv, Moves
<1>14. \A l \in logs' : EvaluatedOK(l, logs')
  BY <1>2 DEF JInv
<1>15. (IsFiniteSet(Requests) => Cardinality(logs) <= Cardinality(Done))'
  BY <1>2, <1>5 DEF JInv
<1> QED
  BY <1>11, <1>12, <1>13, <1>14, <1>15 DEF JInv

(* The second SELECT sees what is visible up to the clock of the request.  *)
LEMMA EvaluateOverlooks ==
  ASSUME IInv, JInv, NEW r \in Requests, Evaluate(r)
  PROVE  DecidedOK(r)'
<1>1. PICK t, n, L, q, v :
        /\ t = draft[r].at /\ n = now /\ L = logs
        /\ draft' = [draft EXCEPT ![r] =
             [id |-> 0, at |-> t, allowed |-> v.allowed,
              type |-> q.type, device |-> q.device, ip |-> q.ip,
              country |-> q.country, amount |-> q.amount,
              new_owner |-> q.new_owner, config |-> config, verdict |-> v,
              evaluated |-> n, policies |-> policies,
              seen |-> {l.id : l \in LoggedUntil(L, t)}]]
  BY DEF Evaluate
<1>2. PICK d : d = draft'[r]
  OBVIOUS
<1>3. d.at = t /\ d.seen = {l.id : l \in LoggedUntil(logs, t)}
  BY <1>1, <1>2 DEF IInv
<1>4. /\ step[r] = "reading" /\ step' = [step EXCEPT ![r] = "decided"]
      /\ now' = now /\ logs' = logs
  BY DEF Evaluate, Goto
<1>5. t \in Int /\ t <= now /\ \A l \in logs : l.at \in Int
  BY <1>1, <1>4 DEF JInv, ReadOK, IInv
<1>6. \A k \in logs : k.at < t => k \in LoggedUntil(logs, t)
  BY <1>5 DEF LoggedUntil
<1>7. Overlooked(r)' = {}
  BY <1>2, <1>3, <1>4, <1>6 DEF Overlooked
<1>8. \A s \in Requests : step'[s] = "stamped" => step[s] = "stamped"
                                               /\ draft'[s] = draft[s]
  BY <1>1, <1>4 DEF IInv
<1>9. \A k, m \in Stamping' : k = m
  BY <1>8 DEF Stamping, IInv, StampedOK
<1> QED
  BY <1>2, <1>3, <1>4, <1>5, <1>7, <1>9 DEF DecidedOK

(* The decision.                                                           *)
LEMMA EvaluateKeeps ==
  ASSUME IInv, JInv, NEW r \in Requests, Evaluate(r)
  PROVE  JInv'
<1>1. /\ step[r] = "reading" /\ step' = [step EXCEPT ![r] = "decided"]
      /\ now' = now /\ logs' = logs /\ nextId' = nextId
      /\ \E d : draft' = [draft EXCEPT ![r] = d]
  BY DEF Evaluate, Goto
<1>2. Moves(r) /\ step'[r] = "decided"
  BY <1>1 DEF IInv, Moves
<1>3. Stamping' = Stamping /\ Done' = Done
  BY <1>1, <1>2 DEF Stamping, Done, Moves
<1>4. EvaluatedOK(draft'[r], logs)
  BY EvaluateSees
<1>5. \A s \in Requests : ReadOK(s)' /\ DecidedOK(s)'
  <2>1. logs' \ logs = {} /\ logs \subseteq logs'
    BY <1>1
  <2>2. ReadOK(r)' /\ DecidedOK(r)'
    BY <1>2, EvaluateOverlooks DEF ReadOK
  <2>3. \A k \in (logs' \ logs) \cup Stamping' :
          k \in Stamping \/ (k.at \in Int /\ now <= k.at)
    BY <1>3, <2>1
  <2>4. ASSUME NEW s \in Requests, s # r PROVE ReadOK(s)' /\ DecidedOK(s)'
    BY <1>1, <1>2, <2>1, <2>3, <2>4, OthersRead
  <2> QED
    BY <2>2, <2>4
<1>6. RowsOK'
  BY <1>1, <1>2 DEF JInv, RowsOK, Moves
<1>7. \A s \in Requests : step'[s] \in {"decided", "stamped"}
                             => EvaluatedOK(draft'[s], logs')
  BY <1>1, <1>2, <1>4 DEF JInv, Moves
<1>8. \A l \in logs' : EvaluatedOK(l, logs')
  BY <1>1 DEF JInv
<1>9. (IsFiniteSet(Requests) => Cardinality(logs) <= Cardinality(Done))'
  BY <1>1, <1>3 DEF JInv
<1> QED
  BY <1>5, <1>6, <1>7, <1>8, <1>9 DEF JInv

(* The stamp: nobody else has the row of the tenant.                       *)
LEMMA StampKeeps ==
  ASSUME IInv, JInv, NEW r \in Requests, Stamp(r)
  PROVE  JInv'
<1>1. /\ step[r] = "decided" /\ step' = [step EXCEPT ![r] = "stamped"]
      /\ lock = {} /\ now' = now /\ logs' = logs /\ nextId' = nextId + 1
  BY DEF Stamp, Stamped, Goto
<1>2. /\ EvaluatedOK(draft'[r], logs)
      /\ draft'[r].id = nextId /\ draft'[r].at = now
      /\ \A s \in Requests : s # r => draft'[s] = draft[s]
  BY StampSees
<1>3. Moves(r) /\ step'[r] = "stamped"
  BY <1>1, <1>2 DEF IInv, Moves
<1>4. Done' = Done
  BY <1>1, <1>3 DEF Done, Moves
<1>5. \A s \in Requests : step[s] # "stamped"
  BY <1>1 DEF IInv, StampedOK
<1>6. Stamping' = {draft'[r]}
  BY <1>3, <1>5 DEF Stamping, Moves
<1>7. \A s \in Requests : ReadOK(s)' /\ DecidedOK(s)'
  <2>1. logs' \ logs = {} /\ logs \subseteq logs'
    BY <1>1
  <2>2. ReadOK(r)' /\ DecidedOK(r)'
    BY <1>3 DEF ReadOK, DecidedOK
  <2>3. \A k \in Stamping' : k.at \in Int /\ now <= k.at
    BY <1>2, <1>6 DEF IInv
  <2>4. \A k \in (logs' \ logs) \cup Stamping' :
          k \in Stamping \/ (k.at \in Int /\ now <= k.at)
    BY <2>1, <2>3
  <2>5. ASSUME NEW s \in Requests, s # r PROVE ReadOK(s)' /\ DecidedOK(s)'
    BY <1>1, <1>3, <2>1, <2>4, <2>5, OthersRead
  <2> QED
    BY <2>2, <2>5
<1>8. RowsOK'
  <2>1. nextId \in Int /\ \A k \in logs : k.id < nextId /\ k.id \in Int
    BY DEF JInv, RowsOK, Rows
  <2>2. nextId' \in Int /\ nextId < nextId'
        /\ \A k \in logs' : k.id < nextId'
    BY <1>1, <2>1
  <2>3. \A s \in Requests : step'[s] = "stamped" => s = r
    BY <1>3, <1>5 DEF Moves
  <2>4. Rows(logs)' /\ \A k, m \in logs' : k.id = m.id => k = m
    BY <1>1 DEF JInv, RowsOK, Rows
  <2>5. \A s \in Requests : step'[s] = "stamped" =>
          /\ draft'[s].id \in Int /\ draft'[s].id < nextId'
          /\ \A k \in logs' : k.id < draft'[s].id
    BY <1>1, <1>2, <2>1, <2>2, <2>3
  <2> QED
    BY <2>2, <2>4, <2>5 DEF RowsOK
<1>9. \A s \in Requests : step'[s] \in {"decided", "stamped"}
                             => EvaluatedOK(draft'[s], logs')
  BY <1>1, <1>2, <1>3 DEF JInv, Moves
<1>10. \A l \in logs' : EvaluatedOK(l, logs')
  BY <1>1 DEF JInv
<1>11. (IsFiniteSet(Requests) => Cardinality(logs) <= Cardinality(Done))'
  BY <1>1, <1>4 DEF JInv
<1> QED
  BY <1>7, <1>8, <1>9, <1>10, <1>11 DEF JInv

(* The end of a request, with a log or without.                            *)
LEMMA EndsWith ==
  ASSUME IInv, NEW r \in Requests, Commit(r) \/ Fail(r)
  PROVE  /\ step[r] = "stamped" /\ step'[r] = "done" /\ Moves(r)
         /\ now' = now /\ nextId' = nextId
         /\ Stamping' = {} /\ Done' = Done \cup {r} /\ r \notin Done
         /\ \A s \in Requests : step'[s] # "stamped"
<1>1. /\ step[r] = "stamped" /\ step' = [step EXCEPT ![r] = "done"]
      /\ draft' = [draft EXCEPT ![r] = <<>>]
      /\ now' = now /\ nextId' = nextId
  BY DEF Commit, Fail, Goto
<1>2. step'[r] = "done" /\ Moves(r)
  BY <1>1 DEF IInv, Moves
<1>3. \A s \in Requests : s # r => step[s] # "stamped"
  BY <1>1 DEF IInv, StampedOK
<1>4. \A s \in Requests : step'[s] # "stamped"
  BY <1>2, <1>3 DEF Moves
<1>5. Stamping' = {}
  BY <1>4 DEF Stamping
<1>6. Done' = Done \cup {r} /\ r \notin Done
  BY <1>1, <1>2 DEF Done, Moves
<1> QED
  BY <1>1, <1>2, <1>4, <1>5, <1>6

(* One more request is done, so that one more may be logged.               *)
LEMMA DoneCount ==
  ASSUME JInv, NEW r \in Requests, r \notin Done, Done' = Done \cup {r},
         NEW d, logs' = logs \/ logs' = logs \cup {d}
  PROVE  (IsFiniteSet(Requests) => Cardinality(logs) <= Cardinality(Done))'
<1> SUFFICES ASSUME IsFiniteSet(Requests)
             PROVE  Cardinality(logs') <= Cardinality(Done')
  OBVIOUS
<1>1. Done \in SUBSET Requests
  BY DEF Done
<1>2. IsFiniteSet(Done) /\ Cardinality(Done) \in Nat
  BY <1>1, FewerRows
<1>3. Cardinality(Done') = Cardinality(Done) + 1
  BY <1>2, FS_AddElement
<1>4. IsFiniteSet(logs) /\ Cardinality(logs) \in Nat
      /\ Cardinality(logs) <= Cardinality(Done)
  BY FS_CardinalityType DEF JInv, RowsOK, Rows
<1>5. Cardinality(logs \cup {d}) <= Cardinality(logs) + 1
      /\ Cardinality(logs \cup {d}) \in Nat
  <2>1. IsFiniteSet(logs \cup {d})
        /\ (\/ Cardinality(logs \cup {d}) = Cardinality(logs)
            \/ Cardinality(logs \cup {d}) = Cardinality(logs) + 1)
    BY <1>4, FS_AddElement
  <2> QED
    BY <1>4, <2>1
<1> QED
  BY <1>2, <1>3, <1>4, <1>5

(* A log that becomes visible is the last by time and by id.               *)
LEMMA CommitKeeps ==
  ASSUME IInv, JInv, NEW r \in Requests, Commit(r)
  PROVE  JInv'
<1>1. /\ step[r] = "stamped" /\ step'[r] = "done" /\ Moves(r)
      /\ now' = now /\ nextId' = nextId
      /\ Stamping' = {} /\ Done' = Done \cup {r} /\ r \notin Done
      /\ \A s \in Requests : step'[s] # "stamped"
  BY EndsWith
<1>2. PICK d : d = draft[r]
  OBVIOUS
<1>3. logs' = logs \cup {d}
  BY <1>2 DEF Commit
<1>4. /\ d \in Stamping
      /\ d.at \in Int /\ d.id \in Int /\ d.id < nextId
      /\ \A k \in logs : k.at <= d.at /\ k.id < d.id
      /\ EvaluatedOK(d, logs)
  BY <1>1, <1>2 DEF IInv, StampedOK, JInv, RowsOK, Stamping
<1>5. Rows(logs) /\ nextId \in Int
  BY DEF JInv, RowsOK
<1>6. \A k \in logs : k.id # d.id /\ Later(d, k)
  BY <1>4, <1>5 DEF Rows, Later
<1>7. \A s \in Requests : ReadOK(s)' /\ DecidedOK(s)'
  <2>1. /\ \A m \in logs' \ logs : \A k \in logs : Later(m, k)
        /\ logs \subseteq logs'
    BY <1>3, <1>6
  <2>2. \A k \in (logs' \ logs) \cup Stamping' :
          k \in Stamping \/ (k.at \in Int /\ now <= k.at)
    BY <1>1, <1>3, <1>4
  <2>3. ASSUME NEW s \in Requests, s # r PROVE ReadOK(s)' /\ DecidedOK(s)'
    BY <1>1, <2>1, <2>2, <2>3, OthersRead
  <2>4. ReadOK(r)' /\ DecidedOK(r)'
    BY <1>1 DEF ReadOK, DecidedOK
  <2> QED
    BY <2>3, <2>4
<1>8. RowsOK'
  <2>1. Rows(logs')
    <3>1. IsFiniteSet(logs')
      BY <1>3, <1>5, FS_AddElement DEF Rows
    <3>2. \A l \in logs' : l.at \in Int /\ l.id \in Int
      BY <1>3, <1>4, <1>5 DEF Rows
    <3> QED
      BY <3>1, <3>2 DEF Rows
  <2>2. \A k \in logs' : k.id < nextId'
    BY <1>1, <1>3, <1>4 DEF JInv, RowsOK
  <2>3. \A k, m \in logs' : k.id = m.id => k = m
    BY <1>3, <1>6 DEF JInv, RowsOK
  <2> QED
    BY <1>1, <1>5, <2>1, <2>2, <2>3 DEF RowsOK
<1>9. \A k \in logs : k.id # d.id
  BY <1>6
<1>10. \A s \in Requests : step'[s] \in {"decided", "stamped"}
                             => EvaluatedOK(draft'[s], logs')
  <2> SUFFICES ASSUME NEW s \in Requests, step'[s] \in {"decided", "stamped"}
               PROVE  EvaluatedOK(draft'[s], logs')
    OBVIOUS
  <2>1. step'[s] = step[s] /\ draft'[s] = draft[s]
    BY <1>1 DEF Moves
  <2>2. PICK e : e = draft[s]
    OBVIOUS
  <2>3. EvaluatedOK(e, logs)
    BY <2>1, <2>2 DEF JInv
  <2>4. EvaluatedOK(e, logs \cup {d})
    BY <1>9, <2>3, SeenGrows
  <2> QED
    BY <1>3, <2>1, <2>2, <2>4
<1>11. \A l \in logs' : EvaluatedOK(l, logs')
  <2>1. \A l \in logs' : EvaluatedOK(l, logs)
    BY <1>3, <1>4 DEF JInv
  <2>2. ASSUME NEW l \in logs' PROVE EvaluatedOK(l, logs \cup {d})
    BY <1>9, <2>1, SeenGrows
  <2> QED
    BY <1>3, <2>2
<1>12. (IsFiniteSet(Requests) => Cardinality(logs) <= Cardinality(Done))'
  BY <1>1, <1>3, DoneCount
<1> QED
  BY <1>7, <1>8, <1>10, <1>11, <1>12 DEF JInv

(* A request that fails leaves nothing.                                    *)
LEMMA FailKeeps ==
  ASSUME IInv, JInv, NEW r \in Requests, Fail(r)
  PROVE  JInv'
<1>1. /\ step[r] = "stamped" /\ step'[r] = "done" /\ Moves(r)
      /\ now' = now /\ nextId' = nextId
      /\ Stamping' = {} /\ Done' = Done \cup {r} /\ r \notin Done
      /\ \A s \in Requests : step'[s] # "stamped"
  BY EndsWith
<1>2. logs' = logs
  BY DEF Fail
<1>3. \A s \in Requests : ReadOK(s)' /\ DecidedOK(s)'
  <2>1. logs' \ logs = {} /\ logs \subseteq logs'
    BY <1>2
  <2>2. \A k \in (logs' \ logs) \cup Stamping' :
          k \in Stamping \/ (k.at \in Int /\ now <= k.at)
    BY <1>1, <2>1
  <2>3. ASSUME NEW s \in Requests, s # r PROVE ReadOK(s)' /\ DecidedOK(s)'
    BY <1>1, <2>1, <2>2, <2>3, OthersRead
  <2>4. ReadOK(r)' /\ DecidedOK(r)'
    BY <1>1 DEF ReadOK, DecidedOK
  <2> QED
    BY <2>3, <2>4
<1>4. RowsOK'
  BY <1>1, <1>2 DEF JInv, RowsOK
<1>5. \A s \in Requests : step'[s] \in {"decided", "stamped"}
                             => EvaluatedOK(draft'[s], logs')
  BY <1>1, <1>2 DEF JInv, Moves
<1>6. \A l \in logs' : EvaluatedOK(l, logs')
  BY <1>2 DEF JInv
<1>7. (IsFiniteSet(Requests) => Cardinality(logs) <= Cardinality(Done))'
  BY <1>1, <1>2, DoneCount
<1> QED
  BY <1>3, <1>4, <1>5, <1>6, <1>7 DEF JInv

(* Every step keeps what the decisions were taken from.                    *)
LEMMA HistoryStep ==
  ASSUME IInv, JInv, [Next]_vars
  PROVE  JInv'
<1>1. now \in Int /\ now <= now
  BY DEF IInv
<1>2. CASE Administer \/ UNCHANGED vars
  <2>1. UNCHANGED <<now, logs, nextId, step, draft>>
    BY <1>2 DEF Administer, vars
  <2>2. now' \in Int /\ now <= now'
    BY <1>1, <2>1
  <2> QED
    BY <2>1, <2>2, NoLogStep
<1>3. CASE Tick
  <2>1. now' = now + 1 /\ UNCHANGED <<logs, nextId, step, draft>>
    BY <1>3 DEF Tick
  <2>2. now' \in Int /\ now <= now'
    BY <1>1, <2>1
  <2> QED
    BY <2>1, <2>2, NoLogStep
<1> QED
  BY <1>2, <1>3, ReadKeeps, EvaluateKeeps, StampKeeps, CommitKeeps, FailKeeps
  DEF Next

-----------------------------------------------------------------------------
(* What every decision was taken from: of the logs that it saw, the latest *)
(* and the last hour.                                                      *)
THEOREM Evaluations == Spec => []JInv
  BY NothingMissed, HistoryStep, Start, Step, PTL DEF Spec

(* Of the logs before the clock of a request one at most escapes its       *)
(* decision, for any number of requests side by side.                      *)
THEOREM Overlooking == Spec => []OneOverlooked
<1>1. ASSUME JInv PROVE OneOverlooked
  <2> SUFFICES ASSUME NEW r \in Requests, step[r] = "decided",
                      NEW k \in Overlooked(r), NEW m \in Overlooked(r)
               PROVE  k = m
    BY DEF OneOverlooked
  <2>1. k.at < draft[r].at /\ m.at < draft[r].at
    BY DEF Overlooked
  <2> QED
    BY <1>1, <2>1 DEF JInv, DecidedOK
<1> QED
  BY <1>1, Evaluations, PTL

(* The invariant is enough for the replay.                                 *)
LEMMA Agrees ==
  ASSUME JInv, Few \/ Apart(logs)
  PROVE  ReplayAgrees
<1> SUFFICES ASSUME NEW l \in logs, SawAll(l), SameTime(l), ~OwnershipDenied(l)
             PROVE  Replay(l, logs) = l.verdict
  BY DEF ReplayAgrees
<1>1. /\ Rows(logs) /\ \A k, m \in logs : k.id = m.id => k = m
      /\ EvaluatedOK(l, logs)
  BY DEF JInv, RowsOK
<1>2. l.seen = {k.id : k \in {k \in logs : k.at < l.at}}
  BY DEF SawAll
<1>3. /\ HourOf(l.at) = HourOf(l.evaluated)
      /\ Within(LoggedBefore(logs, l.at), l.at, FailureWindow)
           = Within(LoggedBefore(logs, l.at), l.evaluated, FailureWindow)
      /\ Within(LoggedBefore(logs, l.at), l.at, HourLength)
           = Within(LoggedBefore(logs, l.at), l.evaluated, HourLength)
      /\ \A p \in l.verdict.deciding : InForce(p, l.at)
  BY DEF SameTime
<1> QED
  BY <1>1, <1>2, <1>3, LogReplays

(* The replay of a decision agrees with it, as long as fewer decisions of  *)
(* a right than the second SELECT reads bear the same created_at.          *)
THEOREM Agreement == Spec => [](Apart(logs) => ReplayAgrees)
<1>1. JInv => (Apart(logs) => ReplayAgrees)
  BY Agrees
<1> QED
  BY <1>1, Evaluations, PTL

(* It agrees without a condition when no more requests come than a         *)
(* decision and the logs that its second SELECT reads.                     *)
THEOREM AgreementOfFew ==
  ASSUME IsFiniteSet(Requests), Cardinality(Requests) <= LatestLimit + 1
  PROVE  Spec => []ReplayAgrees
<1>1. JInv => ReplayAgrees
  BY Agrees DEF Few
<1> QED
  BY <1>1, Evaluations, PTL
=============================================================================
