------------------------- MODULE OutboxWorkerProofs -------------------------
(***************************************************************************)
(* Theorems about OutboxWorker, for every number of workers, events and    *)
(* subscriptions, every lease, batch size, backoff and attempt limit.      *)
(***************************************************************************)
EXTENDS OutboxWorker, TLAPS

-----------------------------------------------------------------------------
(* The inductive invariant.  WorkerOK says what a worker's local variables *)
(* can be at each point of the loop; VisitOK that the subscriptions it has *)
(* passed are accounted for.                                               *)
WorkerOK(w) ==
    /\ pc[w] \in {"idle", "claim"} => job[w] = NoJob
    /\ pc[w] \notin {"idle", "claim"} =>
         job[w].event \in Events /\ job[w].token \in Tokens
    /\ pc[w] \in {"get", "load"} => job[w].subs = {}
    /\ pc[w] = "settle" => job[w].todo = {}
    /\ job[w].todo \subseteq job[w].subs
    /\ pc[w] \in {"recheck", "post"} =>
         job[w].sub \in job[w].subs \ job[w].todo
    /\ pc[w] \notin {"recheck", "post"} => job[w].sub = NoSub

RowsOK(w) ==
    /\ \A r \in job[w].rows :
         /\ r.event = job[w].event
         /\ r.number = job[w].attempts
         /\ r.sub \in job[w].subs \ job[w].todo
         /\ r.sub # job[w].sub
    /\ \A q, r \in job[w].rows : q.sub = r.sub => q = r
    /\ pc[w] # "release" =>
         (job[w].failed <=> \E r \in job[w].rows : ~r.successful)

VisitOK(w) ==
    /\ \A s \in job[w].subs : subState[s] # "absent"
    /\ pc[w] # "release" =>
         \A s \in job[w].subs \ (job[w].todo \cup {job[w].sub}) :
           \/ subState[s] = "disabled"
           \/ s \in Reached(job[w].event)
           \/ \E r \in job[w].rows : r.sub = s

(* As long as its claim stands, what the worker read from the database is  *)
(* still true: nobody else can have finalized the event.                   *)
OwnerOK(w) ==
    Owns(w) =>
      /\ ~Settled(outbox[job[w].event])
      /\ pc[w] # "get" =>
           job[w].attempts = outbox[job[w].event].attempts
                               + (IF job[w].subs = {} THEN 0 ELSE 1)
      /\ \A r \in job[w].rows : r.sub \notin Reached(job[w].event)
      /\ pc[w] \in {"recheck", "post"} =>
           job[w].sub \notin Reached(job[w].event)

(* A claim token names one worker and one event.                           *)
TokensOK ==
    /\ \A v, w \in Workers :
         job[v].token = job[w].token => v = w \/ job[v].token = NoToken
    /\ \A e \in Events, w \in Workers :
         /\ outbox[e].claimed_by = job[w].token
         /\ job[w].token # NoToken
         => e = job[w].event

LogOK == \A a \in attemptLog : a.number \in 1..outbox[a.event].attempts

DatabaseOK ==
    /\ LogOK
    /\ DeadLetterAtLastAttempt
    /\ OneSuccessPerSubscription
    /\ EveryAttemptIsAccountedFor

IInv ==
    /\ TypeOK
    /\ \A w \in Workers :
         WorkerOK(w) /\ RowsOK(w) /\ VisitOK(w) /\ OwnerOK(w)
    /\ TokensOK
    /\ DatabaseOK

-----------------------------------------------------------------------------
(* A backoff is a whole number of seconds.                                 *)
LEMMA BackoffType == \A n \in Nat : BackoffSeconds(n) \in Int
<1>1. \A n \in Nat : 2^n \in Int
  BY SMT
<1> QED
  BY <1>1, OutboxAssumption DEF BackoffSeconds

(* The time of a claim that has run out is a number.                       *)
LEMMA PastType == Past \in Int
<1>1. MaxLag \in Nat
  BY OutboxAssumption
<1> QED
  BY <1>1 DEF Past

(* The edits of a row and of a job that the actions make stay within the   *)
(* types; one lemma per edit keeps the records opaque further down.        *)
LEMMA UnclaimedType == \A row \in OutboxRow : Unclaimed(row) \in OutboxRow
  BY PastType DEF Unclaimed, OutboxRow

(* The columns a worker writes keep the type of a row.                     *)
LEMMA RowEdits ==
  ASSUME NEW row \in OutboxRow
  PROVE  /\ row.attempts \in Nat
         /\ \A n \in Nat : [row EXCEPT !.attempts = n] \in OutboxRow
         /\ [row EXCEPT !.delivered = TRUE] \in OutboxRow
         /\ \A n \in Int : [row EXCEPT !.next_attempt_at = n] \in OutboxRow
         /\ \A n \in Int : [row EXCEPT !.dead_lettered = TRUE,
                                     !.next_attempt_at = n] \in OutboxRow
  BY DEF OutboxRow

(* A claim keeps the type of a row.                                        *)
LEMMA ClaimEdit ==
  ASSUME NEW row \in OutboxRow, NEW t \in Tokens, NEW n \in Int
  PROVE  [row EXCEPT !.claimed_by = t, !.claim_expires_at = n] \in OutboxRow
  BY DEF OutboxRow

(* The passing of time keeps the type of a row.                            *)
LEMMA TickEdit ==
  ASSUME NEW row \in OutboxRow, NEW n \in Int, NEW m \in Int
  PROVE  [row EXCEPT !.next_attempt_at = n, !.claim_expires_at = m]
           \in OutboxRow
  BY DEF OutboxRow

(* The memory of an idle worker is a job.                                  *)
LEMMA NoJobType == NoJob \in Job
  BY DEF NoJob, Job

(* The memory of a worker that has just claimed is a job.                  *)
LEMMA ClaimJobType ==
  ASSUME NEW e \in Events, NEW t \in Tokens
  PROVE  [NoJob EXCEPT !.event = e, !.token = t] \in Job
  BY DEF NoJob, Job

(* The row that a worker commits is a row of the table.                    *)
LEMMA OutcomeType ==
  ASSUME NEW w \in Workers, job[w].attempts \in Nat, NEW row \in OutboxRow
  PROVE  Outcome(w, row) \in OutboxRow
<1>1. BackoffSeconds(job[w].attempts) \in Int
  BY BackoffType
<1> DEFINE tried == [row EXCEPT !.attempts = job[w].attempts]
<1>2. tried \in OutboxRow
  BY RowEdits
<1>3. Outcome(w, row) = IF ~job[w].failed
         THEN [tried EXCEPT !.delivered = TRUE]
       ELSE IF job[w].attempts >= MaxAttempts
         THEN [tried EXCEPT !.dead_lettered = TRUE, !.next_attempt_at = 0]
       ELSE [tried EXCEPT !.next_attempt_at = BackoffSeconds(job[w].attempts)]
  BY DEF Outcome
<1> HIDE DEF tried
<1>4. 0 \in Int
  OBVIOUS
<1> QED
  BY <1>1, <1>2, <1>3, <1>4, RowEdits

(* The types hold at the start.                                            *)
LEMMA InitTypeOK == Init => TypeOK
<1> SUFFICES ASSUME Init PROVE TypeOK
  OBVIOUS
<1>1. MaxCrashes \in Nat /\ MaxSlips \in Nat /\ LatestDue \in Nat
  BY OutboxAssumption
<1>2. outbox \in [Events -> OutboxRow]
  BY <1>1, PastType DEF Init, OutboxRow
<1> QED
  BY <1>1, <1>2, NoJobType DEF Init, TypeOK, Steps

(* A step that changes only the worker's own variables.                    *)
Local(w) ==
    /\ pc' \in [Workers -> Steps]
    /\ batch' \in [Workers -> SUBSET Events]
    /\ job' \in [Workers -> Job]

(* The end of an iteration, and a restart, leave types as they are.        *)
LEMMA ContinueType ==
  ASSUME TypeOK, NEW w \in Workers, EndIteration(w) \/ Restarted(w)
  PROVE  Local(w)
  BY NoJobType DEF EndIteration, Restarted, TypeOK, Steps, Local

(* A worker whose variables and database do not change stays as it is.     *)
LEMMA UntouchedWorker ==
  ASSUME IInv, NEW v \in Workers, UNCHANGED dbVars,
         pc'[v] = pc[v], job'[v] = job[v]
  PROVE  WorkerOK(v)' /\ RowsOK(v)' /\ VisitOK(v)' /\ OwnerOK(v)'
<1>1. WorkerOK(v) /\ RowsOK(v) /\ VisitOK(v) /\ OwnerOK(v)
  BY DEF IInv
<1>2. outbox' = outbox /\ attemptLog' = attemptLog /\ subState' = subState
  BY DEF dbVars
<1>3. WorkerOK(v)' /\ RowsOK(v)'
  BY <1>1 DEF WorkerOK, RowsOK
<1>4. \A e : Reached(e)' = Reached(e)
  BY <1>2 DEF Reached, AlreadyDelivered
<1>5. VisitOK(v)'
  BY <1>1, <1>2, <1>4 DEF VisitOK
<1>6. OwnerOK(v)'
  BY <1>1, <1>2, <1>4 DEF OwnerOK, Owns
<1> QED
  BY <1>3, <1>5, <1>6

(* The database invariants depend on the database alone.                   *)
LEMMA UntouchedDatabase ==
  ASSUME IInv, UNCHANGED dbVars
  PROVE  DatabaseOK'
  BY DEF IInv, DatabaseOK, dbVars, LogOK, DeadLetterAtLastAttempt,
         OneSuccessPerSubscription, EveryAttemptIsAccountedFor

(* A worker that keeps its claim token, or gives it up, keeps the tokens   *)
(* apart.                                                                  *)
LEMMA TokensStay ==
  ASSUME IInv, NEW w \in Workers, UNCHANGED outbox,
         \A v \in Workers \ {w} : job'[v] = job[v],
         \/ job'[w].token = job[w].token /\ job'[w].event = job[w].event
         \/ job'[w].token = NoToken
  PROVE  TokensOK'
  BY DEF IInv, TokensOK

(* What is left to show of a step that only a worker takes part in.        *)
LEMMA LocalStep ==
  ASSUME IInv, NEW w \in Workers, UNCHANGED <<dbVars, slips>>,
         crashes' \in 0..MaxCrashes, Local(w),
         \A v \in Workers \ {w} : pc'[v] = pc[v] /\ job'[v] = job[v],
         \/ job'[w].token = job[w].token /\ job'[w].event = job[w].event
         \/ job'[w].token = NoToken,
         WorkerOK(w)', RowsOK(w)', VisitOK(w)', OwnerOK(w)'
  PROVE  IInv'
<1>1. TypeOK'
  BY DEF IInv, TypeOK, Local, dbVars
<1>2. \A v \in Workers :
        WorkerOK(v)' /\ RowsOK(v)' /\ VisitOK(v)' /\ OwnerOK(v)'
  BY UntouchedWorker
<1>3. TokensOK'
  BY TokensStay DEF dbVars
<1> QED
  BY <1>1, <1>2, <1>3, UntouchedDatabase DEF IInv

(* A worker between two iterations satisfies its part of the invariant.    *)
LEMMA NoJobOK ==
  ASSUME NEW w \in Workers, job'[w] = NoJob, pc'[w] \in {"idle", "claim"}
  PROVE  WorkerOK(w)' /\ RowsOK(w)' /\ VisitOK(w)' /\ OwnerOK(w)'
<1>1. /\ NoJob.event = NoEvent /\ NoJob.token = NoToken /\ NoJob.subs = {}
      /\ NoJob.todo = {} /\ NoJob.sub = NoSub /\ NoJob.rows = {}
      /\ NoJob.failed = FALSE
  BY DEF NoJob
<1>2. NoEvent \notin Events
  BY OutboxAssumption
<1> QED
  BY <1>1, <1>2 DEF WorkerOK, RowsOK, VisitOK, OwnerOK, Owns

-----------------------------------------------------------------------------
(* The steps of the loop that leave the database alone.                    *)
LEMMA StepSelectDue ==
  ASSUME IInv, NEW w \in Workers, SelectDue(w) PROVE IInv'
<1>1. /\ pc \in [Workers -> Steps] /\ batch \in [Workers -> SUBSET Events]
      /\ job \in [Workers -> Job] /\ crashes \in 0..MaxCrashes
      /\ job[w] = NoJob
  BY DEF IInv, TypeOK, SelectDue, WorkerOK
<1>2. Local(w)
  BY <1>1 DEF SelectDue, Local, Steps
<1>3. WorkerOK(w)' /\ RowsOK(w)' /\ VisitOK(w)' /\ OwnerOK(w)'
  BY <1>1, NoJobOK DEF SelectDue
<1> QED
  BY <1>1, <1>2, <1>3, LocalStep DEF SelectDue, budgets, dbVars

(* A missed claim preserves the invariant.                                 *)
LEMMA StepClaimMisses ==
  ASSUME IInv, NEW w \in Workers, ClaimMisses(w) PROVE IInv'
<1>1. /\ pc \in [Workers -> Steps] /\ batch \in [Workers -> SUBSET Events]
      /\ job \in [Workers -> Job] /\ crashes \in 0..MaxCrashes
      /\ job[w] = NoJob
  BY DEF IInv, TypeOK, ClaimMisses, WorkerOK
<1>2. PICK e \in Events :
        /\ batch' = [batch EXCEPT ![w] = batch[w] \ {e}]
        /\ pc' = [pc EXCEPT ![w] =
                    IF batch[w] \ {e} = {} THEN "idle" ELSE "claim"]
        /\ UNCHANGED <<dbVars, job, budgets>>
  BY DEF ClaimMisses
<1>3. Local(w)
  BY <1>1, <1>2 DEF Local, Steps
<1>4. WorkerOK(w)' /\ RowsOK(w)' /\ VisitOK(w)' /\ OwnerOK(w)'
  BY <1>1, <1>2, NoJobOK
<1> QED
  BY <1>1, <1>2, <1>3, <1>4, LocalStep DEF budgets, dbVars

(* The end of an iteration, and a restart, clear the worker's variables.   *)
LEMMA Cleared ==
  ASSUME IInv, NEW w \in Workers, EndIteration(w) \/ Restarted(w)
  PROVE  /\ Local(w)
         /\ job'[w].token = NoToken /\ job'[w] = NoJob
         /\ \A v \in Workers \ {w} : pc'[v] = pc[v] /\ job'[v] = job[v]
         /\ WorkerOK(w)' /\ RowsOK(w)' /\ VisitOK(w)' /\ OwnerOK(w)'
<1>1. /\ pc \in [Workers -> Steps] /\ batch \in [Workers -> SUBSET Events]
      /\ job \in [Workers -> Job] /\ TypeOK
  BY DEF IInv, TypeOK
<1>2. job'[w] = NoJob /\ pc'[w] \in {"idle", "claim"}
  BY <1>1 DEF EndIteration, Restarted
<1>3. \A v \in Workers \ {w} : pc'[v] = pc[v] /\ job'[v] = job[v]
  BY <1>1 DEF EndIteration, Restarted
<1>4. NoJob.token = NoToken
  BY DEF NoJob
<1> QED
  BY <1>1, <1>2, <1>3, <1>4, ContinueType, NoJobOK

(* A lost fence preserves the invariant.                                   *)
LEMMA StepFenceLost ==
  ASSUME IInv, NEW w \in Workers, FenceLost(w) PROVE IInv'
<1>1. crashes \in 0..MaxCrashes
  BY DEF IInv, TypeOK
<1> QED
  BY <1>1, Cleared, LocalStep DEF FenceLost, budgets, dbVars

(* A crash preserves the invariant.                                        *)
LEMMA StepCrash ==
  ASSUME IInv, NEW w \in Workers, Crash(w) PROVE IInv'
<1>1. crashes' \in 0..MaxCrashes
  BY OutboxAssumption DEF IInv, TypeOK, Crash
<1> QED
  BY <1>1, Cleared, LocalStep DEF Crash, dbVars

(* Loading the event preserves the invariant.                              *)
LEMMA StepGetEvent ==
  ASSUME IInv, NEW w \in Workers, GetEvent(w) PROVE IInv'
<1>1. /\ pc \in [Workers -> Steps] /\ batch \in [Workers -> SUBSET Events]
      /\ job \in [Workers -> Job] /\ crashes \in 0..MaxCrashes
      /\ outbox \in [Events -> OutboxRow]
  BY DEF IInv, TypeOK
<1>2. UNCHANGED <<dbVars, budgets>> /\ pc[w] = "get"
  BY DEF GetEvent
<1>3. CASE ~Owns(w)
  BY <1>1, <1>2, <1>3, Cleared, LocalStep DEF GetEvent, budgets
<1>4. CASE Owns(w)
  <2>1. outbox[job[w].event].attempts \in Nat
    BY <1>4, <1>1, RowEdits DEF Owns
  <2>2. /\ job' = [job EXCEPT ![w].attempts = outbox[job[w].event].attempts]
        /\ pc' = [pc EXCEPT ![w] = "load"]
        /\ batch' = batch
    BY <1>4 DEF GetEvent
  <2>3. job' \in [Workers -> Job]
    BY <1>1, <2>1, <2>2 DEF Job
  <2>4. /\ job'[w].event = job[w].event /\ job'[w].token = job[w].token
        /\ job'[w].subs = job[w].subs /\ job'[w].todo = job[w].todo
        /\ job'[w].sub = job[w].sub /\ job'[w].failed = job[w].failed
        /\ job'[w].rows = job[w].rows
        /\ job'[w].attempts = outbox[job[w].event].attempts
    BY <1>1, <2>2 DEF Job
  <2>5. \A v \in Workers \ {w} : pc'[v] = pc[v] /\ job'[v] = job[v]
    BY <1>1, <2>2
  <2>6. pc'[w] = "load"
    BY <1>1, <2>2
  <2>7. WorkerOK(w) /\ RowsOK(w) /\ VisitOK(w) /\ OwnerOK(w)
    BY DEF IInv
  <2>8. job[w].subs = {} /\ job[w].rows = {}
    BY <1>2, <2>7 DEF WorkerOK, RowsOK
  <2>9. WorkerOK(w)' /\ RowsOK(w)'
    BY <1>2, <2>4, <2>6, <2>7, <2>8 DEF WorkerOK, RowsOK
  <2>10. VisitOK(w)'
    BY <2>4, <2>8 DEF VisitOK
  <2>11. OwnerOK(w)'
    BY <1>2, <1>4, <2>1, <2>4, <2>6, <2>7, <2>8
       DEF OwnerOK, Owns, dbVars, Settled
  <2>12. Local(w)
    BY <1>1, <2>2, <2>3 DEF Local, Steps
  <2> QED
    BY <1>1, <1>2, <2>4, <2>5, <2>9, <2>10, <2>11, <2>12, LocalStep
       DEF budgets
<1> QED
  BY <1>3, <1>4

(* Loading the subscriptions preserves the invariant.                      *)
LEMMA StepLoadSubscriptions ==
  ASSUME IInv, NEW w \in Workers, LoadSubscriptions(w) PROVE IInv'
<1>1. /\ pc \in [Workers -> Steps] /\ batch \in [Workers -> SUBSET Events]
      /\ job \in [Workers -> Job] /\ crashes \in 0..MaxCrashes
      /\ subState \in [Subs -> {"absent", "enabled", "disabled"}]
  BY DEF IInv, TypeOK
<1>2. /\ UNCHANGED <<dbVars, batch, budgets>> /\ pc[w] = "load"
      /\ WorkerOK(w) /\ RowsOK(w) /\ VisitOK(w) /\ OwnerOK(w)
  BY DEF LoadSubscriptions, IInv
<1>3. /\ job[w].subs = {} /\ job[w].todo = {} /\ job[w].rows = {}
      /\ job[w].sub = NoSub /\ ~job[w].failed
  BY <1>1, <1>2 DEF WorkerOK, RowsOK, Job
<1>4. PICK S \in SUBSET Subs :
        /\ \A s \in S : subState[s] = "enabled"
        /\ \/ S = {} /\ pc' = [pc EXCEPT ![w] = "settle"] /\ UNCHANGED job
           \/ /\ S # {}
              /\ pc' = [pc EXCEPT ![w] = "subs"]
              /\ job' = [job EXCEPT ![w].subs = S, ![w].todo = S,
                                   ![w].attempts = @ + 1]
  <2> DEFINE subs == {s \in Subs : /\ s \in Audience[job[w].event]
                                   /\ subState[s] = "enabled"}
  <2>1. /\ subs \in SUBSET Subs
        /\ \A s \in subs : subState[s] = "enabled"
    OBVIOUS
  <2> QED
    BY <2>1 DEF LoadSubscriptions
<1>5. /\ job' \in [Workers -> Job]
      /\ job'[w].event = job[w].event /\ job'[w].token = job[w].token
      /\ job'[w].subs = S /\ job'[w].todo = S
      /\ job'[w].sub = job[w].sub /\ job'[w].failed = job[w].failed
      /\ job'[w].rows = job[w].rows
      /\ job'[w].attempts = job[w].attempts + (IF S = {} THEN 0 ELSE 1)
  <2>1. job[w].attempts \in Nat
    BY <1>1 DEF Job
  <2>2. CASE S = {}
    BY <1>1, <1>3, <1>4, <2>1, <2>2
  <2>3. CASE S # {}
    <3>1. job' = [job EXCEPT ![w].subs = S, ![w].todo = S,
                             ![w].attempts = @ + 1]
      BY <1>4, <2>3
    <3>2. job' \in [Workers -> Job]
      BY <1>1, <3>1 DEF Job
    <3> QED
      BY <1>1, <2>3, <3>1, <3>2 DEF Job
  <2> QED
    BY <2>2, <2>3
<1>6. /\ pc'[w] \in {"settle", "subs"} /\ (pc'[w] = "settle" => S = {})
      /\ \A v \in Workers \ {w} : pc'[v] = pc[v] /\ job'[v] = job[v]
  BY <1>1, <1>4
<1>7. Local(w)
  BY <1>1, <1>2, <1>4, <1>5 DEF Local, Steps
<1>8. WorkerOK(w)' /\ RowsOK(w)'
  BY <1>2, <1>3, <1>5, <1>6 DEF WorkerOK, RowsOK
<1>9. VisitOK(w)'
  BY <1>2, <1>4, <1>5 DEF VisitOK, dbVars
<1>10. OwnerOK(w)'
  <2> SUFFICES ASSUME Owns(w)' PROVE
        /\ ~Settled(outbox'[job'[w].event])
        /\ job'[w].attempts = outbox'[job'[w].event].attempts
                                + (IF S = {} THEN 0 ELSE 1)
    BY <1>3, <1>5, <1>6 DEF OwnerOK
  <2>1. Owns(w) /\ outbox' = outbox
    BY <1>2, <1>5 DEF Owns, dbVars
  <2>2. outbox[job[w].event].attempts \in Nat
    BY <2>1, RowEdits DEF IInv, TypeOK, Owns
  <2>3. job[w].attempts = outbox[job[w].event].attempts
    BY <1>2, <1>3, <2>1, <2>2 DEF OwnerOK
  <2> QED
    BY <1>2, <1>5, <2>1, <2>3 DEF OwnerOK
<1> QED
  BY <1>1, <1>2, <1>5, <1>6, <1>7, <1>8, <1>9, <1>10, LocalStep DEF budgets

(* Skipping a subscription that was served preserves the invariant.        *)
LEMMA StepCheckDelivered ==
  ASSUME IInv, NEW w \in Workers, CheckDelivered(w) PROVE IInv'
<1>1. /\ pc \in [Workers -> Steps] /\ batch \in [Workers -> SUBSET Events]
      /\ job \in [Workers -> Job] /\ crashes \in 0..MaxCrashes
  BY DEF IInv, TypeOK
<1>2. /\ UNCHANGED <<dbVars, batch, budgets>> /\ pc[w] = "subs"
      /\ WorkerOK(w) /\ RowsOK(w) /\ VisitOK(w) /\ OwnerOK(w)
  BY DEF CheckDelivered, IInv
<1>3. PICK s \in job[w].todo :
        \/ /\ s \in Subs => s \in Reached(job[w].event)
           /\ job' = [job EXCEPT ![w].todo = @ \ {s}]
           /\ UNCHANGED pc
        \/ /\ s \notin Reached(job[w].event)
           /\ job' = [job EXCEPT ![w].todo = @ \ {s}, ![w].sub = s]
           /\ pc' = [pc EXCEPT ![w] = "recheck"]
  BY DEF CheckDelivered, Reached
<1>4. /\ s \in Subs /\ s \in job[w].subs /\ job[w].sub = NoSub
      /\ NoSub \notin Subs
  BY <1>1, <1>2, OutboxAssumption DEF WorkerOK, Job
<1>5. /\ job' \in [Workers -> Job]
      /\ job'[w].event = job[w].event /\ job'[w].token = job[w].token
      /\ job'[w].subs = job[w].subs /\ job'[w].todo = job[w].todo \ {s}
      /\ job'[w].failed = job[w].failed
      /\ job'[w].rows = job[w].rows /\ job'[w].attempts = job[w].attempts
  BY <1>1, <1>3, <1>4 DEF Job
<1>6. /\ \/ pc'[w] = "subs" /\ job'[w].sub = NoSub
              /\ s \in Reached(job[w].event)
         \/ pc'[w] = "recheck" /\ job'[w].sub = s
              /\ s \notin Reached(job[w].event)
      /\ \A v \in Workers \ {w} : pc'[v] = pc[v] /\ job'[v] = job[v]
  BY <1>1, <1>2, <1>3, <1>4 DEF Job
<1>7. Local(w)
  BY <1>1, <1>2, <1>3, <1>5 DEF Local, Steps
<1>8. WorkerOK(w)'
  BY <1>2, <1>4, <1>5, <1>6 DEF WorkerOK
<1>9. RowsOK(w)'
  BY <1>1, <1>2, <1>4, <1>5, <1>6 DEF RowsOK
<1>10. \A e : Reached(e)' = Reached(e)
  BY <1>2 DEF Reached, AlreadyDelivered, dbVars
<1>11. VisitOK(w)'
  <2>1. /\ pc[w] # "release" /\ subState' = subState
        /\ attemptLog' = attemptLog
    BY <1>2 DEF dbVars
  <2>2. \A x \in job'[w].subs : subState'[x] # "absent"
    BY <1>2, <1>5, <2>1 DEF VisitOK
  <2>3. ASSUME NEW x \in job'[w].subs \ (job'[w].todo \cup {job'[w].sub})
        PROVE  \/ subState'[x] = "disabled"
               \/ x \in Reached(job[w].event)'
               \/ \E r \in job'[w].rows : r.sub = x
    <3>1. CASE x = s
      BY <1>5, <1>6, <2>1, <2>3, <3>1 DEF Reached, AlreadyDelivered
    <3>2. CASE x # s
      <4>1. x # NoSub
        BY <1>1, <1>4, <1>5 DEF Job
      <4>2. x \in job[w].subs \ (job[w].todo \cup {job[w].sub})
        BY <1>2, <1>4, <1>5, <3>2, <4>1
      <4>3. \/ subState[x] = "disabled"
            \/ x \in Reached(job[w].event)
            \/ \E r \in job[w].rows : r.sub = x
        BY <1>2, <2>1, <4>2 DEF VisitOK
      <4> QED
        BY <1>5, <2>1, <4>3
           DEF Reached, AlreadyDelivered
    <3> QED
      BY <3>1, <3>2
  <2> QED
    BY <1>5, <2>2, <2>3 DEF VisitOK
<1>12. OwnerOK(w)'
  BY <1>2, <1>5, <1>6, <1>10 DEF OwnerOK, Owns, dbVars
<1> QED
  BY <1>1, <1>2, <1>5, <1>6, <1>7, <1>8, <1>9, <1>11, <1>12, LocalStep
     DEF budgets

(* Skipping a disabled subscription preserves the invariant.               *)
LEMMA StepRecheckEnabled ==
  ASSUME IInv, NEW w \in Workers, RecheckEnabled(w) PROVE IInv'
<1>1. /\ pc \in [Workers -> Steps] /\ batch \in [Workers -> SUBSET Events]
      /\ job \in [Workers -> Job] /\ crashes \in 0..MaxCrashes
      /\ subState \in [Subs -> {"absent", "enabled", "disabled"}]
  BY DEF IInv, TypeOK
<1>2. /\ UNCHANGED <<dbVars, batch, budgets>> /\ pc[w] = "recheck"
      /\ WorkerOK(w) /\ RowsOK(w) /\ VisitOK(w) /\ OwnerOK(w)
  BY DEF RecheckEnabled, IInv
<1>3. \/ pc' = [pc EXCEPT ![w] = "post"] /\ UNCHANGED job
      \/ /\ subState[job[w].sub] # "enabled"
         /\ pc' = [pc EXCEPT ![w] = "subs"]
         /\ job' = [job EXCEPT ![w].sub = NoSub]
  BY DEF RecheckEnabled
<1>4. job[w].sub \in job[w].subs /\ job[w].sub \in Subs
  BY <1>1, <1>2 DEF WorkerOK, Job
<1>5. /\ job' \in [Workers -> Job]
      /\ job'[w].event = job[w].event /\ job'[w].token = job[w].token
      /\ job'[w].subs = job[w].subs /\ job'[w].todo = job[w].todo
      /\ job'[w].failed = job[w].failed
      /\ job'[w].rows = job[w].rows /\ job'[w].attempts = job[w].attempts
  BY <1>1, <1>3 DEF Job
<1>6. /\ \/ pc'[w] = "post" /\ job'[w].sub = job[w].sub
         \/ pc'[w] = "subs" /\ job'[w].sub = NoSub
              /\ subState[job[w].sub] # "enabled"
      /\ \A v \in Workers \ {w} : pc'[v] = pc[v] /\ job'[v] = job[v]
  BY <1>1, <1>2, <1>3 DEF Job
<1>7. Local(w)
  BY <1>1, <1>2, <1>3, <1>5 DEF Local, Steps
<1>8. WorkerOK(w)'
  BY <1>2, <1>4, <1>5, <1>6 DEF WorkerOK
<1>9. RowsOK(w)'
  <2>1. NoSub \notin Subs /\ job[w].subs \subseteq Subs
    BY <1>1, OutboxAssumption DEF Job
  <2> QED
    BY <1>2, <1>5, <1>6, <2>1 DEF RowsOK
<1>10. \A e : Reached(e)' = Reached(e)
  BY <1>2 DEF Reached, AlreadyDelivered, dbVars
<1>11. VisitOK(w)'
  <2>1. subState[job[w].sub] # "enabled" => subState[job[w].sub] = "disabled"
    BY <1>1, <1>2, <1>4 DEF VisitOK
  <2>2. pc[w] # "release" /\ subState' = subState
    BY <1>2 DEF dbVars
  <2>3. ASSUME NEW s \in job'[w].subs \ (job'[w].todo \cup {job'[w].sub})
        PROVE  \/ subState[s] = "disabled"
               \/ s \in Reached(job[w].event)
               \/ \E r \in job[w].rows : r.sub = s
    <3>1. CASE s = job[w].sub
      BY <1>6, <2>1, <3>1
    <3>2. CASE s # job[w].sub
      BY <1>2, <1>5, <2>2, <3>2 DEF VisitOK
    <3> QED
      BY <3>1, <3>2
  <2>4. \A s \in job'[w].subs : subState'[s] # "absent"
    BY <1>2, <1>5, <2>2 DEF VisitOK
  <2>5. \A s \in job'[w].subs \ (job'[w].todo \cup {job'[w].sub}) :
          \/ subState'[s] = "disabled"
          \/ s \in Reached(job[w].event)'
          \/ \E r \in job'[w].rows : r.sub = s
    BY <1>5, <1>10, <2>2, <2>3
  <2> QED
    BY <1>5, <2>4, <2>5 DEF VisitOK
<1>12. OwnerOK(w)'
  BY <1>2, <1>5, <1>6, <1>10 DEF OwnerOK, Owns, dbVars
<1> QED
  BY <1>1, <1>2, <1>5, <1>6, <1>7, <1>8, <1>9, <1>11, <1>12, LocalStep
     DEF budgets

(* A POST and the attempt it adds preserve the invariant.                  *)
LEMMA StepPost ==
  ASSUME IInv, NEW w \in Workers, NEW ok \in BOOLEAN, Post(w, ok)
  PROVE  IInv'
<1>1. /\ pc \in [Workers -> Steps] /\ batch \in [Workers -> SUBSET Events]
      /\ job \in [Workers -> Job] /\ crashes \in 0..MaxCrashes
  BY DEF IInv, TypeOK
<1>2. /\ UNCHANGED <<dbVars, batch, budgets>> /\ pc[w] = "post"
      /\ WorkerOK(w) /\ RowsOK(w) /\ VisitOK(w) /\ OwnerOK(w)
  BY DEF Post, IInv
<1> DEFINE r == [event |-> job[w].event, sub |-> job[w].sub,
                 number |-> job[w].attempts, successful |-> ok]
<1>3. /\ job[w].event \in Events /\ job[w].sub \in Subs
      /\ job[w].sub \in job[w].subs \ job[w].todo
      /\ job[w].attempts \in Nat /\ NoSub \notin Subs
      /\ job[w].subs \subseteq Subs
  BY <1>1, <1>2, OutboxAssumption DEF WorkerOK, Job
<1>4. /\ r \in Attempt
      /\ r.event = job[w].event /\ r.sub = job[w].sub
      /\ r.number = job[w].attempts /\ r.successful = ok
  BY <1>3 DEF Attempt
<1>5. /\ job' = [job EXCEPT ![w].sub = NoSub, ![w].failed = @ \/ ~ok,
                           ![w].rows = @ \cup {r}]
      /\ pc' = [pc EXCEPT ![w] = "subs"]
  BY DEF Post
<1> HIDE DEF r
<1>6. /\ job' \in [Workers -> Job]
      /\ job'[w].event = job[w].event /\ job'[w].token = job[w].token
      /\ job'[w].subs = job[w].subs /\ job'[w].todo = job[w].todo
      /\ job'[w].sub = NoSub /\ job'[w].failed = (job[w].failed \/ ~ok)
      /\ job'[w].rows = job[w].rows \cup {r}
      /\ job'[w].attempts = job[w].attempts
  <2>1. job[w] \in Job /\ job[w].failed \in BOOLEAN
        /\ job[w].rows \in SUBSET Attempt
    BY <1>1 DEF Job
  <2>2. (job[w].failed \/ ~ok) \in BOOLEAN
    BY <2>1
  <2>3. job[w].rows \cup {r} \in SUBSET Attempt
    BY <2>1, <1>4
  <2> DEFINE F == job[w].failed \/ ~ok
             R == job[w].rows \cup {r}
  <2>4. job' = [job EXCEPT ![w].sub = NoSub, ![w].failed = F, ![w].rows = R]
    BY <1>5
  <2>5. F \in BOOLEAN /\ R \in SUBSET Attempt
    BY <2>2, <2>3
  <2> HIDE DEF F, R
  <2>6. job' \in [Workers -> Job]
    <3>1. [job[w] EXCEPT !.sub = NoSub, !.failed = F, !.rows = R] \in Job
      BY <2>1, <2>5 DEF Job
    <3>2. job' = [job EXCEPT ![w] =
                    [job[w] EXCEPT !.sub = NoSub, !.failed = F, !.rows = R]]
      BY <2>4
    <3> QED
      BY <1>1, <3>1, <3>2
  <2>7. /\ job'[w].event = job[w].event /\ job'[w].token = job[w].token
        /\ job'[w].subs = job[w].subs /\ job'[w].todo = job[w].todo
        /\ job'[w].sub = NoSub /\ job'[w].failed = F
        /\ job'[w].rows = R /\ job'[w].attempts = job[w].attempts
    BY <1>1, <2>4, <2>5 DEF Job
  <2> QED
    BY <2>6, <2>7 DEF F, R
<1>7. /\ pc'[w] = "subs"
      /\ \A v \in Workers \ {w} : pc'[v] = pc[v] /\ job'[v] = job[v]
  BY <1>1, <1>5
<1>8. Local(w)
  BY <1>1, <1>2, <1>5, <1>6 DEF Local, Steps
<1>9. WorkerOK(w)'
  BY <1>2, <1>6, <1>7 DEF WorkerOK
<1>10. RowsOK(w)'
  <2>1. ASSUME NEW q \in job'[w].rows
        PROVE  /\ q.event = job[w].event
               /\ q.number = job[w].attempts
               /\ q.sub \in job[w].subs \ job[w].todo
               /\ q.sub \in Subs
    BY <1>2, <1>3, <1>4, <1>6 DEF RowsOK
  <2>2. \A p, q \in job'[w].rows : p.sub = q.sub => p = q
    BY <1>2, <1>4, <1>6 DEF RowsOK
  <2>3. job'[w].failed <=> \E q \in job'[w].rows : ~q.successful
    BY <1>2, <1>4, <1>6 DEF RowsOK
  <2> QED
    BY <1>3, <1>6, <2>1, <2>2, <2>3 DEF RowsOK
<1>11. \A e : Reached(e)' = Reached(e)
  BY <1>2 DEF Reached, AlreadyDelivered, dbVars
<1>12. VisitOK(w)'
  BY <1>2, <1>3, <1>4, <1>6, <1>7, <1>11 DEF VisitOK, dbVars
<1>13. OwnerOK(w)'
  BY <1>2, <1>4, <1>6, <1>7, <1>11 DEF OwnerOK, Owns, dbVars
<1> QED
  BY <1>1, <1>2, <1>6, <1>7, <1>8, <1>9, <1>10, <1>12, <1>13, LocalStep
     DEF budgets

(* The end of the loop over subscriptions preserves the invariant.         *)
LEMMA StepLeaveSubs ==
  ASSUME IInv, NEW w \in Workers, LeaveSubs(w) PROVE IInv'
<1>1. /\ pc \in [Workers -> Steps] /\ batch \in [Workers -> SUBSET Events]
      /\ job \in [Workers -> Job] /\ crashes \in 0..MaxCrashes
  BY DEF IInv, TypeOK
<1>2. /\ UNCHANGED <<dbVars, batch, job, budgets>> /\ pc[w] = "subs"
      /\ WorkerOK(w) /\ RowsOK(w) /\ VisitOK(w) /\ OwnerOK(w)
      /\ job[w].todo = {}
      /\ pc' = [pc EXCEPT ![w] = "settle"]
  BY DEF LeaveSubs, IInv
<1>3. /\ pc'[w] = "settle"
      /\ \A v \in Workers \ {w} : pc'[v] = pc[v] /\ job'[v] = job[v]
  BY <1>1, <1>2
<1>4. Local(w)
  BY <1>1, <1>2 DEF Local, Steps
<1>5. WorkerOK(w)' /\ RowsOK(w)'
  BY <1>2, <1>3 DEF WorkerOK, RowsOK
<1>6. \A e : Reached(e)' = Reached(e)
  BY <1>2 DEF Reached, AlreadyDelivered, dbVars
<1>7. VisitOK(w)' /\ OwnerOK(w)'
  BY <1>2, <1>3, <1>6 DEF VisitOK, OwnerOK, Owns, dbVars
<1> QED
  BY <1>1, <1>2, <1>3, <1>4, <1>5, <1>7, LocalStep DEF budgets

(* A failing commit preserves the invariant.                               *)
LEMMA StepCommitFails ==
  ASSUME IInv, NEW w \in Workers, CommitFails(w) PROVE IInv'
<1>1. /\ pc \in [Workers -> Steps] /\ batch \in [Workers -> SUBSET Events]
      /\ job \in [Workers -> Job]
  BY DEF IInv, TypeOK
<1>2. crashes' \in 0..MaxCrashes
  BY OutboxAssumption DEF IInv, TypeOK, CommitFails
<1>3. /\ UNCHANGED <<dbVars, batch, slips>> /\ pc[w] = "settle"
      /\ WorkerOK(w) /\ RowsOK(w) /\ VisitOK(w) /\ OwnerOK(w)
      /\ pc' = [pc EXCEPT ![w] = "release"]
      /\ job' = [job EXCEPT ![w].rows = {}]
  BY DEF CommitFails, IInv
<1>4. /\ job' \in [Workers -> Job]
      /\ job'[w].event = job[w].event /\ job'[w].token = job[w].token
      /\ job'[w].subs = job[w].subs /\ job'[w].todo = job[w].todo
      /\ job'[w].sub = job[w].sub /\ job'[w].failed = job[w].failed
      /\ job'[w].rows = {} /\ job'[w].attempts = job[w].attempts
  BY <1>1, <1>3 DEF Job
<1>5. /\ pc'[w] = "release"
      /\ \A v \in Workers \ {w} : pc'[v] = pc[v] /\ job'[v] = job[v]
  BY <1>1, <1>3
<1>6. Local(w)
  BY <1>1, <1>3, <1>4 DEF Local, Steps
<1>7. WorkerOK(w)' /\ RowsOK(w)'
  BY <1>3, <1>4, <1>5 DEF WorkerOK, RowsOK
<1>8. VisitOK(w)' /\ OwnerOK(w)'
  BY <1>3, <1>4, <1>5 DEF VisitOK, OwnerOK, Owns, dbVars
<1> QED
  BY <1>2, <1>3, <1>4, <1>5, <1>6, <1>7, <1>8, LocalStep

-----------------------------------------------------------------------------
(* The steps that write to the database.                                   *)
LEMMA StepClaim ==
  ASSUME IInv, NEW w \in Workers, ClaimOutboxEvent(w) PROVE IInv'
<1>1. /\ pc \in [Workers -> Steps] /\ batch \in [Workers -> SUBSET Events]
      /\ job \in [Workers -> Job] /\ crashes \in 0..MaxCrashes
      /\ outbox \in [Events -> OutboxRow]
  BY DEF IInv, TypeOK
<1>2. /\ UNCHANGED <<attemptLog, subState, batch, budgets>>
      /\ pc[w] = "claim" /\ pc' = [pc EXCEPT ![w] = "get"]
  BY DEF ClaimOutboxEvent
<1>3. PICK e \in Events, lag \in 0..MaxLag, t \in FreshTokens :
        /\ Due(outbox[e], lag)
        /\ outbox' = [outbox EXCEPT ![e].claimed_by = t,
                                   ![e].claim_expires_at = Lease - lag]
        /\ job' = [job EXCEPT ![w] = [NoJob EXCEPT !.event = e, !.token = t]]
  BY DEF ClaimOutboxEvent
<1>4. /\ t \in Tokens /\ t # NoToken /\ Lease - lag \in Int
      /\ \A f \in Events : outbox[f].claimed_by # t
      /\ \A v \in Workers : job[v].token # t
  <2>1. Lease \in Nat /\ MaxLag \in Nat /\ NoToken \notin Tokens
    BY OutboxAssumption
  <2> QED
    BY <2>1 DEF FreshTokens
<1>5. /\ job' \in [Workers -> Job]
      /\ job'[w].event = e /\ job'[w].token = t
      /\ job'[w].subs = {} /\ job'[w].todo = {} /\ job'[w].sub = NoSub
      /\ job'[w].rows = {} /\ job'[w].failed = FALSE
  <2>1. [NoJob EXCEPT !.event = e, !.token = t] \in Job
    BY <1>4, ClaimJobType
  <2> QED
    BY <1>1, <1>3, <2>1 DEF NoJob
<1>6. /\ pc'[w] = "get"
      /\ \A v \in Workers \ {w} : pc'[v] = pc[v] /\ job'[v] = job[v]
  BY <1>1, <1>2, <1>3
<1>7. /\ outbox' \in [Events -> OutboxRow]
      /\ outbox'[e].claimed_by = t
      /\ \A f \in Events :
           /\ outbox'[f].delivered = outbox[f].delivered
           /\ outbox'[f].dead_lettered = outbox[f].dead_lettered
           /\ outbox'[f].attempts = outbox[f].attempts
           /\ f # e => outbox'[f] = outbox[f]
  BY <1>1, <1>3, <1>4 DEF OutboxRow
<1>8. ~Settled(outbox[e])
  BY <1>3 DEF Due
<1>9. TypeOK'
  BY <1>1, <1>2, <1>5, <1>7 DEF IInv, TypeOK, Local, Steps, budgets
<1>10. WorkerOK(w)' /\ RowsOK(w)' /\ VisitOK(w)' /\ OwnerOK(w)'
  <2>1. WorkerOK(w)' /\ RowsOK(w)' /\ VisitOK(w)'
    BY <1>4, <1>5, <1>6 DEF WorkerOK, RowsOK, VisitOK
  <2> QED
    BY <1>5, <1>6, <1>7, <1>8, <2>1 DEF OwnerOK, Settled
<1>11. ASSUME NEW v \in Workers \ {w}
       PROVE  WorkerOK(v)' /\ RowsOK(v)' /\ VisitOK(v)' /\ OwnerOK(v)'
  <2>1. WorkerOK(v) /\ RowsOK(v) /\ VisitOK(v) /\ OwnerOK(v)
    BY DEF IInv
  <2>2. pc'[v] = pc[v] /\ job'[v] = job[v]
    BY <1>6
  <2>3. WorkerOK(v)' /\ RowsOK(v)' /\ VisitOK(v)'
    BY <1>2, <2>1, <2>2
       DEF WorkerOK, RowsOK, VisitOK, Reached, AlreadyDelivered
  <2>4. Owns(v)' => Owns(v)
    BY <1>4, <1>7, <2>2 DEF Owns
  <2>5. OwnerOK(v)'
    BY <1>2, <1>7, <2>1, <2>2, <2>4
       DEF OwnerOK, Owns, Settled, Reached, AlreadyDelivered
  <2> QED
    BY <2>3, <2>5
<1>12. TokensOK'
  <2>1. TokensOK
    BY DEF IInv
  <2> QED
    BY <1>4, <1>5, <1>6, <1>7, <2>1 DEF TokensOK
<1>13. DatabaseOK'
  <2>1. DatabaseOK
    BY DEF IInv
  <2>2. LogOK' /\ OneSuccessPerSubscription' /\ EveryAttemptIsAccountedFor'
    BY <1>1, <1>2, <1>7, <2>1
       DEF DatabaseOK, LogOK, OneSuccessPerSubscription,
           EveryAttemptIsAccountedFor, IInv, TypeOK, Attempt
  <2>3. DeadLetterAtLastAttempt'
    BY <1>7, <1>8, <2>1 DEF DatabaseOK, DeadLetterAtLastAttempt, Settled
  <2> QED
    BY <2>2, <2>3 DEF DatabaseOK
<1> QED
  BY <1>9, <1>10, <1>11, <1>12, <1>13 DEF IInv

(* What the committed row of an iteration holds.                           *)
LEMMA OutcomeFields ==
  ASSUME NEW w \in Workers, NEW row \in OutboxRow,
         job[w].attempts \in Nat
  PROVE  LET new == Unclaimed(Outcome(w, row)) IN
         /\ new \in OutboxRow
         /\ new.claimed_by = NoToken
         /\ new.attempts = job[w].attempts
         /\ new.delivered = IF job[w].failed THEN row.delivered ELSE TRUE
         /\ new.dead_lettered =
              IF job[w].failed /\ job[w].attempts >= MaxAttempts
                THEN TRUE ELSE row.dead_lettered
<1> DEFINE mid == Outcome(w, row)
<1>1. mid \in OutboxRow
  BY OutcomeType
<1>2. /\ mid.attempts = job[w].attempts
      /\ mid.delivered = IF job[w].failed THEN row.delivered ELSE TRUE
      /\ mid.dead_lettered =
           IF job[w].failed /\ job[w].attempts >= MaxAttempts
             THEN TRUE ELSE row.dead_lettered
  <2>1. CASE ~job[w].failed
    BY <2>1 DEF Outcome, OutboxRow
  <2>2. CASE job[w].failed /\ job[w].attempts >= MaxAttempts
    BY <2>2 DEF Outcome, OutboxRow
  <2>3. CASE job[w].failed /\ ~(job[w].attempts >= MaxAttempts)
    BY <2>3 DEF Outcome, OutboxRow
  <2> QED
    BY <2>1, <2>2, <2>3
<1> HIDE DEF mid
<1>3. /\ Unclaimed(mid) \in OutboxRow
      /\ Unclaimed(mid).claimed_by = NoToken
      /\ Unclaimed(mid).attempts = mid.attempts
      /\ Unclaimed(mid).delivered = mid.delivered
      /\ Unclaimed(mid).dead_lettered = mid.dead_lettered
  BY <1>1, PastType DEF Unclaimed, OutboxRow
<1> QED
  BY <1>2, <1>3 DEF mid

(* Nobody owns an event that is not claimed.                               *)
LEMMA OwnerHasToken ==
  ASSUME NEW w \in Workers, WorkerOK(w), job[w].event \in Events
  PROVE  job[w].token # NoToken
<1>1. NoEvent \notin Events /\ NoToken \notin Tokens
  BY OutboxAssumption
<1>2. NoJob.event = NoEvent
  BY DEF NoJob
<1> QED
  BY <1>1, <1>2 DEF WorkerOK

(* Another worker's part of the invariant survives a step that unclaims    *)
(* the row e, possibly writes its outcome and adds attempts of e.          *)
LEMMA OtherWorkerSettles ==
  ASSUME IInv, NEW e \in Events, NEW v \in Workers,
         pc'[v] = pc[v], job'[v] = job[v], subState' = subState,
         outbox'[e].claimed_by = NoToken,
         \A f \in Events \ {e} : outbox'[f] = outbox[f],
         attemptLog \subseteq attemptLog',
         \A a \in attemptLog' \ attemptLog : a.event = e
  PROVE  WorkerOK(v)' /\ RowsOK(v)' /\ VisitOK(v)' /\ OwnerOK(v)'
<1>1. WorkerOK(v) /\ RowsOK(v) /\ VisitOK(v) /\ OwnerOK(v)
  BY DEF IInv
<1>2. WorkerOK(v)' /\ RowsOK(v)'
  BY <1>1 DEF WorkerOK, RowsOK
<1>3. VisitOK(v)'
  BY <1>1 DEF VisitOK, Reached, AlreadyDelivered
<1>4. OwnerOK(v)'
  <2>1. SUFFICES ASSUME Owns(v)' PROVE OwnerOK(v)'
    BY DEF OwnerOK
  <2>2. job[v].event \in Events /\ job[v].token # NoToken
    BY <1>1, <2>1, OwnerHasToken DEF Owns
  <2>3. job[v].event # e
    BY <2>1, <2>2 DEF Owns
  <2>4. outbox'[job[v].event] = outbox[job[v].event] /\ Owns(v)
    BY <2>1, <2>2, <2>3 DEF Owns
  <2>5. \A s : AlreadyDelivered(job[v].event, s)'
                <=> AlreadyDelivered(job[v].event, s)
    BY <2>3 DEF AlreadyDelivered
  <2> QED
    BY <1>1, <2>4, <2>5 DEF OwnerOK, Owns, Settled, Reached
<1> QED
  BY <1>2, <1>3, <1>4

(* The release of a claim preserves the invariant.                         *)
LEMMA StepRelease ==
  ASSUME IInv, NEW w \in Workers, ReleaseOutboxClaim(w) PROVE IInv'
<1>1. /\ outbox \in [Events -> OutboxRow]
      /\ crashes \in 0..MaxCrashes /\ slips \in 0..MaxSlips
  BY DEF IInv, TypeOK
<1>2. /\ UNCHANGED <<attemptLog, subState, budgets>> /\ Restarted(w)
  BY DEF ReleaseOutboxClaim
<1>3. CASE ~Owns(w)
  <2>1. UNCHANGED <<dbVars, slips>>
    BY <1>2, <1>3 DEF ReleaseOutboxClaim, dbVars, budgets
  <2> QED
    BY <1>1, <1>2, <2>1, Cleared, LocalStep DEF budgets
<1>4. CASE Owns(w)
  <2> DEFINE e == job[w].event
  <2>1. e \in Events /\ outbox' = [outbox EXCEPT ![e] = Unclaimed(outbox[e])]
    BY <1>4 DEF ReleaseOutboxClaim, Owns
  <2> HIDE DEF e
  <2>2. /\ outbox' \in [Events -> OutboxRow]
        /\ outbox'[e].claimed_by = NoToken
        /\ \A f \in Events :
             /\ outbox'[f].delivered = outbox[f].delivered
             /\ outbox'[f].dead_lettered = outbox[f].dead_lettered
             /\ outbox'[f].attempts = outbox[f].attempts
             /\ f # e => outbox'[f] = outbox[f]
    <3>1. /\ Unclaimed(outbox[e]) \in OutboxRow
          /\ Unclaimed(outbox[e]).claimed_by = NoToken
          /\ Unclaimed(outbox[e]).attempts = outbox[e].attempts
          /\ Unclaimed(outbox[e]).delivered = outbox[e].delivered
          /\ Unclaimed(outbox[e]).dead_lettered = outbox[e].dead_lettered
      BY <1>1, <2>1, PastType DEF Unclaimed, OutboxRow
    <3> QED
      BY <1>1, <2>1, <3>1
  <2>3. TypeOK'
    BY <1>1, <1>2, <2>2, Cleared DEF IInv, TypeOK, Local, budgets
  <2>4. \A v \in Workers :
          WorkerOK(v)' /\ RowsOK(v)' /\ VisitOK(v)' /\ OwnerOK(v)'
    BY <1>2, <2>1, <2>2, Cleared, OtherWorkerSettles
  <2>5. TokensOK'
    <3>1. TokensOK
      BY DEF IInv
    <3> QED
      BY <1>2, <2>2, <3>1, Cleared DEF TokensOK
  <2>6. DatabaseOK'
    <3>1. DatabaseOK
      BY DEF IInv
    <3>2. LogOK' /\ OneSuccessPerSubscription' /\ EveryAttemptIsAccountedFor'
      BY <1>2, <2>2, <3>1
         DEF DatabaseOK, LogOK, OneSuccessPerSubscription,
             EveryAttemptIsAccountedFor, IInv, TypeOK, Attempt
    <3>3. DeadLetterAtLastAttempt'
      BY <2>2, <3>1 DEF DatabaseOK, DeadLetterAtLastAttempt, Settled
    <3> QED
      BY <3>2, <3>3 DEF DatabaseOK
  <2> QED
    BY <2>3, <2>4, <2>5, <2>6 DEF IInv
<1> QED
  BY <1>3, <1>4

(* What Finalize writes: the outcome of the event that w owns, and the     *)
(* attempts of the iteration.                                              *)
LEMMA FinalizeWrites ==
  ASSUME IInv, NEW w \in Workers, Finalize(w)
  PROVE  LET e == job[w].event IN
         /\ e \in Events /\ Owns(w)
         /\ outbox' \in [Events -> OutboxRow]
         /\ outbox'[e].claimed_by = NoToken
         /\ outbox'[e].attempts = job[w].attempts
         /\ outbox'[e].delivered = ~job[w].failed
         /\ outbox'[e].dead_lettered =
              (job[w].failed /\ job[w].attempts >= MaxAttempts)
         /\ \A f \in Events \ {e} : outbox'[f] = outbox[f]
         /\ attemptLog' = attemptLog \cup job[w].rows
<1>1. /\ outbox \in [Events -> OutboxRow] /\ job \in [Workers -> Job]
      /\ OwnerOK(w)
  BY DEF IInv, TypeOK
<1>2. Owns(w)
  BY DEF Finalize, Fenced
<1> DEFINE e == job[w].event
           new == Unclaimed(Outcome(w, outbox[e]))
<1>3. /\ e \in Events /\ outbox' = [outbox EXCEPT ![e] = new]
      /\ attemptLog' = attemptLog \cup job[w].rows
  BY <1>2 DEF Finalize, Owns
<1>4. /\ outbox[e] \in OutboxRow /\ job[w].attempts \in Nat
      /\ job[w].failed \in BOOLEAN
  BY <1>1, <1>3 DEF Job
<1>5. ~outbox[e].delivered /\ ~outbox[e].dead_lettered
      /\ outbox[e].delivered \in BOOLEAN /\ outbox[e].dead_lettered \in BOOLEAN
  BY <1>1, <1>2, <1>4 DEF OwnerOK, Settled, OutboxRow
<1>6. /\ new \in OutboxRow
      /\ new.claimed_by = NoToken
      /\ new.attempts = job[w].attempts
      /\ new.delivered = IF job[w].failed THEN outbox[e].delivered ELSE TRUE
      /\ new.dead_lettered =
           IF job[w].failed /\ job[w].attempts >= MaxAttempts
             THEN TRUE ELSE outbox[e].dead_lettered
  BY <1>4, OutcomeFields
<1> HIDE DEF new
<1>7. /\ new.delivered = ~job[w].failed
      /\ new.dead_lettered =
           (job[w].failed /\ job[w].attempts >= MaxAttempts)
  BY <1>4, <1>5, <1>6
<1> QED
  BY <1>1, <1>2, <1>3, <1>6, <1>7

(* What w knows when it finalizes.                                         *)
LEMMA FinalizeKnows ==
  ASSUME IInv, NEW w \in Workers, Finalize(w)
  PROVE  LET e == job[w].event IN
         /\ ~outbox[e].delivered /\ ~outbox[e].dead_lettered
         /\ outbox[e].attempts \in Nat /\ outbox[e].attempts < MaxAttempts
         /\ job[w].attempts \in Nat
         /\ \/ job[w].attempts = outbox[e].attempts + 1
            \/ /\ job[w].attempts = outbox[e].attempts
               /\ job[w].rows = {} /\ ~job[w].failed
         /\ \A r \in job[w].rows :
              /\ r.event = e /\ r.number = job[w].attempts
              /\ r.sub \in Subs \ Reached(e)
         /\ \A q, r \in job[w].rows : q.sub = r.sub => q = r
         /\ job[w].failed <=> \E r \in job[w].rows : ~r.successful
<1>1. /\ outbox \in [Events -> OutboxRow] /\ job \in [Workers -> Job]
      /\ OwnerOK(w) /\ RowsOK(w) /\ pc[w] = "settle" /\ Owns(w)
      /\ DeadLetterAtLastAttempt
  BY DEF IInv, TypeOK, Finalize, Fenced, DatabaseOK
<1> DEFINE e == job[w].event
<1>2. e \in Events
  BY <1>1 DEF Owns
<1>3. ~outbox[e].delivered /\ ~outbox[e].dead_lettered
  BY <1>1 DEF OwnerOK, Settled
<1>4. outbox[e].attempts \in Nat /\ job[w].attempts \in Nat
      /\ job[w].subs \subseteq Subs /\ MaxAttempts \in Nat
  BY <1>1, <1>2, RowEdits, OutboxAssumption DEF Job
<1>5. outbox[e].attempts < MaxAttempts
  BY <1>1, <1>2, <1>3, <1>4 DEF DeadLetterAtLastAttempt
<1>6. job[w].attempts = outbox[e].attempts
                          + (IF job[w].subs = {} THEN 0 ELSE 1)
  BY <1>1 DEF OwnerOK
<1>7. job[w].subs = {} => job[w].rows = {} /\ ~job[w].failed
  BY <1>1 DEF RowsOK
<1>8. \A r \in job[w].rows :
        /\ r.event = e /\ r.number = job[w].attempts
        /\ r.sub \in Subs \ Reached(e)
  BY <1>1, <1>4 DEF RowsOK, OwnerOK
<1> QED
  <2>1. CASE job[w].subs = {}
    BY <1>1, <1>3, <1>4, <1>5, <1>6, <1>7, <1>8, <2>1 DEF RowsOK
  <2>2. CASE job[w].subs # {}
    BY <1>1, <1>3, <1>4, <1>5, <1>6, <1>8, <2>2 DEF RowsOK
  <2> QED
    BY <2>1, <2>2

(* The commit of an outcome preserves the invariant.                       *)
LEMMA StepFinalize ==
  ASSUME IInv, NEW w \in Workers, Finalize(w) PROVE IInv'
<1> DEFINE e == job[w].event
<1>1. /\ e \in Events
      /\ outbox' \in [Events -> OutboxRow]
      /\ outbox'[e].claimed_by = NoToken
      /\ outbox'[e].attempts = job[w].attempts
      /\ outbox'[e].delivered = ~job[w].failed
      /\ outbox'[e].dead_lettered =
           (job[w].failed /\ job[w].attempts >= MaxAttempts)
      /\ \A f \in Events \ {e} : outbox'[f] = outbox[f]
      /\ attemptLog' = attemptLog \cup job[w].rows
  BY FinalizeWrites
<1>2. /\ ~outbox[e].delivered /\ ~outbox[e].dead_lettered
      /\ outbox[e].attempts \in Nat /\ outbox[e].attempts < MaxAttempts
      /\ job[w].attempts \in Nat
      /\ \/ job[w].attempts = outbox[e].attempts + 1
         \/ /\ job[w].attempts = outbox[e].attempts
            /\ job[w].rows = {} /\ ~job[w].failed
      /\ \A r \in job[w].rows :
           /\ r.event = e /\ r.number = job[w].attempts
           /\ r.sub \in Subs \ Reached(e)
      /\ \A q, r \in job[w].rows : q.sub = r.sub => q = r
      /\ job[w].failed <=> \E r \in job[w].rows : ~r.successful
  BY FinalizeKnows
<1>3. /\ UNCHANGED <<subState, budgets>> /\ EndIteration(w)
      /\ attemptLog \subseteq Attempt /\ job[w].rows \subseteq Attempt
      /\ TokensOK /\ DatabaseOK /\ MaxAttempts \in Nat
  BY OutboxAssumption DEF Finalize, IInv, TypeOK, Job
<1> HIDE DEF e
<1>4. TypeOK'
  BY <1>1, <1>3, Cleared DEF IInv, TypeOK, Local, budgets
<1>5. \A v \in Workers :
        WorkerOK(v)' /\ RowsOK(v)' /\ VisitOK(v)' /\ OwnerOK(v)'
  BY <1>1, <1>2, <1>3, Cleared, OtherWorkerSettles
<1>6. TokensOK'
  BY <1>1, <1>3, Cleared DEF TokensOK
<1>7. LogOK'
  <2>1. ASSUME NEW a \in attemptLog PROVE a.number \in 1..outbox'[a.event].attempts
    <3>1. a.event \in Events /\ a.number \in 1..outbox[a.event].attempts
      BY <1>3 DEF DatabaseOK, LogOK, Attempt
    <3>2. CASE a.event = e
      BY <1>1, <1>2, <3>1, <3>2
    <3>3. CASE a.event # e
      BY <1>1, <3>1, <3>3
    <3> QED
      BY <3>2, <3>3
  <2>2. ASSUME NEW a \in job[w].rows
        PROVE  a.number \in 1..outbox'[a.event].attempts
    BY <1>1, <1>2
  <2> QED
    BY <1>1, <2>1, <2>2 DEF LogOK
<1>8. DeadLetterAtLastAttempt'
  <2>1. ASSUME NEW f \in Events \ {e}
        PROVE  LET row == outbox'[f] IN
               /\ row.dead_lettered <=> ~row.delivered /\ row.attempts = MaxAttempts
               /\ row.attempts <= MaxAttempts
               /\ Settled(row) => row.claimed_by = NoToken
    BY <1>1, <1>3 DEF DatabaseOK, DeadLetterAtLastAttempt
  <2>2. /\ outbox'[e].dead_lettered <=>
             ~outbox'[e].delivered /\ outbox'[e].attempts = MaxAttempts
        /\ outbox'[e].attempts <= MaxAttempts
    <3>1. CASE job[w].failed
      <4>1. job[w].attempts <= MaxAttempts
        BY <1>2, <1>3, <3>1
      <4>2. job[w].attempts >= MaxAttempts <=> job[w].attempts = MaxAttempts
        BY <1>2, <1>3, <4>1
      <4> QED
        BY <1>1, <3>1, <4>1, <4>2
    <3>2. CASE ~job[w].failed
      <4>1. job[w].attempts <= MaxAttempts
        BY <1>2, <1>3
      <4> QED
        BY <1>1, <3>2, <4>1
    <3> QED
      BY <3>1, <3>2
  <2> QED
    BY <1>1, <2>1, <2>2 DEF DeadLetterAtLastAttempt
<1>9. OneSuccessPerSubscription'
  <2>1. ASSUME NEW a \in attemptLog, NEW r \in job[w].rows,
               a.event = r.event, a.sub = r.sub, a.successful, r.successful
        PROVE  FALSE
    BY <1>2, <2>1 DEF Reached, AlreadyDelivered
  <2>2. \A a, b \in attemptLog :
          a.event = b.event /\ a.sub = b.sub /\ a.successful /\ b.successful
            => a = b
    BY <1>3 DEF DatabaseOK, OneSuccessPerSubscription
  <2> QED
    BY <1>1, <1>2, <2>1, <2>2 DEF OneSuccessPerSubscription
<1>10. EveryAttemptIsAccountedFor'
  <2>1. ASSUME NEW f \in Events, NEW n \in 1..outbox'[f].attempts
        PROVE  \/ outbox'[f].delivered /\ n = outbox'[f].attempts
               \/ \E a \in attemptLog' :
                    a.event = f /\ a.number = n /\ ~a.successful
    <3>1. CASE f # e
      BY <1>1, <1>3, <2>1, <3>1 DEF DatabaseOK, EveryAttemptIsAccountedFor
    <3>2. CASE f = e /\ n \in 1..outbox[e].attempts
      BY <1>1, <1>2, <1>3, <3>2 DEF DatabaseOK, EveryAttemptIsAccountedFor
    <3>3. CASE f = e /\ n \notin 1..outbox[e].attempts
      <4>1. n = job[w].attempts
        BY <1>1, <1>2, <2>1, <3>3
      <4> QED
        BY <1>1, <1>2, <3>3, <4>1
    <3> QED
      BY <3>1, <3>2, <3>3
  <2> QED
    BY <2>1 DEF EveryAttemptIsAccountedFor
<1> QED
  BY <1>4, <1>5, <1>6, <1>7, <1>8, <1>9, <1>10 DEF IInv, DatabaseOK

-----------------------------------------------------------------------------
(* The steps of the API and of time.                                       *)
LEMMA StepSubscription ==
  ASSUME IInv, NEW s \in Subs,
         CreateWebhook(s) \/ DisableWebhookSubscription(s)
  PROVE  IInv'
<1>1. /\ UNCHANGED <<outbox, attemptLog, pc, batch, job, budgets>>
      /\ \/ subState[s] = "absent"
            /\ subState' = [subState EXCEPT ![s] = "enabled"]
         \/ subState[s] = "enabled"
            /\ subState' = [subState EXCEPT ![s] = "disabled"]
      /\ subState \in [Subs -> {"absent", "enabled", "disabled"}]
      /\ job \in [Workers -> Job]
  BY DEF CreateWebhook, DisableWebhookSubscription, IInv, TypeOK
<1>2. TypeOK'
  BY <1>1 DEF IInv, TypeOK, budgets
<1>3. \A x \in Subs : /\ subState[x] # "absent" => subState'[x] # "absent"
                     /\ subState[x] = "disabled" => subState'[x] = "disabled"
  BY <1>1
<1>4. ASSUME NEW v \in Workers
      PROVE  WorkerOK(v)' /\ RowsOK(v)' /\ VisitOK(v)' /\ OwnerOK(v)'
  <2>1. WorkerOK(v) /\ RowsOK(v) /\ VisitOK(v) /\ OwnerOK(v)
        /\ job[v].subs \subseteq Subs
    BY <1>1 DEF IInv, Job
  <2>2. WorkerOK(v)' /\ RowsOK(v)'
    BY <1>1, <2>1 DEF WorkerOK, RowsOK
  <2>3. OwnerOK(v)'
    BY <1>1, <2>1 DEF OwnerOK, Owns, Settled, Reached, AlreadyDelivered
  <2>4. VisitOK(v)'
    BY <1>1, <1>3, <2>1 DEF VisitOK, Reached, AlreadyDelivered
  <2> QED
    BY <2>2, <2>3, <2>4
<1>5. TokensOK' /\ DatabaseOK'
  BY <1>1 DEF IInv, TokensOK, DatabaseOK, LogOK, DeadLetterAtLastAttempt,
              OneSuccessPerSubscription, EveryAttemptIsAccountedFor
<1> QED
  BY <1>2, <1>4, <1>5 DEF IInv

(* The passing of time preserves the invariant.                            *)
LEMMA StepTick == ASSUME IInv, Tick PROVE IInv'
<1>1. /\ UNCHANGED <<attemptLog, subState, pc, batch, job, crashes>>
      /\ outbox \in [Events -> OutboxRow]
      /\ outbox' = [e \in Events |->
           [outbox[e] EXCEPT !.next_attempt_at = Later(@),
                             !.claim_expires_at = Later(@)]]
  BY DEF Tick, IInv, TypeOK
<1>2. \A n \in Int : Later(n) \in Int
  BY PastType DEF Later
<1>3. ASSUME NEW e \in Events
      PROVE  /\ outbox'[e] \in OutboxRow
             /\ outbox'[e].delivered = outbox[e].delivered
             /\ outbox'[e].dead_lettered = outbox[e].dead_lettered
             /\ outbox'[e].attempts = outbox[e].attempts
             /\ outbox'[e].claimed_by = outbox[e].claimed_by
  <2>1. /\ outbox[e] \in OutboxRow
        /\ Later(outbox[e].next_attempt_at) \in Int
        /\ Later(outbox[e].claim_expires_at) \in Int
    BY <1>1, <1>2 DEF OutboxRow
  <2>2. outbox'[e] = [outbox[e] EXCEPT
           !.next_attempt_at = Later(outbox[e].next_attempt_at),
           !.claim_expires_at = Later(outbox[e].claim_expires_at)]
    BY <1>1
  <2>3. outbox'[e] \in OutboxRow
    BY <2>1, <2>2, TickEdit
  <2> QED
    BY <2>1, <2>2, <2>3 DEF OutboxRow
<1>4. slips' \in 0..MaxSlips
  <2>1. MaxSlips \in Nat /\ slips \in 0..MaxSlips
    BY OutboxAssumption DEF IInv, TypeOK
  <2>2. slips' = slips \/ (slips < MaxSlips /\ slips' = slips + 1)
    BY DEF Tick
  <2> QED
    BY <2>1, <2>2
<1>5. outbox' \in [Events -> OutboxRow]
  BY <1>1, <1>3
<1>6. TypeOK'
  BY <1>1, <1>4, <1>5 DEF IInv, TypeOK
<1>7. ASSUME NEW v \in Workers
      PROVE  WorkerOK(v)' /\ RowsOK(v)' /\ VisitOK(v)' /\ OwnerOK(v)'
  <2>1. WorkerOK(v) /\ RowsOK(v) /\ VisitOK(v) /\ OwnerOK(v)
    BY DEF IInv
  <2>2. WorkerOK(v)' /\ RowsOK(v)' /\ VisitOK(v)'
    BY <1>1, <2>1 DEF WorkerOK, RowsOK, VisitOK, Reached, AlreadyDelivered
  <2>3. OwnerOK(v)'
    BY <1>1, <1>3, <2>1 DEF OwnerOK, Owns, Settled, Reached, AlreadyDelivered
  <2> QED
    BY <2>2, <2>3
<1>8. TokensOK'
  BY <1>1, <1>3 DEF IInv, TokensOK
<1>9. DatabaseOK'
  <2>1. DatabaseOK /\ attemptLog \subseteq Attempt
    BY DEF IInv, TypeOK
  <2>2. LogOK'
    BY <1>1, <1>3, <2>1 DEF DatabaseOK, LogOK, Attempt
  <2>3. DeadLetterAtLastAttempt'
    BY <1>3, <2>1 DEF DatabaseOK, DeadLetterAtLastAttempt, Settled
  <2>4. OneSuccessPerSubscription'
    BY <1>1, <2>1 DEF DatabaseOK, OneSuccessPerSubscription
  <2>5. ASSUME NEW e \in Events, NEW n \in 1..outbox'[e].attempts
        PROVE  \/ outbox'[e].delivered /\ n = outbox'[e].attempts
               \/ \E a \in attemptLog' :
                    a.event = e /\ a.number = n /\ ~a.successful
    <3>1. n \in 1..outbox[e].attempts
      BY <1>3
    <3>2. \/ outbox[e].delivered /\ n = outbox[e].attempts
          \/ \E a \in attemptLog :
               a.event = e /\ a.number = n /\ ~a.successful
      BY <2>1, <3>1 DEF DatabaseOK, EveryAttemptIsAccountedFor
    <3> QED
      BY <1>1, <1>3, <3>2
  <2>6. EveryAttemptIsAccountedFor'
    BY <2>5 DEF EveryAttemptIsAccountedFor
  <2> QED
    BY <2>2, <2>3, <2>4, <2>6 DEF DatabaseOK
<1> QED
  BY <1>6, <1>7, <1>8, <1>9 DEF IInv

-----------------------------------------------------------------------------
(* The inductive invariant holds at the start.                             *)
LEMMA InitIInv == Init => IInv
<1> SUFFICES ASSUME Init PROVE IInv
  OBVIOUS
<1>1. TypeOK
  BY InitTypeOK
<1>2. MaxAttempts \in Nat \ {0} /\ NoEvent \notin Events
  BY OutboxAssumption
<1>3. /\ NoJob.event = NoEvent /\ NoJob.token = NoToken /\ NoJob.subs = {}
      /\ NoJob.todo = {} /\ NoJob.sub = NoSub /\ NoJob.rows = {}
      /\ NoJob.failed = FALSE
  BY DEF NoJob
<1>4. \A w \in Workers : job[w] = NoJob /\ pc[w] = "idle"
  BY DEF Init
<1>5. ASSUME NEW w \in Workers
      PROVE  WorkerOK(w) /\ RowsOK(w) /\ VisitOK(w) /\ OwnerOK(w)
  BY <1>2, <1>3, <1>4 DEF WorkerOK, RowsOK, VisitOK, OwnerOK, Owns
<1>6. TokensOK
  BY <1>3, <1>4 DEF TokensOK
<1>7. \A e \in Events : /\ ~outbox[e].delivered /\ ~outbox[e].dead_lettered
                       /\ outbox[e].attempts = 0
  BY DEF Init
<1>8. attemptLog = {}
  BY DEF Init
<1>9. DatabaseOK
  BY <1>2, <1>7, <1>8
     DEF DatabaseOK, LogOK, DeadLetterAtLastAttempt, Settled,
         OneSuccessPerSubscription, EveryAttemptIsAccountedFor
<1> QED
  BY <1>1, <1>5, <1>6, <1>9 DEF IInv

(* Every step preserves the inductive invariant.                           *)
LEMMA NextIInv == IInv /\ [Next]_vars => IInv'
<1> SUFFICES ASSUME IInv, [Next]_vars PROVE IInv'
  OBVIOUS
<1>1. ASSUME NEW w \in Workers,
             WorkerStep(w) \/ CommitFails(w) \/ Crash(w)
      PROVE  IInv'
  BY <1>1, StepSelectDue, StepClaim, StepClaimMisses, StepGetEvent,
     StepLoadSubscriptions, StepCheckDelivered, StepRecheckEnabled, StepPost,
     StepLeaveSubs, StepFinalize, StepFenceLost, StepRelease,
     StepCommitFails, StepCrash
     DEF WorkerStep
<1>2. ASSUME UNCHANGED vars PROVE IInv'
  <2>1. /\ UNCHANGED <<dbVars, slips>> /\ UNCHANGED <<pc, batch, job, crashes>>
    BY <1>2 DEF vars, dbVars
  <2>2. TypeOK'
    BY <2>1 DEF IInv, TypeOK, dbVars
  <2>3. \A v \in Workers :
          WorkerOK(v)' /\ RowsOK(v)' /\ VisitOK(v)' /\ OwnerOK(v)'
    BY <2>1, UntouchedWorker
  <2>4. TokensOK' /\ DatabaseOK'
    BY <2>1, UntouchedDatabase DEF IInv, TokensOK, dbVars
  <2> QED
    BY <2>2, <2>3, <2>4 DEF IInv
<1> QED
  BY <1>1, <1>2, StepSubscription, StepTick DEF Next

(* The invariant holds in every reachable state.                           *)
THEOREM Invariance == Spec => []IInv
  BY InitIInv, NextIInv, PTL DEF Spec

(* Rows, attempts, subscriptions and the memory of the workers keep their  *)
(* types, for any number of each.                                          *)
THEOREM Typing == Spec => []TypeOK
  BY Invariance, PTL DEF IInv

(* At most one success per event and subscription is ever committed,       *)
(* whatever the workers, the leases and the crashes.                       *)
THEOREM OneSuccess == Spec => []OneSuccessPerSubscription
  BY Invariance, PTL DEF IInv, DatabaseOK

(* Every number up to a row's attempts has its committed attempts: none is *)
(* burned by a crash or a lost fence.                                      *)
THEOREM AttemptsAccountedFor == Spec => []EveryAttemptIsAccountedFor
  BY Invariance, PTL DEF IInv, DatabaseOK

(* An event is dead-lettered at the last attempt, and not before.          *)
THEOREM DeadLetters == Spec => []DeadLetterAtLastAttempt
  BY Invariance, PTL DEF IInv, DatabaseOK

(* A worker whose claim stands has an attempt number nobody has used.      *)
THEOREM FreshAttemptNumbers == Spec => []AttemptNumberIsFresh
<1>1. IInv => AttemptNumberIsFresh
  <2> SUFFICES ASSUME IInv, NEW w \in Workers, Owns(w), job[w].rows # {}
               PROVE  /\ job[w].attempts = outbox[job[w].event].attempts + 1
                      /\ \A a \in attemptLog :
                           a.event = job[w].event => a.number < job[w].attempts
    BY DEF AttemptNumberIsFresh
  <2>1. /\ OwnerOK(w) /\ WorkerOK(w) /\ RowsOK(w) /\ LogOK
        /\ outbox \in [Events -> OutboxRow] /\ job[w].event \in Events
    BY DEF IInv, TypeOK, DatabaseOK, Owns
  <2>2. job[w].subs # {} /\ pc[w] # "get"
    BY <2>1 DEF WorkerOK, RowsOK
  <2>3. outbox[job[w].event].attempts \in Nat
    BY <2>1, RowEdits
  <2>4. job[w].attempts = outbox[job[w].event].attempts + 1
    BY <2>1, <2>2 DEF OwnerOK
  <2> QED
    BY <2>1, <2>3, <2>4 DEF LogOK
<1> QED
  BY <1>1, Invariance, PTL

(* No POST of the owner goes to a subscription that already has a success. *)
THEOREM NoRepost == Spec => []OwnerNeverRepostsSuccess
<1>1. IInv => OwnerNeverRepostsSuccess
  BY DEF IInv, OwnerOK, OwnerNeverRepostsSuccess
<1> QED
  BY <1>1, Invariance, PTL

-----------------------------------------------------------------------------
(* Only four actions write the rows or the attempts.                       *)
LEMMA DatabaseWriters ==
  ASSUME [Next]_vars
  PROVE  \/ outbox' = outbox /\ attemptLog' = attemptLog
         \/ Tick
         \/ \E w \in Workers :
              ClaimOutboxEvent(w) \/ Finalize(w) \/ ReleaseOutboxClaim(w)
<1>1. ASSUME NEW w \in Workers,
             \/ SelectDue(w) \/ ClaimMisses(w) \/ GetEvent(w)
             \/ LoadSubscriptions(w) \/ CheckDelivered(w)
             \/ RecheckEnabled(w) \/ Post(w, TRUE) \/ Post(w, FALSE)
             \/ LeaveSubs(w) \/ FenceLost(w) \/ CommitFails(w) \/ Crash(w)
      PROVE  outbox' = outbox /\ attemptLog' = attemptLog
  BY <1>1 DEF SelectDue, ClaimMisses, GetEvent, LoadSubscriptions,
              CheckDelivered, RecheckEnabled, Post, LeaveSubs, FenceLost,
              CommitFails, Crash, dbVars
<1>2. ASSUME NEW s \in Subs,
             CreateWebhook(s) \/ DisableWebhookSubscription(s)
      PROVE  outbox' = outbox /\ attemptLog' = attemptLog
  BY <1>2 DEF CreateWebhook, DisableWebhookSubscription
<1>3. CASE UNCHANGED vars
  BY <1>3 DEF vars
<1> QED
  BY <1>1, <1>2, <1>3 DEF Next, WorkerStep

(* What each of them leaves of a row.                                      *)
LEMMA ClaimFields ==
  ASSUME IInv, NEW w \in Workers, ClaimOutboxEvent(w), NEW f \in Events
  PROVE  /\ outbox'[f].delivered = outbox[f].delivered
         /\ outbox'[f].dead_lettered = outbox[f].dead_lettered
         /\ outbox'[f].attempts = outbox[f].attempts
         /\ \/ outbox'[f] = outbox[f]
            \/ /\ ~Settled(outbox[f])
               /\ \E lag \in 0..MaxLag : Due(outbox[f], lag)
         /\ attemptLog' = attemptLog
<1>1. outbox \in [Events -> OutboxRow]
  BY DEF IInv, TypeOK
<1>2. PICK e \in Events, lag \in 0..MaxLag, t \in FreshTokens :
        /\ Due(outbox[e], lag)
        /\ outbox' = [outbox EXCEPT ![e].claimed_by = t,
                                   ![e].claim_expires_at = Lease - lag]
  BY DEF ClaimOutboxEvent
<1>3. /\ outbox'[f].delivered = outbox[f].delivered
      /\ outbox'[f].dead_lettered = outbox[f].dead_lettered
      /\ outbox'[f].attempts = outbox[f].attempts
      /\ f # e => outbox'[f] = outbox[f]
  BY <1>1, <1>2 DEF OutboxRow
<1> QED
  BY <1>2, <1>3 DEF ClaimOutboxEvent, Due

(* What a release leaves of the row it writes.                             *)
LEMMA ReleaseFields ==
  ASSUME IInv, NEW w \in Workers, ReleaseOutboxClaim(w), NEW f \in Events
  PROVE  /\ outbox'[f].delivered = outbox[f].delivered
         /\ outbox'[f].dead_lettered = outbox[f].dead_lettered
         /\ outbox'[f].attempts = outbox[f].attempts
         /\ \/ outbox'[f] = outbox[f]
            \/ Owns(w) /\ f = job[w].event
         /\ attemptLog' = attemptLog
<1>1. outbox \in [Events -> OutboxRow]
  BY DEF IInv, TypeOK
<1>2. CASE ~Owns(w)
  BY <1>2 DEF ReleaseOutboxClaim
<1>3. CASE Owns(w)
  <2>1. /\ job[w].event \in Events /\ outbox[f] \in OutboxRow
        /\ outbox' = [outbox EXCEPT ![job[w].event] =
                        Unclaimed(outbox[job[w].event])]
    BY <1>1, <1>3 DEF ReleaseOutboxClaim, Owns
  <2>2. /\ Unclaimed(outbox[f]).attempts = outbox[f].attempts
        /\ Unclaimed(outbox[f]).delivered = outbox[f].delivered
        /\ Unclaimed(outbox[f]).dead_lettered = outbox[f].dead_lettered
    BY <2>1 DEF Unclaimed, OutboxRow
  <2> QED
    BY <1>1, <1>3, <2>1, <2>2 DEF ReleaseOutboxClaim
<1> QED
  BY <1>2, <1>3

(* What the passing of time leaves of a row.                               *)
LEMMA TickFields ==
  ASSUME IInv, Tick, NEW f \in Events
  PROVE  /\ outbox'[f].delivered = outbox[f].delivered
         /\ outbox'[f].dead_lettered = outbox[f].dead_lettered
         /\ outbox'[f].attempts = outbox[f].attempts
         /\ outbox'[f].claimed_by = outbox[f].claimed_by
         /\ attemptLog' = attemptLog
<1>1. outbox[f] \in OutboxRow
  BY DEF IInv, TypeOK
<1>2. outbox'[f] = [outbox[f] EXCEPT
           !.next_attempt_at = Later(outbox[f].next_attempt_at),
           !.claim_expires_at = Later(outbox[f].claim_expires_at)]
  BY DEF Tick
<1> QED
  BY <1>1, <1>2 DEF OutboxRow, Tick

(* Nothing that a worker still does changes a settled event.               *)
THEOREM Finality == Spec => SettledIsFinal
<1>1. ASSUME IInv, [Next]_vars
      PROVE  [\A e \in Events : Settled(outbox[e]) =>
                /\ outbox'[e].delivered = outbox[e].delivered
                /\ outbox'[e].dead_lettered = outbox[e].dead_lettered
                /\ outbox'[e].attempts = outbox[e].attempts
                /\ outbox'[e].claimed_by = NoToken
                /\ {a \in attemptLog' : a.event = e} \subseteq attemptLog]_vars
  <2> SUFFICES ASSUME NEW e \in Events, Settled(outbox[e])
        PROVE   /\ outbox'[e].delivered = outbox[e].delivered
                /\ outbox'[e].dead_lettered = outbox[e].dead_lettered
                /\ outbox'[e].attempts = outbox[e].attempts
                /\ outbox'[e].claimed_by = NoToken
                /\ {a \in attemptLog' : a.event = e} \subseteq attemptLog
    OBVIOUS
  <2>1. outbox[e].claimed_by = NoToken
    BY <1>1 DEF IInv, DatabaseOK, DeadLetterAtLastAttempt
  <2>2. CASE outbox' = outbox /\ attemptLog' = attemptLog
    BY <2>1, <2>2
  <2>3. CASE Tick
    BY <1>1, <2>1, <2>3, TickFields
  <2>4. ASSUME NEW w \in Workers, ClaimOutboxEvent(w)
        PROVE  outbox'[e] = outbox[e] /\ attemptLog' = attemptLog
    BY <1>1, <2>4, ClaimFields
  <2>5. ASSUME NEW w \in Workers, Owns(w) PROVE e # job[w].event
    BY <1>1, <2>5 DEF IInv, OwnerOK
  <2>6. ASSUME NEW w \in Workers, ReleaseOutboxClaim(w)
        PROVE  outbox'[e] = outbox[e] /\ attemptLog' = attemptLog
    BY <1>1, <2>5, <2>6, ReleaseFields
  <2>7. ASSUME NEW w \in Workers, Finalize(w)
        PROVE  /\ outbox'[e] = outbox[e]
               /\ {a \in attemptLog' : a.event = e} \subseteq attemptLog
    BY <1>1, <2>5, <2>7, FinalizeWrites, FinalizeKnows
  <2> QED
    BY <1>1, <2>1, <2>2, <2>3, <2>4, <2>6, <2>7, DatabaseWriters
<1> QED
  BY <1>1, Invariance, PTL DEF Spec, SettledIsFinal

(* A claim with time left on its lease stays with the worker at work.      *)
THEOREM LiveClaims == Spec => LiveClaimNotStolen
<1>1. ASSUME IInv, IInv', [Next]_vars
      PROVE  [\A w \in Workers :
                /\ Owns(w)
                /\ outbox[job[w].event].claim_expires_at > 0
                /\ job'[w].token = job[w].token
                => Owns(w)']_vars
  <2> SUFFICES ASSUME NEW w \in Workers, Owns(w),
                      outbox[job[w].event].claim_expires_at > 0,
                      job'[w].token = job[w].token
               PROVE  Owns(w)'
    OBVIOUS
  <2>1. PICK e \in Events : e = job[w].event
    BY DEF Owns
  <2>2. /\ outbox[e].claimed_by = job[w].token /\ job[w].token # NoToken
        /\ outbox[e] \in OutboxRow
    BY <1>1, <2>1, OwnerHasToken DEF Owns, IInv, TypeOK
  <2>3. ASSUME NEW v \in Workers, ClaimOutboxEvent(v)
        PROVE  outbox'[e] = outbox[e]
    <3>1. ASSUME NEW lag \in 0..MaxLag PROVE ~Due(outbox[e], lag)
      <4>1. MaxLag \in Nat /\ outbox[e].claim_expires_at \in Int
        BY <2>2, OutboxAssumption DEF OutboxRow
      <4> QED
        BY <2>1, <2>2, <3>1, <4>1 DEF Due
    <3> QED
      BY <1>1, <2>3, <3>1, ClaimFields
  <2>4. ASSUME NEW v \in Workers, Owns(v), job'[v] = NoJob
        PROVE  job[v].event # e
    <3>1. NoJob.token = NoToken
      BY DEF NoJob
    <3>2. v # w
      BY <2>2, <2>4, <3>1
    <3> QED
      BY <1>1, <2>2, <2>4, <3>2 DEF IInv, TokensOK, Owns
  <2>5. ASSUME NEW v \in Workers, ReleaseOutboxClaim(v)
        PROVE  outbox'[e] = outbox[e]
    BY <1>1, <2>4, <2>5, ReleaseFields, Cleared DEF ReleaseOutboxClaim
  <2>6. ASSUME NEW v \in Workers, Finalize(v)
        PROVE  outbox'[e] = outbox[e]
    BY <1>1, <2>4, <2>6, FinalizeWrites, Cleared DEF Finalize
  <2>7. outbox'[e].claimed_by = outbox[e].claimed_by
    BY <1>1, <2>3, <2>5, <2>6, DatabaseWriters, TickFields
  <2>8. TokensOK'
    BY <1>1 DEF IInv
  <2>9. outbox'[e].claimed_by = job'[w].token /\ job'[w].token # NoToken
    BY <2>2, <2>7
  <2>10. e = job'[w].event
    BY <2>8, <2>9 DEF TokensOK
  <2> QED
    BY <2>9, <2>10 DEF Owns
<1> QED
  BY <1>1, Invariance, PTL DEF Spec, LiveClaimNotStolen

(* A subscription that was loaded and is still enabled has its success     *)
(* when the event becomes delivered.                                       *)
THEOREM Delivery == Spec => DeliveredReachesSubscribers
<1>1. ASSUME IInv, [Next]_vars
      PROVE  [\A e \in Events : outbox'[e].delivered /\ ~outbox[e].delivered =>
                \E w \in Workers :
                  /\ job[w].event = e
                  /\ {s \in job[w].subs : subState[s] = "enabled"}
                       \subseteq Reached(e)']_vars
  <2> SUFFICES ASSUME NEW e \in Events,
                      outbox'[e].delivered, ~outbox[e].delivered
      PROVE  \E w \in Workers :
               /\ job[w].event = e
               /\ {s \in job[w].subs : subState[s] = "enabled"}
                    \subseteq Reached(e)'
    OBVIOUS
  <2>1. PICK w \in Workers : Finalize(w)
    BY <1>1, DatabaseWriters, ClaimFields, ReleaseFields, TickFields
  <2>2. job[w].event = e /\ ~job[w].failed
        /\ attemptLog' = attemptLog \cup job[w].rows
    BY <1>1, <2>1, FinalizeWrites
  <2>3. /\ WorkerOK(w) /\ RowsOK(w) /\ VisitOK(w) /\ pc[w] = "settle"
        /\ job[w].subs \subseteq Subs /\ NoSub \notin Subs
    BY <1>1, <2>1, OutboxAssumption DEF IInv, TypeOK, Job, Finalize
  <2>4. job[w].todo = {} /\ job[w].sub = NoSub
    BY <2>3 DEF WorkerOK
  <2>5. ASSUME NEW s \in job[w].subs, subState[s] = "enabled"
        PROVE  s \in Subs /\ AlreadyDelivered(e, s)'
    <3>1. \/ s \in Reached(e)
          \/ \E r \in job[w].rows : r.sub = s
      BY <2>2, <2>3, <2>4, <2>5 DEF VisitOK
    <3>2. \A r \in job[w].rows : r.event = e /\ r.successful
      BY <2>2, <2>3 DEF RowsOK
    <3> QED
      BY <2>2, <2>3, <3>1, <3>2 DEF Reached, AlreadyDelivered
  <2> QED
    BY <2>2, <2>5 DEF Reached
<1> QED
  BY <1>1, Invariance, PTL DEF Spec, DeliveredReachesSubscribers

-----------------------------------------------------------------------------
(* A finalization is a cycle of the abstract outbox.                       *)
LEMMA FinalizeCycle ==
  ASSUME IInv, NEW w \in Workers, Finalize(w)
  PROVE  Promise!Next
<1>0. PICK e \in Events : e = job[w].event
  BY DEF Finalize, Fenced, Owns
<1> DEFINE S == {s \in Subs : \E r \in job[w].rows : r.sub = s /\ r.successful}
<1>1. /\ e \in Events
      /\ outbox'[e].attempts = job[w].attempts
      /\ outbox'[e].delivered = ~job[w].failed
      /\ outbox'[e].dead_lettered =
           (job[w].failed /\ job[w].attempts >= MaxAttempts)
      /\ \A f \in Events \ {e} : outbox'[f] = outbox[f]
      /\ attemptLog' = attemptLog \cup job[w].rows
  BY <1>0, FinalizeWrites
<1>2. /\ ~outbox[e].delivered /\ ~outbox[e].dead_lettered
      /\ outbox[e].attempts \in Nat /\ outbox[e].attempts < MaxAttempts
      /\ \/ job[w].attempts = outbox[e].attempts + 1
         \/ /\ job[w].attempts = outbox[e].attempts
            /\ job[w].rows = {} /\ ~job[w].failed
      /\ \A r \in job[w].rows : r.event = e /\ r.sub \in Subs \ Reached(e)
      /\ \A q, r \in job[w].rows : q.sub = r.sub => q = r
      /\ job[w].failed <=> \E r \in job[w].rows : ~r.successful
  BY <1>0, FinalizeKnows
<1>3. MaxAttempts \in Nat
  BY OutboxAssumption
<1>4. reached' = [reached EXCEPT ![e] = @ \cup S]
  <2>1. Reached(e)' = Reached(e) \cup S
    BY <1>1, <1>2 DEF Reached, AlreadyDelivered
  <2>2. ASSUME NEW f \in Events, f # e PROVE Reached(f)' = Reached(f)
    BY <1>1, <1>2, <2>2 DEF Reached, AlreadyDelivered
  <2> QED
    BY <1>1, <2>1, <2>2 DEF reached
<1>5. S \cap reached[e] = {} /\ status[e] = "pending" /\ S \in SUBSET Subs
  BY <1>1, <1>2 DEF status, reached
<1>6. tries[e] = outbox[e].attempts
  BY <1>1 DEF tries
<1>7. CASE job[w].rows = {} /\ ~job[w].failed
           /\ job[w].attempts = outbox[e].attempts
  <2>1. S = {} /\ reached[e] \cup {} = reached[e]
    BY <1>7
  <2>2. status' = [status EXCEPT ![e] = "delivered"]
    BY <1>1, <1>7 DEF status
  <2>3. tries' = tries
    BY <1>1, <1>7 DEF tries
  <2> QED
    BY <1>1, <1>4, <1>5, <2>1, <2>2, <2>3
       DEF Promise!Next, Promise!DeliverToNobody, Promise!Cycle
<1>8. ASSUME job[w].attempts = outbox[e].attempts + 1
      PROVE  Promise!Count(e)
  BY <1>1, <1>8 DEF tries, Promise!Count
<1>9. CASE ~job[w].failed /\ job[w].attempts = outbox[e].attempts + 1
  <2>1. status' = [status EXCEPT ![e] = "delivered"]
    BY <1>1, <1>9 DEF status
  <2> QED
    BY <1>1, <1>4, <1>5, <1>8, <1>9, <2>1
       DEF Promise!Next, Promise!Deliver, Promise!Cycle
<1>10. ASSUME job[w].failed PROVE Promise!Fails(e, S)
  <2>1. PICK r \in job[w].rows : ~r.successful
    BY <1>2, <1>10
  <2>2. r.sub \in Subs /\ r.sub \notin S /\ r.sub \notin reached[e]
    BY <1>1, <1>2, <2>1 DEF reached
  <2> QED
    BY <2>2 DEF Promise!Fails
<1>11. CASE job[w].failed /\ job[w].attempts = outbox[e].attempts + 1
            /\ job[w].attempts < MaxAttempts
  <2>1. status' = [status EXCEPT ![e] = "pending"]
    <3>1. ~outbox'[e].delivered /\ ~outbox'[e].dead_lettered
      <4>1. ~(job[w].attempts >= MaxAttempts)
        BY <1>2, <1>3, <1>11
      <4> QED
        BY <1>1, <1>11, <4>1
    <3> QED
      BY <1>1, <1>5, <3>1 DEF status
  <2> QED
    BY <1>1, <1>4, <1>5, <1>6, <1>8, <1>10, <1>11, <2>1
       DEF Promise!Next, Promise!Retry, Promise!Cycle
<1>12. CASE job[w].failed /\ job[w].attempts = outbox[e].attempts + 1
            /\ job[w].attempts = MaxAttempts
  <2>1. status' = [status EXCEPT ![e] = "dead"]
    <3>1. ~outbox'[e].delivered /\ outbox'[e].dead_lettered
      <4>1. job[w].attempts >= MaxAttempts
        BY <1>2, <1>3, <1>12
      <4> QED
        BY <1>1, <1>12, <4>1
    <3> QED
      BY <1>1, <1>5, <3>1 DEF status
  <2> QED
    BY <1>1, <1>4, <1>5, <1>6, <1>8, <1>10, <1>12, <2>1
       DEF Promise!Next, Promise!DeadLetter, Promise!Cycle
<1> QED
  BY <1>2, <1>3, <1>7, <1>9, <1>11, <1>12

(* The worker implements the outbox it promises.                           *)
THEOREM Refinement == Spec => ImplementsOutbox
<1>1. Init => Promise!Init
  BY DEF Init, Promise!Init, status, tries, reached, Reached, AlreadyDelivered
<1>2. ASSUME IInv, [Next]_vars
      PROVE  [Promise!Next]_(Promise!absVars)
  <2>1. CASE outbox' = outbox /\ attemptLog' = attemptLog
    BY <2>1 DEF Promise!absVars, status, tries, reached, Reached,
                AlreadyDelivered
  <2>2. ASSUME attemptLog' = attemptLog,
               \A f \in Events :
                 /\ outbox'[f].delivered = outbox[f].delivered
                 /\ outbox'[f].dead_lettered = outbox[f].dead_lettered
                 /\ outbox'[f].attempts = outbox[f].attempts
        PROVE  UNCHANGED Promise!absVars
    BY <2>2 DEF Promise!absVars, status, tries, reached, Reached,
                AlreadyDelivered
  <2>3. CASE Tick
    <3>1. attemptLog' = attemptLog
      BY <2>3 DEF Tick
    <3> QED
      BY <1>2, <2>2, <2>3, <3>1, TickFields
  <2>4. CASE \E w \in Workers : ClaimOutboxEvent(w) \/ ReleaseOutboxClaim(w)
    <3>1. attemptLog' = attemptLog
      BY <2>4 DEF ClaimOutboxEvent, ReleaseOutboxClaim
    <3> QED
      BY <1>2, <2>2, <2>4, <3>1, ClaimFields, ReleaseFields
  <2>5. CASE \E w \in Workers : Finalize(w)
    BY <1>2, <2>5, FinalizeCycle
  <2> QED
    BY <1>2, <2>1, <2>3, <2>4, <2>5, DatabaseWriters
<1> QED
  BY <1>1, <1>2, Invariance, PTL DEF Spec, ImplementsOutbox, Promise!Spec

=============================================================================
