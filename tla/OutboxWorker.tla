---------------------------- MODULE OutboxWorker ----------------------------
(***************************************************************************)
(* The webhook outbox worker of app/outbox_worker.py.                      *)
(*                                                                         *)
(* Every worker process runs deliver_pending_events in a loop: it selects  *)
(* the due events, claims them one by one under a lease, posts the event   *)
(* to the tenant's subscriptions and finalizes the row behind a fence.     *)
(* One action is one database statement (or one transaction whose          *)
(* statements hold the row lock), or one HTTP request: everything else of  *)
(* the system can happen between two actions, including the crash of the   *)
(* process, the expiry of the lease, another worker's claim, and a         *)
(* subscription being created or disabled through the API.                 *)
(*                                                                         *)
(* Time.  The two timestamps of a row are kept as their distance to the    *)
(* current second: Tick moves every distance one closer, down to -MaxLag.  *)
(* A statement compares with an instant that was read up to MaxLag seconds *)
(* before it ran (`now` is a parameter of the UPDATE, which may have       *)
(* waited for a row lock), so the distance is compared with -lag.          *)
(***************************************************************************)
EXTENDS Integers, FiniteSets

CONSTANTS
    Workers,        \* worker processes
    Events,         \* ids of the rows of outbox_events, in created_at order
    Subs,           \* webhook subscriptions
    Audience,       \* event |-> subscriptions of its tenant and event type
    Tokens,         \* claim tokens (uuid4().hex)
    NoToken,        \* claimed_by is NULL
    NoEvent, NoSub, \* a local variable of the worker that has no value
    Lease,          \* settings.outbox_claim_lease_seconds
    BatchSize,      \* settings.outbox_batch_size
    MaxAttempts,    \* settings.webhook_max_attempts
    BackoffCap,     \* the 300 of backoff_seconds
    MaxLag,         \* bound: age of the `now` a statement was given
    LatestDue,      \* bound: seconds until the youngest event is created
    MaxCrashes,     \* bound: process crashes and failed commits
    MaxSlips        \* bound: leases that run out under a working owner

ASSUME OutboxAssumption ==
    /\ Events \subseteq Nat
    /\ IsFiniteSet(Events)
    /\ Audience \in [Events -> SUBSET Subs]
    /\ NoToken \notin Tokens
    /\ NoEvent \notin Events
    /\ NoSub \notin Subs
    /\ Lease \in Nat \ {0}
    /\ BatchSize \in Nat \ {0}
    /\ MaxAttempts \in Nat \ {0}
    /\ BackoffCap \in Nat
    /\ MaxLag \in Nat
    /\ LatestDue \in Nat
    /\ MaxCrashes \in Nat
    /\ MaxSlips \in Nat

VARIABLES
    outbox,         \* rows of outbox_events
    attemptLog,     \* committed rows of webhook_delivery_attempts
    subState,       \* rows of webhook_subscriptions
    pc,             \* where each worker is in deliver_pending_events
    batch,          \* event_ids the worker still has to go through
    job,            \* the local variables of one iteration of its loop
    crashes, slips  \* how much of the two budgets is used

dbVars == <<outbox, attemptLog, subState>>
budgets == <<crashes, slips>>
vars == <<outbox, attemptLog, subState, pc, batch, job, crashes, slips>>

-----------------------------------------------------------------------------
OutboxRow ==
    [delivered        : BOOLEAN,
     dead_lettered    : BOOLEAN,
     attempts         : Nat,
     next_attempt_at  : Int,
     claimed_by       : Tokens \cup {NoToken},
     claim_expires_at : Int]

Attempt ==
    [event : Events, sub : Subs, number : Nat, successful : BOOLEAN]

(* claim_token, event.id, the subs list, the part of it not yet visited,   *)
(* the subscription in hand, the in-memory event.attempts, delivery_failed *)
(* and the WebhookDeliveryAttempt objects pending in the session.          *)
Job ==
    [event    : Events \cup {NoEvent},
     token    : Tokens \cup {NoToken},
     subs     : SUBSET Subs,
     todo     : SUBSET Subs,
     sub      : Subs \cup {NoSub},
     attempts : Nat,
     failed   : BOOLEAN,
     rows     : SUBSET Attempt]

NoJob ==
    [event |-> NoEvent, token |-> NoToken, subs |-> {}, todo |-> {},
     sub |-> NoSub, attempts |-> 0, failed |-> FALSE, rows |-> {}]

Steps == {"idle", "claim", "get", "load", "subs", "recheck", "post", "settle",
          "release"}

Past == -MaxLag

Settled(row) == row.delivered \/ row.dead_lettered

(* Defect: a claim whose lease ran out is never taken over.                *)
DueUnclaimedOnly(row, lag) ==
    ~Settled(row) /\ row.next_attempt_at <= -lag /\ row.claimed_by = NoToken

(* The WHERE clause that the SELECT of a cycle and the claim share.        *)
Due(row, lag) ==
    /\ ~Settled(row)
    /\ row.next_attempt_at <= -lag
    /\ row.claimed_by = NoToken \/ row.claim_expires_at <= -lag

Unclaimed(row) ==
    [row EXCEPT !.claimed_by = NoToken, !.claim_expires_at = Past]

Owns(w) ==
    /\ job[w].event \in Events
    /\ outbox[job[w].event].claimed_by = job[w].token

(* Defect: the row is finalized without looking who owns it.               *)
FencedAlways(w, lag) == job[w].event \in Events

Fenced(w, lag) ==
    Owns(w) /\ outbox[job[w].event].claim_expires_at > -lag

AlreadyDelivered(e, s) ==
    \E a \in attemptLog : a.event = e /\ a.sub = s /\ a.successful

Reached(e) == {s \in Subs : AlreadyDelivered(e, s)}

BackoffSeconds(n) == IF 2^n < BackoffCap THEN 2^n ELSE BackoffCap

(* A uuid4 is a token that neither a row nor a worker refers to.           *)
FreshTokens ==
    Tokens \ ({outbox[e].claimed_by : e \in Events}
              \cup {job[w].token : w \in Workers})

-----------------------------------------------------------------------------
Init ==
    /\ \E due \in [Events -> 0..LatestDue] :
         outbox = [e \in Events |->
           [delivered |-> FALSE, dead_lettered |-> FALSE, attempts |-> 0,
            next_attempt_at |-> due[e],
            claimed_by |-> NoToken, claim_expires_at |-> Past]]
    /\ attemptLog = {}
    /\ subState \in [Subs -> {"absent", "enabled"}]
    /\ pc = [w \in Workers |-> "idle"]
    /\ batch = [w \in Workers |-> {}]
    /\ job = [w \in Workers |-> NoJob]
    /\ crashes = 0
    /\ slips = 0

(* `continue`: the loop goes to the next id of the batch or ends.          *)
EndIteration(w) ==
    LET rest == batch[w] \ {job[w].event} IN
    /\ batch' = [batch EXCEPT ![w] = rest]
    /\ pc' = [pc EXCEPT ![w] = IF rest = {} THEN "idle" ELSE "claim"]
    /\ job' = [job EXCEPT ![w] = NoJob]

(* The first BatchSize due events in created_at order.                     *)
SelectDue(w) ==
    LET due == {e \in Events : Due(outbox[e], 0)} IN
    /\ pc[w] = "idle"
    /\ due # {}
    /\ batch' = [batch EXCEPT ![w] =
         {e \in due : Cardinality({d \in due : d < e}) < BatchSize}]
    /\ pc' = [pc EXCEPT ![w] = "claim"]
    /\ UNCHANGED <<dbVars, job, budgets>>

NextInBatch(w, e) == e \in batch[w] /\ \A d \in batch[w] : e <= d

ClaimOutboxEvent(w) ==
    /\ pc[w] = "claim"
    /\ \E e \in Events, lag \in 0..MaxLag, t \in FreshTokens :
         /\ NextInBatch(w, e)
         /\ Due(outbox[e], lag)
         /\ outbox' = [outbox EXCEPT ![e].claimed_by = t,
                                     ![e].claim_expires_at = Lease - lag]
         /\ job' = [job EXCEPT ![w] =
              [NoJob EXCEPT !.event = e, !.token = t]]
    /\ pc' = [pc EXCEPT ![w] = "get"]
    /\ UNCHANGED <<attemptLog, subState, batch, budgets>>

(* rowcount # 1: the event was claimed or settled since the SELECT.        *)
ClaimMisses(w) ==
    /\ pc[w] = "claim"
    /\ \E e \in Events, lag \in 0..MaxLag :
         /\ NextInBatch(w, e)
         /\ ~Due(outbox[e], lag)
         /\ LET rest == batch[w] \ {e} IN
              /\ batch' = [batch EXCEPT ![w] = rest]
              /\ pc' = [pc EXCEPT ![w] = IF rest = {} THEN "idle" ELSE "claim"]
    /\ UNCHANGED <<dbVars, job, budgets>>

(* db.get, which skips an event that is no longer this worker's.  The row  *)
(* that is loaded gives the in-memory attempts.                            *)
GetEvent(w) ==
    /\ pc[w] = "get"
    /\ IF Owns(w)
         THEN /\ job' = [job EXCEPT ![w].attempts =
                                      outbox[job[w].event].attempts]
              /\ pc' = [pc EXCEPT ![w] = "load"]
              /\ UNCHANGED batch
         ELSE EndIteration(w)
    /\ UNCHANGED <<dbVars, budgets>>

(* Defect: the attempt is counted in the row before it is made.            *)
CountAtLoad(w) ==
    LET subs == {s \in Audience[job[w].event] : subState[s] = "enabled"} IN
    /\ pc[w] = "load"
    /\ pc' = [pc EXCEPT ![w] = IF subs = {} THEN "settle" ELSE "subs"]
    /\ job' = [job EXCEPT ![w].subs = subs, ![w].todo = subs,
                          ![w].attempts = @ + 1]
    /\ outbox' = [outbox EXCEPT ![job[w].event].attempts = @ + 1]
    /\ UNCHANGED <<attemptLog, subState, batch, budgets>>

(* An event without subscriptions goes straight to the fence; otherwise    *)
(* event.attempts is incremented in memory (autoflush is off).             *)
LoadSubscriptions(w) ==
    LET subs == {s \in Subs : /\ s \in Audience[job[w].event]
                              /\ subState[s] = "enabled"} IN
    /\ pc[w] = "load"
    /\ IF subs = {}
         THEN /\ pc' = [pc EXCEPT ![w] = "settle"]
              /\ UNCHANGED job
         ELSE /\ pc' = [pc EXCEPT ![w] = "subs"]
              /\ job' = [job EXCEPT ![w].subs = subs,
                                    ![w].todo = subs,
                                    ![w].attempts = @ + 1]
    /\ UNCHANGED <<dbVars, batch, budgets>>

(* Defect: what was delivered before is not looked up.                     *)
CheckNothing(w) ==
    /\ pc[w] = "subs"
    /\ \E s \in job[w].todo :
         job' = [job EXCEPT ![w].todo = @ \ {s}, ![w].sub = s]
    /\ pc' = [pc EXCEPT ![w] = "recheck"]
    /\ UNCHANGED <<dbVars, batch, budgets>>

(* The head of `for sub in subs`: the SELECT has no ORDER BY.              *)
CheckDelivered(w) ==
    /\ pc[w] = "subs"
    /\ \E s \in job[w].todo :
         IF AlreadyDelivered(job[w].event, s)
           THEN /\ job' = [job EXCEPT ![w].todo = @ \ {s}]
                /\ UNCHANGED pc
           ELSE /\ job' = [job EXCEPT ![w].todo = @ \ {s}, ![w].sub = s]
                /\ pc' = [pc EXCEPT ![w] = "recheck"]
    /\ UNCHANGED <<dbVars, batch, budgets>>

RecheckEnabled(w) ==
    /\ pc[w] = "recheck"
    /\ IF subState[job[w].sub] = "enabled"
         THEN pc' = [pc EXCEPT ![w] = "post"] /\ UNCHANGED job
         ELSE /\ pc' = [pc EXCEPT ![w] = "subs"]
              /\ job' = [job EXCEPT ![w].sub = NoSub]
    /\ UNCHANGED <<dbVars, batch, budgets>>

(* Defect: the last subscription alone decides whether the delivery failed. *)
PostForgetsFailure(w, ok) ==
    /\ pc[w] = "post"
    /\ job' = [job EXCEPT
         ![w].sub = NoSub,
         ![w].failed = ~ok,
         ![w].rows = @ \cup
           {[event |-> job[w].event, sub |-> job[w].sub,
             number |-> job[w].attempts, successful |-> ok]}]
    /\ pc' = [pc EXCEPT ![w] = "subs"]
    /\ UNCHANGED <<dbVars, batch, budgets>>

(* requests.post answers 2xx, or anything else goes wrong: another status, *)
(* a timeout, an unsafe URL, a secret that cannot be decrypted.            *)
Post(w, ok) ==
    /\ pc[w] = "post"
    /\ job' = [job EXCEPT
         ![w].sub = NoSub,
         ![w].failed = @ \/ ~ok,
         ![w].rows = @ \cup
           {[event |-> job[w].event, sub |-> job[w].sub,
             number |-> job[w].attempts, successful |-> ok]}]
    /\ pc' = [pc EXCEPT ![w] = "subs"]
    /\ UNCHANGED <<dbVars, batch, budgets>>

LeaveSubs(w) ==
    /\ pc[w] = "subs"
    /\ job[w].todo = {}
    /\ pc' = [pc EXCEPT ![w] = "settle"]
    /\ UNCHANGED <<dbVars, batch, job, budgets>>

(* Defects: one attempt too many before the dead letter; an attempt too    *)
(* few counted.                                                            *)
OutcomeLate(w, row) ==
    LET tried == [row EXCEPT !.attempts = job[w].attempts] IN
    IF ~job[w].failed
      THEN [tried EXCEPT !.delivered = TRUE]
    ELSE IF job[w].attempts > MaxAttempts
      THEN [tried EXCEPT !.dead_lettered = TRUE, !.next_attempt_at = 0]
    ELSE [tried EXCEPT !.next_attempt_at = BackoffSeconds(job[w].attempts)]

OutcomeUndercounts(w, row) ==
    [row EXCEPT !.attempts = job[w].attempts - 1,
                !.delivered = ~job[w].failed]

(* The row as it is committed at the end of an iteration.                  *)
Outcome(w, row) ==
    LET tried == [row EXCEPT !.attempts = job[w].attempts] IN
    IF ~job[w].failed
      THEN [tried EXCEPT !.delivered = TRUE]
    ELSE IF job[w].attempts >= MaxAttempts
      THEN [tried EXCEPT !.dead_lettered = TRUE, !.next_attempt_at = 0]
    ELSE [tried EXCEPT !.next_attempt_at = BackoffSeconds(job[w].attempts)]

(* The fence takes the row lock, so that the fence and the commit of the   *)
(* row and of the attempts are one step for every other transaction.       *)
Finalize(w) ==
    /\ pc[w] = "settle"
    /\ \E lag \in 0..MaxLag : Fenced(w, lag)
    /\ outbox' = [outbox EXCEPT ![job[w].event] =
                                Unclaimed(Outcome(w, outbox[job[w].event]))]
    /\ attemptLog' = attemptLog \cup job[w].rows
    /\ EndIteration(w)
    /\ UNCHANGED <<subState, budgets>>

(* The fence matches no row: rollback, the attempts of this cycle are lost. *)
FenceLost(w) ==
    /\ pc[w] = "settle"
    /\ \E lag \in 0..MaxLag : ~Fenced(w, lag)
    /\ EndIteration(w)
    /\ UNCHANGED <<dbVars, budgets>>

(* Back to the top of run_worker with nothing in memory: the supervisor    *)
(* starts a process that ended again.                                      *)
Restarted(w) ==
    /\ pc' = [pc EXCEPT ![w] = "idle"]
    /\ batch' = [batch EXCEPT ![w] = {}]
    /\ job' = [job EXCEPT ![w] = NoJob]

(* The commit behind the fence raises: rollback, and the row lock is gone. *)
CommitFails(w) ==
    /\ pc[w] = "settle"
    /\ \E lag \in 0..MaxLag : Fenced(w, lag)
    /\ crashes < MaxCrashes
    /\ crashes' = crashes + 1
    /\ pc' = [pc EXCEPT ![w] = "release"]
    /\ job' = [job EXCEPT ![w].rows = {}]
    /\ UNCHANGED <<dbVars, batch, slips>>

(* Defect: the claim is released whoever holds it.                         *)
ReleaseAnyClaim(w) ==
    /\ pc[w] = "release"
    /\ outbox' = [outbox EXCEPT ![job[w].event] =
                                Unclaimed(outbox[job[w].event])]
    /\ Restarted(w)
    /\ UNCHANGED <<attemptLog, subState, budgets>>

(* The claim may be another worker's by now.  The exception is raised      *)
(* again after the release and ends the process.                           *)
ReleaseOutboxClaim(w) ==
    /\ pc[w] = "release"
    /\ outbox' = IF Owns(w)
                   THEN [outbox EXCEPT ![job[w].event] =
                                            Unclaimed(outbox[job[w].event])]
                   ELSE outbox
    /\ Restarted(w)
    /\ UNCHANGED <<attemptLog, subState, budgets>>

Crash(w) ==
    /\ pc[w] # "idle"
    /\ crashes < MaxCrashes
    /\ crashes' = crashes + 1
    /\ Restarted(w)
    /\ UNCHANGED <<dbVars, slips>>

-----------------------------------------------------------------------------
CreateWebhook(s) ==
    /\ subState[s] = "absent"
    /\ subState' = [subState EXCEPT ![s] = "enabled"]
    /\ UNCHANGED <<outbox, attemptLog, pc, batch, job, budgets>>

DisableWebhookSubscription(s) ==
    /\ subState[s] = "enabled"
    /\ subState' = [subState EXCEPT ![s] = "disabled"]
    /\ UNCHANGED <<outbox, attemptLog, pc, batch, job, budgets>>

Later(distance) == IF distance > Past THEN distance - 1 ELSE distance

(* A lease runs out under the worker that is still at work on the event.   *)
LeaseSlips ==
    \E w \in Workers : Owns(w) /\ outbox[job[w].event].claim_expires_at = 1

Tick ==
    /\ outbox' = [e \in Events |->
         [outbox[e] EXCEPT !.next_attempt_at = Later(@),
                           !.claim_expires_at = Later(@)]]
    /\ IF LeaseSlips
         THEN slips < MaxSlips /\ slips' = slips + 1
         ELSE UNCHANGED slips
    /\ UNCHANGED <<attemptLog, subState, pc, batch, job, crashes>>

WorkerStep(w) ==
    \/ SelectDue(w)
    \/ ClaimOutboxEvent(w)
    \/ ClaimMisses(w)
    \/ GetEvent(w)
    \/ LoadSubscriptions(w)
    \/ CheckDelivered(w)
    \/ RecheckEnabled(w)
    \/ Post(w, TRUE)
    \/ Post(w, FALSE)
    \/ LeaveSubs(w)
    \/ Finalize(w)
    \/ FenceLost(w)
    \/ ReleaseOutboxClaim(w)

Next ==
    \/ \E w \in Workers : WorkerStep(w) \/ CommitFails(w) \/ Crash(w)
    \/ \E s \in Subs : CreateWebhook(s) \/ DisableWebhookSubscription(s)
    \/ Tick

Spec == Init /\ [][Next]_vars

(* The loop of run_worker never stops by itself and the supervisor starts  *)
(* it again, and time passes; nothing obliges a subscription to be created *)
(* or disabled, a process to crash, or a subscriber to answer 2xx.         *)
FairSpec ==
    /\ Spec
    /\ WF_vars(Tick)
    /\ \A w \in Workers : WF_vars(WorkerStep(w))
-----------------------------------------------------------------------------
TypeOK ==
    /\ outbox \in [Events -> OutboxRow]
    /\ attemptLog \subseteq Attempt
    /\ subState \in [Subs -> {"absent", "enabled", "disabled"}]
    /\ pc \in [Workers -> Steps]
    /\ batch \in [Workers -> SUBSET Events]
    /\ job \in [Workers -> Job]
    /\ crashes \in 0..MaxCrashes
    /\ slips \in 0..MaxSlips

(* A subscription has at most one committed successful attempt per event,  *)
(* however many workers posted it: what a worker that lost its claim did   *)
(* is never committed next to what the new owner did.                      *)
OneSuccessPerSubscription ==
    \A a, b \in attemptLog :
      a.event = b.event /\ a.sub = b.sub /\ a.successful /\ b.successful
        => a = b

(* The unique index over (event, subscription, attempt_number) is never    *)
(* hit by the commit of a worker that passes the fence: its in-memory      *)
(* attempts is still the next number of the row, and no committed attempt  *)
(* carries that number.                                                    *)
AttemptNumberIsFresh ==
    \A w \in Workers : Owns(w) /\ job[w].rows # {} =>
      /\ job[w].attempts = outbox[job[w].event].attempts + 1
      /\ \A a \in attemptLog :
           a.event = job[w].event => a.number < job[w].attempts

(* No attempt is burned by a crash, a lost claim or a failed commit: every *)
(* number that was used has the committed failure that used it, except the *)
(* last one of a delivered event.                                          *)
EveryAttemptIsAccountedFor ==
    \A e \in Events : \A n \in 1..outbox[e].attempts :
      \/ outbox[e].delivered /\ n = outbox[e].attempts
      \/ \E a \in attemptLog : a.event = e /\ a.number = n /\ ~a.successful

(* An event is dead-lettered when, and only when, it used its last attempt *)
(* without being delivered; a settled event is one or the other and is no  *)
(* longer claimed.                                                         *)
DeadLetterAtLastAttempt ==
    \A e \in Events : LET row == outbox[e] IN
      /\ row.dead_lettered <=> ~row.delivered /\ row.attempts = MaxAttempts
      /\ row.attempts <= MaxAttempts
      /\ Settled(row) => row.claimed_by = NoToken

(* The worker whose claim still stands never posts to a subscription that  *)
(* has a committed success: between its check and its POST nobody else can *)
(* have committed one.                                                     *)
OwnerNeverRepostsSuccess ==
    \A w \in Workers : pc[w] = "post" /\ Owns(w) =>
      job[w].sub \notin Reached(job[w].event)

(* A delivered or dead-lettered event stays as it is, and gets no further  *)
(* attempt, whatever a stale owner still does.                             *)
SettledIsFinal ==
    [][\A e \in Events : Settled(outbox[e]) =>
         /\ outbox'[e].delivered = outbox[e].delivered
         /\ outbox'[e].dead_lettered = outbox[e].dead_lettered
         /\ outbox'[e].attempts = outbox[e].attempts
         /\ outbox'[e].claimed_by = NoToken
         /\ {a \in attemptLog' : a.event = e} \subseteq attemptLog]_vars

(* A claim whose lease has time left is never taken from, or released      *)
(* under, the worker that is still working on the event.                   *)
LiveClaimNotStolen ==
    [][\A w \in Workers :
         /\ Owns(w)
         /\ outbox[job[w].event].claim_expires_at > 0
         /\ job'[w].token = job[w].token
         => Owns(w)']_vars

(* An event becomes delivered only if every subscription the worker loaded *)
(* that is still enabled has a committed success, of this cycle or of an   *)
(* earlier one.                                                            *)
DeliveredReachesSubscribers ==
    [][\A e \in Events : outbox'[e].delivered /\ ~outbox[e].delivered =>
         \E w \in Workers :
           /\ job[w].event = e
           /\ {s \in job[w].subs : subState[s] = "enabled"}
                \subseteq Reached(e)']_vars

(* Every event ends delivered or dead-lettered: a crash between a claim    *)
(* and its finalization only delays it, as long as leases run out under a  *)
(* working owner and processes crash a bounded number of times.            *)
EventuallySettled == \A e \in Events : <>Settled(outbox[e])

-----------------------------------------------------------------------------
(* What the worker promises: see Outbox.                                   *)
status ==
    [e \in Events |-> IF outbox[e].delivered THEN "delivered"
                     ELSE IF outbox[e].dead_lettered THEN "dead"
                     ELSE "pending"]
tries == [e \in Events |-> outbox[e].attempts]
reached == [e \in Events |-> Reached(e)]

Promise == INSTANCE Outbox

(* The worker implements the outbox it promises: seen through status,      *)
(* tries and reached, each step is one delivery cycle of one event, or     *)
(* nothing.                                                                *)
ImplementsOutbox == Promise!Spec
=============================================================================
