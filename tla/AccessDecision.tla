--------------------------- MODULE AccessDecision ---------------------------
(***************************************************************************)
(* POST /request/access of app/main.py for one tenant, together with       *)
(* POST /rights/revoke and POST /token/issue, which work on the same rows. *)
(*                                                                         *)
(* Every HTTP request runs in its own database session (READ COMMITTED) in *)
(* one of the server processes.  It reads the tenant, the right and the    *)
(* decision log one after the other, marks the token as used in Redis,     *)
(* decides on what it read, and writes everything in one transaction at    *)
(* the end.  reserve_tenant_quota takes the row lock of the tenant, which  *)
(* is held until the commit, so that the transaction is one step for every *)
(* other request of the tenant; between two steps of a request anything    *)
(* else can happen.                                                        *)
(*                                                                         *)
(* What risk, policies and the device contribute is one nondeterministic   *)
(* verdict: no property of this module depends on how it comes about.      *)
(***************************************************************************)
EXTENDS Integers, FiniteSets

CONSTANTS
    Requests,       \* calls of POST /request/access, named by their trace_id
    Revokers,       \* calls of POST /rights/revoke
    Target,         \* revoker |-> the right it revokes
    Processes,      \* server processes (uvicorn --workers)
    Rights,         \* access rights of the tenant
    Users,          \* owner_id of a right, sub of a token
    NoUser,         \* new_owner_id is missing
    Tokens,         \* access tokens, named by their jti
    Claims,         \* token |-> its right_id, sub and scope
    Keys,           \* values of the Idempotency-Key header
    NoKey,          \* the header is missing or blank
    Redis,          \* the replay store that the processes share
    RedisAtStart,   \* whether Redis may answer when a process starts
    Nobody,         \* no store has been asked about the token yet
    Ended,          \* the memory of a process that has ended since
    Calls,          \* what a client can send
    Quota,          \* monthly_quota of the tenant
    FailClosed,     \* settings.fail_closed
    MaxFaults       \* bound: process crashes and failing commits

Scopes == {"access", "ownership_transfer"}

CallType ==
    [token    : Tokens,
     newOwner : Users \cup {NoUser},
     key      : Keys \cup {NoKey},
     process  : Processes]

ASSUME DecisionAssumption ==
    /\ NoUser \notin Users
    /\ NoKey \notin Keys
    /\ Redis \notin Processes
    /\ RedisAtStart \in SUBSET BOOLEAN \ {{}}
    /\ {Nobody, Ended} \cap (Processes \cup {Redis}) = {}
    /\ Nobody # Ended
    /\ Requests \cap Rights = {}
    /\ IsFiniteSet(Requests)
    /\ Target \in [Revokers -> Rights]
    /\ Claims \in [Tokens -> [right : Rights, user : Users, scope : Scopes]]
    /\ Calls \subseteq CallType
    /\ Quota \in Nat \ {0}
    /\ FailClosed \in BOOLEAN
    /\ MaxFaults \in Nat

VARIABLES
    rights,         \* rows of access_rights
    usage,          \* tenants.usage_count
    logs,           \* rows of request_logs
    outbox,         \* rows of outbox_events
    tokens,         \* token |-> unissued, live or expired
    redis,          \* process |-> whether it has a Redis client
    marks,          \* replay marks: <<store, token>>
    keeper,         \* history: request |-> the store it had to ask
    cache,          \* process |-> its decision_cache
    call,           \* request |-> what the client sent
    pc,             \* where each request is in request_access
    view,           \* what each request has read and decided
    answer,         \* what each client was told
    loaded,         \* revoker |-> the row it loaded
    faults          \* how much of the budget is used

dbVars == <<rights, usage, logs, outbox>>
stores == <<redis, marks, keeper, cache>>
vars == <<rights, usage, logs, outbox, tokens, redis, marks, keeper, cache,
          call, pc, view, answer, loaded, faults>>

-----------------------------------------------------------------------------
Right ==
    [owner   : Users,
     valid   : BOOLEAN,
     changes : Nat,            \* owner_change_count
     version : Nat]

(* Everything of build_request_fingerprint that two calls can differ in.   *)
FingerprintOf(c) == [token |-> c.token, newOwner |-> c.newOwner]
KeyOf(c) == IF c.key # NoKey THEN c.key ELSE FingerprintOf(c)

Fingerprint(q) == FingerprintOf(call[q])
Explicit(q) == call[q].key # NoKey
Key(q) == KeyOf(call[q])

LogOf(q, c, allowed) ==
    [trace |-> q, key |-> KeyOf(c), fingerprint |-> FingerprintOf(c),
     allowed |-> allowed]

FingerprintType == [token : Tokens, newOwner : Users \cup {NoUser}]
Log == {LogOf(q, c, allowed) :
          q \in Requests, c \in Calls, allowed \in BOOLEAN}

(* The payloads, as far as they differ: a usage_count or a right's version. *)
Event ==
    [type   : {"decision.allowed", "decision.denied", "right.revoked",
               "billing.usage.incremented"},
     about  : Requests \cup Rights,
     number : Nat]

Token(q) == call[q].token
Claim(q) == Claims[Token(q)]
RightOf(q) == Claim(q).right
IsTransfer(q) == Claim(q).scope = "ownership_transfer"

Unread ==
    [owner |-> NoUser, valid |-> FALSE, changes |-> 0, version |-> 0]
NoView == [full |-> FALSE, right |-> Unread, allowed |-> FALSE]
View == [full : BOOLEAN, right : Right \cup {Unread}, allowed : BOOLEAN]

Steps == {"received", "right", "lookup", "mark", "evaluate", "commit",
          "recover", "answered"}
Verdicts == {"allow", "deny"}
Errors == {"refused", "token_expired", "access_right_invalid",
           "owner_mismatch", "idempotency_key_conflict",
           "tenant_quota_exceeded", "replay_detected", "duplicate_request",
           "persistence_unavailable", "lost"}

Verdict(allowed) == IF allowed THEN "allow" ELSE "deny"

-----------------------------------------------------------------------------
Init ==
    /\ \E owner \in [Rights -> Users] :
         rights = [r \in Rights |->
           [owner |-> owner[r], valid |-> TRUE, changes |-> 0, version |-> 1]]
    /\ usage = 0
    /\ logs = {}
    /\ outbox = {}
    /\ tokens = [t \in Tokens |-> "unissued"]
    /\ redis \in [Processes -> RedisAtStart]
    /\ marks = {}
    /\ keeper = [q \in Requests |-> Nobody]
    /\ cache = [p \in Processes |-> {}]
    /\ call \in [Requests -> Calls]
    /\ pc = [q \in Requests |-> "received"]
    /\ view = [q \in Requests |-> NoView]
    /\ answer = [q \in Requests |-> "none"]
    /\ loaded = [v \in Revokers |-> Unread]
    /\ faults = 0

(* return or raise: the session is closed, and what it did not commit is   *)
(* rolled back.                                                            *)
Answer(q, what) ==
    /\ pc' = [pc EXCEPT ![q] = "answered"]
    /\ view' = [view EXCEPT ![q] = NoView]
    /\ answer' = [answer EXCEPT ![q] = what]

Goto(q, step) ==
    /\ pc' = [pc EXCEPT ![q] = step]
    /\ UNCHANGED answer

-----------------------------------------------------------------------------
(* The rate limiters, the device, the tenant and the scope of the token:   *)
(* whatever turns a call away before it reads a row of this module.        *)
Refuse(q) ==
    /\ pc[q] = "received"
    /\ Answer(q, "refused")
    /\ UNCHANGED <<dbVars, stores, tokens, call, loaded, faults>>

(* decode_access_token, and the tenant whose quota is checked later.       *)
Admit(q) ==
    /\ pc[q] = "received"
    /\ IF tokens[Token(q)] = "live"
         THEN /\ view' = [view EXCEPT ![q].full = usage >= Quota]
              /\ Goto(q, "right")
         ELSE /\ tokens[Token(q)] = "expired"
              /\ Answer(q, "token_expired")
    /\ UNCHANGED <<dbVars, stores, tokens, call, loaded, faults>>

ReadRight(q) ==
    LET right == rights[RightOf(q)] IN
    /\ pc[q] = "right"
    /\ IF ~right.valid
         THEN Answer(q, "access_right_invalid")
       ELSE IF right.owner # Claim(q).user
         THEN Answer(q, "owner_mismatch")
       ELSE /\ view' = [view EXCEPT ![q].right = right]
            /\ Goto(q, "lookup")
    /\ UNCHANGED <<dbVars, stores, tokens, call, loaded, faults>>

LogsUnder(key) == {l \in logs : l.key = key}

(* Defect: any log under the key is taken for the answer.                  *)
AnswerFromAnyLog(q, l) == Answer(q, Verdict(l.allowed))

(* A log that is found is an answer only to the same request.              *)
AnswerFromLog(q, l) ==
    Answer(q, IF l.fingerprint = Fingerprint(q)
                THEN Verdict(l.allowed)
                ELSE "idempotency_key_conflict")

(* A log under the fingerprint itself is read and ignored.  The quota is   *)
(* the one of the tenant row that was read before.                         *)
LookupIdempotencyKey(q) ==
    /\ pc[q] = "lookup"
    /\ IF Explicit(q) /\ LogsUnder(Key(q)) # {}
         THEN \E l \in LogsUnder(Key(q)) : AnswerFromLog(q, l)
       ELSE IF view[q].full
         THEN Answer(q, "tenant_quota_exceeded")
       ELSE Goto(q, "mark") /\ UNCHANGED view
    /\ UNCHANGED <<dbVars, stores, tokens, call, loaded, faults>>

Stores == Processes \cup {Redis}

(* HybridReplayStore has a Redis store if Redis answered when the process  *)
(* started, and the memory of the process otherwise.                       *)
StoreOf(q) == IF redis[call[q].process] THEN Redis ELSE call[q].process

(* "arrived" is a mark that reached Redis although its answer was lost.    *)
MarkIfFirstSeen(q, store, arrived) ==
    IF <<store, Token(q)>> \in marks
      THEN /\ marks' = marks \cup arrived
           /\ Answer(q, "replay_detected")
      ELSE /\ marks' = marks \cup {<<store, Token(q)>>} \cup arrived
           /\ Goto(q, "evaluate")
           /\ UNCHANGED view

(* Defect: every process keeps its own marks.                              *)
MarkInProcess(q) ==
    /\ pc[q] = "mark"
    /\ keeper' = [keeper EXCEPT ![q] = StoreOf(q)]
    /\ MarkIfFirstSeen(q, call[q].process, {})
    /\ UNCHANGED <<dbVars, redis, cache, tokens, call, loaded, faults>>

(* The store of the process answers; or Redis raises RedisError, and the   *)
(* process either fails closed or falls back to its memory.                *)
MarkToken(q) ==
    /\ pc[q] = "mark"
    /\ keeper' = [keeper EXCEPT ![q] = StoreOf(q)]
    /\ \/ MarkIfFirstSeen(q, StoreOf(q), {})
       \/ /\ redis[call[q].process]
          /\ \E arrived \in SUBSET {<<Redis, Token(q)>>} :
               IF FailClosed
                 THEN /\ marks' = marks \cup arrived
                      /\ Answer(q, "replay_detected")
                 ELSE MarkIfFirstSeen(q, call[q].process, arrived)
    /\ UNCHANGED <<dbVars, redis, cache, tokens, call, loaded, faults>>

CacheKey(q) == <<Fingerprint(q), view[q].right.version>>

(* risk_engine, policies and workflow give any verdict; a transfer needs a *)
(* new owner who is not the present one.  Only allowed accesses are cached. *)
Evaluate(q) ==
    /\ pc[q] = "evaluate"
    /\ IF ~IsTransfer(q) /\ CacheKey(q) \in cache[call[q].process]
         THEN Answer(q, "cached")
         ELSE /\ \E allowed \in BOOLEAN :
                   /\ allowed /\ IsTransfer(q) =>
                        call[q].newOwner \notin {NoUser, view[q].right.owner}
                   /\ view' = [view EXCEPT ![q].allowed = allowed]
              /\ Goto(q, "commit")
    /\ UNCHANGED <<dbVars, stores, tokens, call, loaded, faults>>

(* Defect: the quota was checked when the request began, and never again.  *)
QuotaAssumed == TRUE

(* The WHERE clause of reserve_tenant_quota matches the tenant.            *)
QuotaLeft == usage < Quota

(* Defect: the unique constraint is missing.                               *)
DuplicateAllowed(q) == FALSE

(* uq_request_idempotency_per_tenant *)
Duplicate(q) == LogsUnder(Key(q)) # {}

(* Defects: no version check; an allowed access does not touch the right.  *)
StaleIgnored(q) == FALSE
StaleTransferOnly(q) ==
    /\ view[q].allowed
    /\ IsTransfer(q)
    /\ rights[RightOf(q)].version # view[q].right.version

(* version_id_col: an allowed request updates the right it loaded (at      *)
(* least last_used_at), a denied one does not touch it.                    *)
Stale(q) ==
    view[q].allowed /\ rights[RightOf(q)].version # view[q].right.version

(* The columns a transfer writes, from the row it loaded.                  *)
Transferred(q) ==
    [rights[RightOf(q)] EXCEPT
       !.owner = call[q].newOwner,
       !.changes = view[q].right.changes + 1,
       !.version = view[q].right.version + 1]

NewLog(q) == LogOf(q, call[q], view[q].allowed)

NewEvents(q, usageCount) ==
    {[type |-> IF view[q].allowed THEN "decision.allowed"
                                  ELSE "decision.denied",
      about |-> q, number |-> 0],
     [type |-> "billing.usage.incremented", about |-> q,
      number |-> usageCount]}

(* The transaction: quota, right, log and events, or nothing.              *)
Write(q) ==
    /\ pc[q] = "commit"
    /\ QuotaLeft
    /\ ~Duplicate(q)
    /\ ~Stale(q)
    /\ usage' = usage + 1
    /\ rights' = IF view[q].allowed /\ IsTransfer(q)
                   THEN [rights EXCEPT ![RightOf(q)] = Transferred(q)]
                   ELSE rights
    /\ logs' = logs \cup {NewLog(q)}
    /\ outbox' = outbox \cup NewEvents(q, usage + 1)

(* Defect: denials are cached, too.                                        *)
CommitCachesAll(q) ==
    /\ Write(q)
    /\ Answer(q, Verdict(view[q].allowed))
    /\ cache' = [cache EXCEPT ![call[q].process] = @ \cup {CacheKey(q)}]
    /\ UNCHANGED <<redis, marks, keeper, tokens, call, loaded, faults>>

Commit(q) ==
    /\ Write(q)
    /\ Answer(q, Verdict(view[q].allowed))
    /\ cache' = IF view[q].allowed /\ ~IsTransfer(q)
                  THEN [cache EXCEPT ![call[q].process] = @ \cup {CacheKey(q)}]
                  ELSE cache
    /\ UNCHANGED <<redis, marks, keeper, tokens, call, loaded, faults>>

ReserveFails(q) ==
    /\ pc[q] = "commit"
    /\ ~QuotaLeft
    /\ Answer(q, "tenant_quota_exceeded")
    /\ UNCHANGED <<dbVars, stores, tokens, call, loaded, faults>>

(* Defect: the reservation of the quota survives the rollback.             *)
ConflictKeepsQuota(q) ==
    /\ pc[q] = "commit"
    /\ QuotaLeft
    /\ Duplicate(q) \/ Stale(q)
    /\ usage' = usage + 1
    /\ Answer(q, "duplicate_request")
    /\ UNCHANGED <<rights, logs, outbox, stores, tokens, call, loaded, faults>>

(* IntegrityError or StaleDataError: both are answered alike.              *)
CommitConflicts(q) ==
    /\ pc[q] = "commit"
    /\ QuotaLeft
    /\ Duplicate(q) \/ Stale(q)
    /\ IF Explicit(q)
         THEN Goto(q, "recover") /\ UNCHANGED view
         ELSE Answer(q, "duplicate_request")
    /\ UNCHANGED <<dbVars, stores, tokens, call, loaded, faults>>

(* The log that won under the same Idempotency-Key, if there is one.       *)
RecoverWinningLog(q) ==
    /\ pc[q] = "recover"
    /\ IF LogsUnder(Key(q)) # {}
         THEN \E l \in LogsUnder(Key(q)) : AnswerFromLog(q, l)
         ELSE Answer(q, "duplicate_request")
    /\ UNCHANGED <<dbVars, stores, tokens, call, loaded, faults>>

(* Defects: the reservation survives a failing commit; the client is told  *)
(* the verdict all the same.                                               *)
FailureKeepsQuota(q) ==
    /\ pc[q] = "commit"
    /\ QuotaLeft
    /\ faults < MaxFaults
    /\ faults' = faults + 1
    /\ usage' = usage + 1
    /\ Answer(q, "persistence_unavailable")
    /\ UNCHANGED <<rights, logs, outbox, stores, tokens, call, loaded>>

FailureUnreported(q) ==
    /\ pc[q] = "commit"
    /\ faults < MaxFaults
    /\ faults' = faults + 1
    /\ Answer(q, Verdict(view[q].allowed))
    /\ UNCHANGED <<dbVars, stores, tokens, call, loaded>>

(* Another SQLAlchemyError: the transaction is rolled back, ...            *)
CommitFails(q) ==
    /\ pc[q] = "commit"
    /\ faults < MaxFaults
    /\ faults' = faults + 1
    /\ Answer(q, "persistence_unavailable")
    /\ UNCHANGED <<dbVars, stores, tokens, call, loaded>>

(* ... or the database has committed already, and its acknowledgement or   *)
(* the answer to the client is lost.                                       *)
CommitUnacknowledged(q) ==
    /\ Write(q)
    /\ faults < MaxFaults
    /\ faults' = faults + 1
    /\ \E what \in {"persistence_unavailable", "lost"} : Answer(q, what)
    /\ UNCHANGED <<stores, tokens, call, loaded>>

-----------------------------------------------------------------------------
(* token_issue gives a token only to the owner of a valid right.           *)
TokenIssue(t) ==
    LET right == rights[Claims[t].right] IN
    /\ tokens[t] = "unissued"
    /\ right.valid
    /\ right.owner = Claims[t].user
    /\ tokens' = [tokens EXCEPT ![t] = "live"]
    /\ UNCHANGED <<dbVars, stores, call, pc, view, answer, loaded, faults>>

TokenExpires(t) ==
    /\ tokens[t] = "live"
    /\ tokens' = [tokens EXCEPT ![t] = "expired"]
    /\ UNCHANGED <<dbVars, stores, call, pc, view, answer, loaded, faults>>

(* The ttl of a mark is what the token had left, and at least a second.    *)
MarkExpires(store, t) ==
    /\ <<store, t>> \in marks
    /\ tokens[t] = "expired"
    /\ marks' = marks \ {<<store, t>>}
    /\ UNCHANGED <<dbVars, redis, keeper, cache, tokens, call, pc, view,
                   answer, loaded, faults>>

(* cache_get drops an entry after request_cache_ttl_seconds.               *)
CacheEntryExpires(p) ==
    /\ \E entry \in cache[p] :
         cache' = [cache EXCEPT ![p] = @ \ {entry}]
    /\ UNCHANGED <<dbVars, redis, marks, keeper, tokens, call, pc, view,
                   answer, loaded, faults>>

(* A right that is not valid any more is left alone.                       *)
LoadRightToRevoke(v) ==
    /\ loaded[v] = Unread
    /\ rights[Target[v]].valid
    /\ loaded' = [loaded EXCEPT ![v] = rights[Target[v]]]
    /\ UNCHANGED <<dbVars, stores, tokens, call, pc, view, answer, faults>>

(* Defect: the right is written as it was loaded, without its version.     *)
RevokeUnversioned(v) ==
    /\ loaded[v] # Unread
    /\ rights' = [rights EXCEPT ![Target[v]].valid = FALSE,
                                ![Target[v]].version = loaded[v].version + 1]
    /\ outbox' = outbox \cup
         {[type |-> "right.revoked", about |-> Target[v],
           number |-> loaded[v].version + 1]}
    /\ loaded' = [loaded EXCEPT ![v] = Unread]
    /\ UNCHANGED <<usage, logs, stores, tokens, call, pc, view, answer,
                   faults>>

(* Defect: an UPDATE that bypasses version_id_col.                         *)
RevokeKeepsVersion(v) ==
    /\ loaded[v] # Unread
    /\ rights' = [rights EXCEPT ![Target[v]].valid = FALSE]
    /\ outbox' = outbox \cup
         {[type |-> "right.revoked", about |-> Target[v],
           number |-> loaded[v].version]}
    /\ loaded' = [loaded EXCEPT ![v] = Unread]
    /\ UNCHANGED <<usage, logs, stores, tokens, call, pc, view, answer,
                   faults>>

RevokeRight(v) ==
    /\ loaded[v] # Unread
    /\ rights[Target[v]].version = loaded[v].version
    /\ rights' = [rights EXCEPT ![Target[v]] =
                    [rights[Target[v]] EXCEPT !.valid = FALSE,
                                              !.version =
                                                loaded[v].version + 1]]
    /\ outbox' = outbox \cup
         {[type |-> "right.revoked", about |-> Target[v],
           number |-> loaded[v].version + 1]}
    /\ loaded' = [loaded EXCEPT ![v] = Unread]
    /\ UNCHANGED <<usage, logs, stores, tokens, call, pc, view, answer,
                   faults>>

(* 409 right_revoke_failed for a stale row, or the commit fails.           *)
RevokeFails(v) ==
    /\ loaded[v] # Unread
    /\ IF rights[Target[v]].version # loaded[v].version
         THEN UNCHANGED faults
         ELSE faults < MaxFaults /\ faults' = faults + 1
    /\ loaded' = [loaded EXCEPT ![v] = Unread]
    /\ UNCHANGED <<dbVars, stores, tokens, call, pc, view, answer>>

InFlight(q, p) ==
    call[q].process = p /\ pc[q] \notin {"received", "answered"}

(* A server process ends: its requests get no answer, its memory is gone.  *)
(* The process that takes its place finds Redis or does not.               *)
Crash(p) ==
    LET Dies(q) == InFlight(q, p) IN
    /\ faults < MaxFaults
    /\ faults' = faults + 1
    /\ pc' = [q \in Requests |-> IF Dies(q) THEN "answered" ELSE pc[q]]
    /\ view' = [q \in Requests |-> IF Dies(q) THEN NoView ELSE view[q]]
    /\ answer' = [q \in Requests |-> IF Dies(q) THEN "lost" ELSE answer[q]]
    /\ marks' = {m \in marks : m[1] # p}
    /\ keeper' = [q \in Requests |-> IF keeper[q] = p THEN Ended
                                                     ELSE keeper[q]]
    /\ \E found \in RedisAtStart : redis' = [redis EXCEPT ![p] = found]
    /\ cache' = [cache EXCEPT ![p] = {}]
    /\ UNCHANGED <<dbVars, tokens, call, loaded>>

RequestStep(q) ==
    \/ Refuse(q)
    \/ Admit(q)
    \/ ReadRight(q)
    \/ LookupIdempotencyKey(q)
    \/ MarkToken(q)
    \/ Evaluate(q)
    \/ Commit(q)
    \/ ReserveFails(q)
    \/ CommitConflicts(q)
    \/ RecoverWinningLog(q)
    \/ CommitFails(q)
    \/ CommitUnacknowledged(q)

Next ==
    \/ \E q \in Requests : RequestStep(q)
    \/ \E t \in Tokens : TokenIssue(t) \/ TokenExpires(t)
    \/ \E store \in Stores, t \in Tokens : MarkExpires(store, t)
    \/ \E p \in Processes : CacheEntryExpires(p) \/ Crash(p)
    \/ \E v \in Revokers :
         LoadRightToRevoke(v) \/ RevokeRight(v) \/ RevokeFails(v)

Spec == Init /\ [][Next]_vars
-----------------------------------------------------------------------------
TypeOK ==
    /\ rights \in [Rights -> Right]
    /\ usage \in 0..Quota
    /\ logs \subseteq Log
    /\ outbox \subseteq Event
    /\ tokens \in [Tokens -> {"unissued", "live", "expired"}]
    /\ redis \in [Processes -> BOOLEAN]
    /\ marks \subseteq Stores \X Tokens
    /\ keeper \in [Requests -> Stores \cup {Nobody, Ended}]
    /\ cache \in [Processes -> SUBSET (FingerprintType \X Nat)]
    /\ call \in [Requests -> Calls]
    /\ pc \in [Requests -> Steps]
    /\ view \in [Requests -> View]
    /\ answer \in [Requests -> {"none", "cached"} \cup Verdicts \cup Errors]
    /\ loaded \in [Revokers -> Right \cup {Unread}]
    /\ faults \in 0..MaxFaults

Billing(o) == o.type = "billing.usage.incremented"

(* Usage, decision log and outbox never drift apart: every log has used    *)
(* one unit of the quota, has its decision event and one billing event     *)
(* with a usage_count that no other has, and there are no events besides.  *)
EveryDecisionIsBilledOnce ==
    /\ usage = Cardinality(logs)
    /\ \A l \in logs : \E n \in 1..usage :
         {o \in outbox : o.about = l.trace} =
           {[type |-> IF l.allowed THEN "decision.allowed"
                                   ELSE "decision.denied",
             about |-> l.trace, number |-> 0],
            [type |-> "billing.usage.incremented", about |-> l.trace,
             number |-> n]}
    /\ \A o \in outbox : o.about \in Requests =>
         \E l \in logs : l.trace = o.about
    /\ \A o, n \in outbox :
         Billing(o) /\ Billing(n) /\ o.number = n.number => o = n

TransfersOf(r) ==
    {l \in logs : /\ l.allowed
                  /\ Claims[l.fingerprint.token].right = r
                  /\ Claims[l.fingerprint.token].scope = "ownership_transfer"}

(* No update of a right is lost: its version counts the transfers that are *)
(* logged as allowed and the one revocation, its owner_change_count the    *)
(* transfers alone, and a revocation is announced exactly once.            *)
NoLostUpdate ==
    \A r \in Rights :
      LET revocations ==
            {o \in outbox : o.type = "right.revoked" /\ o.about = r}
      IN /\ rights[r].changes = Cardinality(TransfersOf(r))
         /\ rights[r].version =
              1 + rights[r].changes + Cardinality(revocations)
         /\ Cardinality(revocations) = IF rights[r].valid THEN 0 ELSE 1

(* Failing closed, a token that has not expired is good for one decision   *)
(* in each store: one in Redis for all processes that found Redis when     *)
(* they started, however they crash and whatever the others do, and one in *)
(* the memory of each process that did not, as long as it lives.           *)
OneDecisionPerToken ==
    FailClosed =>
      \A l, m \in logs :
        /\ l.fingerprint.token = m.fingerprint.token
        /\ tokens[l.fingerprint.token] # "expired"
        /\ keeper[l.trace] = keeper[m.trace]
        /\ keeper[l.trace] # Ended
        => l = m

(* A verdict a client was told is on record: its own log or, under the     *)
(* same key and the same fingerprint, another request's; a cached one was  *)
(* an allowed access with the same fingerprint.  A request that was told   *)
(* of a conflict, a replay or a used-up quota has left no log.             *)
AnswerIsOnRecord ==
    /\ \A q \in Requests : answer[q] \in Verdicts =>
         \E l \in logs : /\ l.key = Key(q)
                         /\ l.fingerprint = Fingerprint(q)
                         /\ Verdict(l.allowed) = answer[q]
    /\ \A q \in Requests : answer[q] = "cached" =>
         \E l \in logs : l.fingerprint = Fingerprint(q) /\ l.allowed
    /\ \A l \in logs :
         answer[l.trace] \in
           {Verdict(l.allowed), "persistence_unavailable", "lost"}

(* A cached answer dies with the version of the right it was given for: an *)
(* entry that a request can find under the version that the right has now  *)
(* tells of a right that is valid and belongs to the user of the token.    *)
CachedVersionIsUsable ==
    \A p \in Processes : \A entry \in cache[p] :
      LET claim == Claims[entry[1].token]
          right == rights[claim.right]
      IN /\ entry[2] <= right.version
         /\ entry[2] = right.version => right.valid /\ right.owner = claim.user

(* Use is allowed only to the present owner of a right that is still       *)
(* valid, however long ago the request looked at the right: revocations    *)
(* and transfers that came between make its commit fail.                   *)
OnlyOwnerUsesRight ==
    [][\A l \in logs' \ logs :
         LET claim == Claims[l.fingerprint.token] IN
         l.allowed => /\ rights[claim.right].valid
                      /\ rights[claim.right].owner = claim.user]_vars

-----------------------------------------------------------------------------
Ledger == INSTANCE DecisionLedger WITH Logs <- Log

(* Requests and revocations that interleave in every way have the effect   *)
(* of decisions and revocations made one at a time: see DecisionLedger.    *)
ImplementsLedger == Ledger!Spec

(* README_TECHNICAL.md promises idempotent request processing: a repeated  *)
(* call whose decision is on record under its Idempotency-Key is told that *)
(* decision, and no check of the present state stands before it.           *)
RepeatedCallIsRecognized ==
    [][\A q \in Requests :
         /\ answer[q] = "none"
         /\ answer'[q] \in {"owner_mismatch", "access_right_invalid"}
         /\ Explicit(q)
         => \A l \in LogsUnder(Key(q)) : l.fingerprint # Fingerprint(q)]_vars
=============================================================================
