------------------------- MODULE SecretReencryption -------------------------
(***************************************************************************)
(* Re-encryption of webhook signing secrets after a key rotation:          *)
(* app/services/webhook_service.py, called by POST                         *)
(* /admin/webhooks/re-encrypt in any number of requests at a time.         *)
(*                                                                         *)
(* A call selects the rows that are not known to be under its active key,  *)
(* claims them one by one (a commit each), then re-encrypts the claimed    *)
(* rows and commits all of them at once.  One action is one statement.     *)
(* `pending` is what a call has written and not committed; those rows are  *)
(* locked, and an UPDATE that would match one of them waits.               *)
(*                                                                         *)
(* A ciphertext is the key it was made with; a key version is that key's   *)
(* name.  A secret under LostKey can be decrypted with no keyring.  A call *)
(* claims a row at most once, so that the call names the claim token; an   *)
(* identifier is taken again only when no row carries its old token.       *)
(* Time is kept as in OutboxWorker: claim_expires_at is the distance to    *)
(* the current second, age the seconds since a call read `now`.  An expiry *)
(* that is NULL is a distance that is over.                                *)
(*                                                                         *)
(* The keyring and the active key are settings of a process; a rotation    *)
(* is a sequence of restarts, one process at a time.                       *)
(***************************************************************************)
EXTENDS Integers, FiniteSets

CONSTANTS
    Calls,          \* requests to /admin/webhooks/re-encrypt
    Servers,        \* processes that hold a keyring, the outbox worker too
    Home,           \* call |-> the process that serves it
    Hooks,          \* ids of the rows of webhook_subscriptions
    Keys,           \* names of encryption keys, in order of rotation
    LostKey,        \* the key of a secret that nobody can decrypt
    NoKey,          \* a row that a call has not written
    Nobody,         \* reencrypt_claimed_by is NULL
    Lease,          \* settings.webhook_reencrypt_claim_lease_seconds
    Limits,         \* the limits that requests ask for
    MaxAge,         \* bound: seconds a call takes
    MaxFaults,      \* bound: failing statements, leases outlived by their call
    MaxLosses       \* bound: events that leave claims to their lease

ASSUME ReencryptAssumption ==
    /\ Home \in [Calls -> Servers]
    /\ Hooks \subseteq Nat
    /\ IsFiniteSet(Hooks)
    /\ Keys \subseteq Nat
    /\ 1 \in Keys
    /\ LostKey \notin Keys
    /\ NoKey \notin Keys
    /\ Nobody \notin Calls
    /\ Lease \in Nat \ {0}
    /\ Limits \subseteq Nat \ {0}
    /\ MaxAge \in Nat
    /\ MaxFaults \in Nat
    /\ MaxLosses \in Nat

VARIABLES
    webhooks,       \* committed rows of webhook_subscriptions
    ring, active,   \* keyring and active key of each process
    pc,             \* where each call is in reencrypt_webhook_secrets
    call,           \* its local variables
    pending,        \* the key under which it has written a row
    faults, losses  \* how much of the two budgets is used

config == <<ring, active>>
budgets == <<faults, losses>>
vars == <<webhooks, ring, active, pc, call, pending, faults, losses>>

-----------------------------------------------------------------------------
Row ==
    [exists : BOOLEAN,
     key : Keys \cup {LostKey},             \* of the ciphertext
     key_version : Keys,
     verified : BOOLEAN,
     claimed_by : Calls \cup {Nobody},
     claim_expires_at : Int]

(* active_kid, limit, the age of `now`, the candidate_ids not yet visited, *)
(* claimed, what is left to do of it, the ciphertext in hand.              *)
Call ==
    [kid : Keys, limit : Nat, age : Nat, candidates : SUBSET Hooks,
     claimed : SUBSET Hooks, todo : SUBSET Hooks, copy : Keys]

CallOf(k, n) ==
    [kid |-> k, limit |-> n, age |-> 0, candidates |-> {}, claimed |-> {},
     todo |-> {}, copy |-> k]

NoCall == CallOf(1, 0)

Past == -MaxAge

Steps == {"idle", "select", "claim", "load", "write", "undo"}

NothingWritten == [h \in Hooks |-> NoKey]

ClaimBy(row, c, expiry) ==
    [row EXCEPT !.claimed_by = c, !.claim_expires_at = expiry]

(* Defect: whatever was selected is claimed.                               *)
AvailableAlways(row, age) == row.exists

(* The claim is free or its lease is over, at the `now` of the call.       *)
Available(row, age) ==
    row.exists /\ (row.claimed_by = Nobody \/ row.claim_expires_at <= -age)

(* Defect: a label that was never verified is believed.                    *)
NeedsKeyByLabel(row, kid) == row.key_version # kid

NeedsKey(row, kid) == row.key_version # kid \/ ~row.verified

(* ORDER BY id: the row of a list that comes next.                         *)
NextOf(S) == {h \in S : \A g \in S : h <= g}

FirstN(S, n) == {h \in S : Cardinality({g \in S : g < h}) < n}

Unlocked(h) == \A c \in Calls : pending[c][h] = NoKey

(* Defect: a row is written or released by whoever claimed it once.        *)
OwnsAlways(c, h) == TRUE

Owns(c, h) == webhooks[h].claimed_by = c

(* Defect: whether to encrypt again is read off the label.                 *)
RewrappedByLabel(c, h) ==
    IF webhooks[h].key_version # call[c].kid
    THEN active[Home[c]] ELSE call[c].copy

(* encrypted_secret: as it was if it is under the active key.              *)
Rewrapped(c, h) ==
    IF call[c].copy # call[c].kid THEN active[Home[c]] ELSE call[c].copy

Idle(c) == pc[c] = "idle"

Goto(c, step) == pc' = [pc EXCEPT ![c] = step]

(* The call returns or raises: its local variables are gone.               *)
Leave(c) ==
    /\ call' = [call EXCEPT ![c] = NoCall]
    /\ Goto(c, "idle")

Rollback(c) == pending' = [pending EXCEPT ![c] = NothingWritten]

-----------------------------------------------------------------------------
(* A row from before labels were verified may be labelled with any key.    *)
Init ==
    /\ webhooks \in [Hooks ->
         [exists : BOOLEAN, key : {1, LostKey}, key_version : Keys,
          verified : BOOLEAN, claimed_by : {Nobody},
          claim_expires_at : {Past}]]
    /\ \A h \in Hooks :
         /\ webhooks[h].verified => webhooks[h].key = webhooks[h].key_version
         /\ ~webhooks[h].exists => webhooks[h].key_version = 1
                                     /\ webhooks[h].verified
    /\ ring = [s \in Servers |-> {1}]
    /\ active = [s \in Servers |-> 1]
    /\ pc = [c \in Calls |-> "idle"]
    /\ call = [c \in Calls |-> NoCall]
    /\ pending = [c \in Calls |-> NothingWritten]
    /\ faults = 0
    /\ losses = 0

-----------------------------------------------------------------------------
(* active_kid and now are read, once for the whole call.                   *)
Begin(c) ==
    /\ Idle(c)
    /\ \A h \in Hooks : webhooks[h].claimed_by # c
    /\ \E n \in Limits :
         call' = [call EXCEPT ![c] = CallOf(active[Home[c]], n)]
    /\ Goto(c, "select")
    /\ UNCHANGED <<webhooks, config, pending, budgets>>

SelectCandidates(c) ==
    /\ pc[c] = "select"
    /\ LET wanted == {h \in Hooks :
                        /\ Available(webhooks[h], call[c].age)
                        /\ NeedsKey(webhooks[h], call[c].kid)}
       IN call' = [call EXCEPT ![c].candidates =
                     FirstN(wanted, call[c].limit + 1)]
    /\ Goto(c, "claim")
    /\ UNCHANGED <<webhooks, config, pending, budgets>>

Claiming(c) ==
    pc[c] = "claim" /\ Cardinality(call[c].claimed) < call[c].limit

(* _claim_webhook_for_reencryption: the UPDATE matches a row and commits.  *)
ClaimWebhook(c) ==
    /\ Claiming(c)
    /\ \E h \in NextOf(call[c].candidates) :
         /\ Unlocked(h)
         /\ Available(webhooks[h], call[c].age)
         /\ webhooks' = [webhooks EXCEPT ![h] =
                           ClaimBy(@, c, Lease - call[c].age)]
         /\ call' = [call EXCEPT ![c].candidates = @ \ {h},
                                 ![c].claimed = @ \cup {h}]
    /\ UNCHANGED <<config, pc, pending, budgets>>

(* ... it matches none: another call has claimed the row meanwhile.        *)
ClaimMisses(c) ==
    /\ Claiming(c)
    /\ \E h \in NextOf(call[c].candidates) :
         /\ ~Available(webhooks[h], call[c].age)
         /\ call' = [call EXCEPT ![c].candidates = @ \ {h}]
    /\ UNCHANGED <<webhooks, config, pc, pending, budgets>>

(* The loop over the candidates ends; the one over the claims begins.      *)
EndClaims(c) ==
    /\ pc[c] = "claim"
    /\ Claiming(c) => call[c].candidates = {}
    /\ call' = [call EXCEPT ![c].todo = call[c].claimed]
    /\ Goto(c, "load")
    /\ UNCHANGED <<webhooks, config, pending, budgets>>

(* db.get and decrypt_secret_with_key_version: one of the keyring's keys   *)
(* decrypts the secret, and the key tells its name.                        *)
Decrypt(c) ==
    /\ pc[c] = "load"
    /\ \E h \in NextOf(call[c].todo) :
         /\ webhooks[h].key \in ring[Home[c]]
         /\ call' = [call EXCEPT ![c].copy = webhooks[h].key]
    /\ Goto(c, "write")
    /\ UNCHANGED <<webhooks, config, pending, budgets>>

(* The exception handler: everything is rolled back, and then every claim  *)
(* is released.                                                            *)
Undo(c) ==
    /\ Rollback(c)
    /\ call' = [call EXCEPT ![c].todo = call[c].claimed]
    /\ Goto(c, "undo")

(* ValueError: no key of the keyring decrypts the secret.                  *)
DecryptFails(c) ==
    /\ pc[c] = "load"
    /\ \E h \in NextOf(call[c].todo) : webhooks[h].key \notin ring[Home[c]]
    /\ Undo(c)
    /\ UNCHANGED <<webhooks, config, budgets>>

(* The UPDATE behind the claim token, not committed.                       *)
Write(c) ==
    /\ pc[c] = "write"
    /\ \E h \in NextOf(call[c].todo) :
         /\ Owns(c, h)
         /\ pending' = [pending EXCEPT ![c][h] = Rewrapped(c, h)]
         /\ call' = [call EXCEPT ![c].todo = @ \ {h}]
    /\ Goto(c, "load")
    /\ UNCHANGED <<webhooks, config, budgets>>

(* The claim has been taken over: the row is left to the new owner.        *)
WriteMisses(c) ==
    /\ pc[c] = "write"
    /\ \E h \in NextOf(call[c].todo) :
         /\ ~Owns(c, h)
         /\ call' = [call EXCEPT ![c].todo = @ \ {h}]
    /\ Goto(c, "load")
    /\ UNCHANGED <<webhooks, config, pending, budgets>>

(* Defect: the label is written without the ciphertext.                    *)
WrittenLabelOnly(c) ==
    [h \in Hooks |->
       IF pending[c][h] = NoKey THEN webhooks[h]
       ELSE ClaimBy([webhooks[h] EXCEPT !.key_version = call[c].kid,
                                        !.verified = TRUE], Nobody, Past)]

Written(c) ==
    [h \in Hooks |->
       IF pending[c][h] = NoKey THEN webhooks[h]
       ELSE ClaimBy([webhooks[h] EXCEPT !.key = pending[c][h],
                                        !.key_version = call[c].kid,
                                        !.verified = TRUE], Nobody, Past)]

(* The one commit of the batch; the call answers.                          *)
Commit(c) ==
    /\ pc[c] = "load"
    /\ call[c].todo = {}
    /\ webhooks' = Written(c)
    /\ Rollback(c)
    /\ Leave(c)
    /\ UNCHANGED <<config, budgets>>

(* Defect: a release that finds nothing to release ends the handler.       *)
ReleaseOnce(c) ==
    /\ pc[c] = "undo"
    /\ \E h \in NextOf(call[c].todo) :
         webhooks' = IF Owns(c, h)
                     THEN [webhooks EXCEPT ![h] = ClaimBy(@, Nobody, Past)]
                     ELSE webhooks
    /\ call' = [call EXCEPT ![c].todo = {}]
    /\ UNCHANGED <<config, pc, pending, budgets>>

(* _release_webhook_reencrypt_claim, for one claim after the other.        *)
ReleaseClaim(c) ==
    /\ pc[c] = "undo"
    /\ \E h \in NextOf(call[c].todo) :
         /\ webhooks' = IF Owns(c, h)
                        THEN [webhooks EXCEPT ![h] = ClaimBy(@, Nobody, Past)]
                        ELSE webhooks
         /\ call' = [call EXCEPT ![c].todo = @ \ {h}]
    /\ UNCHANGED <<config, pc, pending, budgets>>

(* All are released; the exception goes on to the endpoint.                *)
Raise(c) ==
    /\ pc[c] = "undo"
    /\ call[c].todo = {}
    /\ Leave(c)
    /\ UNCHANGED <<webhooks, config, pending, budgets>>

-----------------------------------------------------------------------------
(* SQLAlchemyError.  The SELECT of the candidates is outside of the try.   *)
StatementFails(c) ==
    /\ faults < MaxFaults
    /\ \/ pc[c] = "select" /\ Leave(c) /\ UNCHANGED pending
       \/ pc[c] \in {"claim", "load", "write"} /\ Undo(c)
    /\ faults' = faults + 1
    /\ UNCHANGED <<webhooks, config, losses>>

(* The final commit takes effect, and the session is told that it failed.  *)
CommitUnacknowledged(c) ==
    /\ faults < MaxFaults
    /\ pc[c] = "load"
    /\ call[c].todo = {}
    /\ webhooks' = Written(c)
    /\ Undo(c)
    /\ faults' = faults + 1
    /\ UNCHANGED <<config, losses>>

(* The same of a claim: its token is in the row and not in `claimed`.      *)
ClaimUnacknowledged(c) ==
    /\ losses < MaxLosses
    /\ Claiming(c)
    /\ \E h \in NextOf(call[c].candidates) :
         /\ Unlocked(h)
         /\ Available(webhooks[h], call[c].age)
         /\ webhooks' = [webhooks EXCEPT ![h] =
                           ClaimBy(@, c, Lease - call[c].age)]
    /\ Undo(c)
    /\ losses' = losses + 1
    /\ UNCHANGED <<config, faults>>

ReleaseFails(c) ==
    /\ losses < MaxLosses
    /\ pc[c] = "undo"
    /\ \E h \in NextOf(call[c].todo) :
         call' = [call EXCEPT ![c].todo = @ \ {h}]
    /\ losses' = losses + 1
    /\ UNCHANGED <<webhooks, config, pc, pending, faults>>

(* A process ends: its calls are gone, what they claimed stays claimed.    *)
Stop(s) ==
    LET cut == {c \in Calls : Home[c] = s /\ ~Idle(c)}
    IN /\ pc' = [c \in Calls |-> IF c \in cut THEN "idle" ELSE pc[c]]
       /\ call' = [c \in Calls |-> IF c \in cut THEN NoCall ELSE call[c]]
       /\ pending' = [c \in Calls |->
                        IF c \in cut THEN NothingWritten ELSE pending[c]]
       /\ losses' = IF cut = {} THEN losses ELSE losses + 1
       /\ losses' <= MaxLosses
       /\ UNCHANGED <<webhooks, faults>>

Crash(s) ==
    /\ \E c \in Calls : Home[c] = s /\ ~Idle(c)
    /\ Stop(s)
    /\ UNCHANGED config

-----------------------------------------------------------------------------
(* No process encrypts with k, and every row is verified to be under       *)
(* another key: what an operator can look up before dropping a key.  Rows  *)
(* that nobody can decrypt have been given up.                             *)
Retired(k) ==
    /\ \A s \in Servers : active[s] # k
    /\ \A h \in Hooks : webhooks[h].exists /\ webhooks[h].key # LostKey
                          => webhooks[h].verified /\ webhooks[h].key_version # k

(* A process is restarted with other settings.  The operator goes forward, *)
(* hands a key to every process before one makes it active, and takes it   *)
(* away when it is retired.                                                *)
Redeploy(s) ==
    \E r \in SUBSET Keys, k \in Keys :
      /\ <<r, k>> # <<ring[s], active[s]>>
      /\ k \in r /\ k >= active[s]
      /\ \A p \in Servers : k \in ring[p]
      /\ \A old \in ring[s] \ r : Retired(old)
      /\ ring' = [ring EXCEPT ![s] = r]
      /\ active' = [active EXCEPT ![s] = k]
      /\ Stop(s)

(* create_webhook: encrypted and labelled with the active key.             *)
CreateWebhook(s, h) ==
    /\ ~webhooks[h].exists
    /\ webhooks' = [webhooks EXCEPT ![h] =
                      [exists |-> TRUE, key |-> active[s],
                       key_version |-> active[s], verified |-> TRUE,
                       claimed_by |-> Nobody, claim_expires_at |-> Past]]
    /\ UNCHANGED <<config, pc, call, pending, budgets>>

(* A lease that is about to end while its call still works with the row.   *)
Outlived ==
    \E c \in Calls, h \in Hooks :
      /\ ~Idle(c) /\ h \in call[c].claimed
      /\ Owns(c, h) /\ webhooks[h].claim_expires_at = 1

Tick ==
    /\ \A c \in Calls : ~Idle(c) => call[c].age < MaxAge
    /\ \E h \in Hooks : webhooks[h].claim_expires_at > Past
    /\ Outlived => faults < MaxFaults
    /\ faults' = IF Outlived THEN faults + 1 ELSE faults
    /\ webhooks' = [h \in Hooks |->
         [webhooks[h] EXCEPT !.claim_expires_at =
            IF @ > Past THEN @ - 1 ELSE @]]
    /\ call' = [c \in Calls |->
         IF Idle(c) THEN call[c]
         ELSE [call[c] EXCEPT !.age = call[c].age + 1]]
    /\ UNCHANGED <<config, pc, pending, losses>>

-----------------------------------------------------------------------------
CallStep(c) ==
    \/ SelectCandidates(c)
    \/ ClaimWebhook(c) \/ ClaimMisses(c) \/ EndClaims(c)
    \/ Decrypt(c) \/ DecryptFails(c)
    \/ Write(c) \/ WriteMisses(c) \/ Commit(c)
    \/ ReleaseClaim(c) \/ Raise(c)

Fault(c) ==
    \/ StatementFails(c) \/ CommitUnacknowledged(c)
    \/ ClaimUnacknowledged(c) \/ ReleaseFails(c)

Next ==
    \/ \E c \in Calls : Begin(c) \/ CallStep(c) \/ Fault(c)
    \/ \E s \in Servers : Crash(s) \/ Redeploy(s)
    \/ \E s \in Servers, h \in Hooks : CreateWebhook(s, h)
    \/ Tick

Spec == Init /\ [][Next]_vars

(* The statements of a call return, time passes, and the administrator     *)
(* calls the endpoint again and again.                                     *)
FairSpec ==
    /\ Spec
    /\ WF_vars(Tick)
    /\ \A c \in Calls : WF_vars(CallStep(c)) /\ WF_vars(Begin(c))

-----------------------------------------------------------------------------
TypeOK ==
    /\ webhooks \in [Hooks -> Row]
    /\ ring \in [Servers -> SUBSET Keys]
    /\ active \in [Servers -> Keys]
    /\ pc \in [Calls -> Steps]
    /\ call \in [Calls -> Call]
    /\ pending \in [Calls -> [Hooks -> Keys \cup {NoKey}]]
    /\ faults \in Nat
    /\ losses \in Nat

(* Whatever the rotation, the calls and the crashes do, every process (the *)
(* outbox worker that signs with the secret among them) can decrypt every  *)
(* secret that could be decrypted at first.                                *)
SecretsReadable ==
    \A h \in Hooks, s \in Servers :
      webhooks[h].exists /\ webhooks[h].key # LostKey
        => webhooks[h].key \in ring[s]

(* A verified label names the key of the ciphertext: on it rests that a    *)
(* key is dropped and that rows are skipped as done.                       *)
LabelsTruthful ==
    \A h \in Hooks :
      webhooks[h].exists /\ webhooks[h].verified
        => webhooks[h].key_version = webhooks[h].key

(* A claim whose lease still runs ends by a step of the call that took it, *)
(* whoever else selected the row before or owned it earlier.               *)
LiveClaimKept ==
    [][\A h \in Hooks :
         LET owner == webhooks[h].claimed_by
         IN owner # Nobody /\ webhooks[h].claim_expires_at > 0
              /\ webhooks'[h].claimed_by # owner
            => call'[owner] # call[owner] \/ pc'[owner] # pc[owner]]_vars

(* However a call ends, with an answer or an exception, it leaves no claim *)
(* behind that only the lease would end; a crash, a failing release or an  *)
(* unacknowledged claim is needed for that.                                *)
NoOrphanClaims ==
    losses = 0 =>
      \A h \in Hooks : webhooks[h].claimed_by # Nobody =>
        LET owner == webhooks[h].claimed_by
        IN ~Idle(owner) /\ h \in call[owner].claimed

(* Once every process has settled on one key, all secrets come to be under *)
(* it and verified, unless one of them cannot be decrypted: that one fails *)
(* every batch it is in.                                                   *)
EventuallyCurrent ==
    (\A h \in Hooks : webhooks[h].key # LostKey) =>
      \A k \in Keys :
        <>[](\A s \in Servers : active[s] = k) =>
          <>[](\A h \in Hooks : webhooks[h].exists =>
                 webhooks[h].key = k /\ webhooks[h].verified)
=============================================================================
