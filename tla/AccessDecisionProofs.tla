------------------------ MODULE AccessDecisionProofs ------------------------
(***************************************************************************)
(* Theorems about AccessDecision, for every number of requests, revokers,  *)
(* processes, rights and tokens, every quota and every fault budget.       *)
(***************************************************************************)
EXTENDS AccessDecision, FiniteSetTheorems, TLAPS

-----------------------------------------------------------------------------
(* Types.                                                                  *)
LEMMA NoViewType == NoView \in View
  BY DEF NoView, View, Unread

(* The fields of what a client can send.                                   *)
LEMMA CallFields ==
  ASSUME NEW c \in Calls
  PROVE  /\ c.token \in Tokens
         /\ c.newOwner \in Users \cup {NoUser}
         /\ c.key \in Keys \cup {NoKey}
         /\ c.process \in Processes
  BY DecisionAssumption DEF CallType

(* The claims of a token.                                                  *)
LEMMA ClaimFields ==
  ASSUME NEW t \in Tokens
  PROVE  /\ Claims[t].right \in Rights
         /\ Claims[t].user \in Users
         /\ Claims[t].scope \in Scopes
  BY DecisionAssumption

(* What the call of a request stands for.                                  *)
LEMMA RequestFields ==
  ASSUME TypeOK, NEW q \in Requests
  PROVE  /\ call[q] \in Calls
         /\ Token(q) \in Tokens
         /\ call[q].process \in Processes
         /\ RightOf(q) \in Rights
         /\ Claim(q).user \in Users
         /\ Fingerprint(q) \in FingerprintType
<1>1. call[q] \in Calls
  BY DEF TypeOK
<1>2. /\ Token(q) \in Tokens
      /\ call[q].newOwner \in Users \cup {NoUser}
      /\ call[q].process \in Processes
  BY <1>1, CallFields DEF Token
<1>3. RightOf(q) \in Rights /\ Claim(q).user \in Users
  BY <1>2, ClaimFields DEF RightOf, Claim
<1>4. Fingerprint(q) \in FingerprintType
  BY <1>2 DEF Fingerprint, FingerprintOf, FingerprintType, Token
<1> QED
  BY <1>1, <1>2, <1>3, <1>4

(* The fields of a row, none of which is the row of a session that has     *)
(* read nothing.                                                           *)
LEMMA RightFields ==
  ASSUME NEW right \in Right
  PROVE  /\ right.owner \in Users
         /\ right.valid \in BOOLEAN
         /\ right.changes \in Nat
         /\ right.version \in Nat
         /\ right # Unread
<1>1. right.owner # NoUser
  BY DecisionAssumption DEF Right
<1> QED
  BY <1>1 DEF Right, Unread

(* What a session knows; the versions are numbers even when it has read    *)
(* nothing.                                                                *)
LEMMA ViewFields ==
  ASSUME NEW v \in View
  PROVE  /\ v.full \in BOOLEAN
         /\ v.right \in Right \cup {Unread}
         /\ v.allowed \in BOOLEAN
         /\ v.right.version \in Nat
         /\ v.right.changes \in Nat
  BY DEF View, Right, Unread

(* Whatever a session learns keeps its type.                               *)
LEMMA ViewEdits ==
  ASSUME NEW v \in View
  PROVE  /\ \A b \in BOOLEAN : [v EXCEPT !.full = b] \in View
         /\ \A b \in BOOLEAN : [v EXCEPT !.allowed = b] \in View
         /\ \A right \in Right : [v EXCEPT !.right = right] \in View
  BY DEF View

Answers == {"none", "cached"} \cup Verdicts \cup Errors

(* The part of the state that belongs to the requests.                     *)
RequestTypes ==
    /\ pc \in [Requests -> Steps]
    /\ view \in [Requests -> View]
    /\ answer \in [Requests -> Answers]

(* An answer ends a request and keeps the types of requests.               *)
LEMMA AnswerType ==
  ASSUME TypeOK, NEW q \in Requests, NEW what \in Answers, Answer(q, what)
  PROVE  RequestTypes'
<1>1. "answered" \in Steps
  BY DEF Steps
<1> QED
  BY <1>1, NoViewType DEF TypeOK, RequestTypes, Answer, Answers

(* Going on to the next statement keeps the types of requests.             *)
LEMMA GotoType ==
  ASSUME TypeOK, NEW q \in Requests, NEW step \in Steps, Goto(q, step),
         view' \in [Requests -> View]
  PROVE  RequestTypes'
  BY DEF TypeOK, RequestTypes, Goto, Answers

(* A decision is told as a verdict.                                        *)
LEMMA VerdictType == \A b : Verdict(b) \in Verdicts /\ Verdict(b) \in Answers
  BY DEF Verdict, Verdicts, Answers

(* An answer that repeats a log keeps the types of requests.               *)
LEMMA AnswerFromLogType ==
  ASSUME TypeOK, NEW q \in Requests, NEW l, AnswerFromLog(q, l)
  PROVE  RequestTypes'
<1> DEFINE what == IF l.fingerprint = Fingerprint(q)
                     THEN Verdict(l.allowed)
                     ELSE "idempotency_key_conflict"
<1>1. what \in Answers
  BY VerdictType DEF Answers, Errors
<1>2. Answer(q, what)
  BY DEF AnswerFromLog
<1> HIDE DEF what
<1> QED
  BY <1>1, <1>2, AnswerType

(* Every error is an answer.                                               *)
LEMMA ErrorTypes == Errors \subseteq Answers /\ "cached" \in Answers
  BY DEF Answers

(* What a request does to what it does not share with the others.          *)
LEMMA RequestKeepsTypes ==
  ASSUME TypeOK, NEW q \in Requests, RequestStep(q)
  PROVE  RequestTypes'
<1> USE ErrorTypes
<1>v. view[q] \in View
  BY DEF TypeOK
<1>vv. view \in [Requests -> View]
  BY DEF TypeOK
<1>1. CASE Refuse(q)
  BY <1>1, AnswerType DEF Refuse, Errors
<1>2. CASE Admit(q)
  <2>1. CASE tokens[Token(q)] = "live"
    <3>1. (usage >= Quota) \in BOOLEAN
      OBVIOUS
    <3>2. view' \in [Requests -> View]
      BY <1>2, <2>1, <3>1, <1>v, <1>vv, ViewEdits DEF Admit
    <3>3. Goto(q, "right") /\ "right" \in Steps
      BY <1>2, <2>1 DEF Admit, Steps
    <3> QED
      BY <3>2, <3>3, GotoType
  <2>2. CASE tokens[Token(q)] # "live"
    BY <1>2, <2>2, AnswerType DEF Admit, Errors
  <2> QED
    BY <2>1, <2>2
<1>3. CASE ReadRight(q)
  <2> DEFINE right == rights[RightOf(q)]
  <2>1. CASE ~right.valid
    BY <1>3, <2>1, AnswerType DEF ReadRight, Errors
  <2>2. CASE right.valid /\ right.owner # Claim(q).user
    BY <1>3, <2>2, AnswerType DEF ReadRight, Errors
  <2>3. CASE right.valid /\ right.owner = Claim(q).user
    <3>1. right \in Right
      BY RequestFields DEF TypeOK
    <3>2. view' \in [Requests -> View]
      BY <1>3, <2>3, <3>1, <1>v, <1>vv, ViewEdits DEF ReadRight
    <3>3. Goto(q, "lookup") /\ "lookup" \in Steps
      BY <1>3, <2>3 DEF ReadRight, Steps
    <3> QED
      BY <3>2, <3>3, GotoType
  <2> QED
    BY <2>1, <2>2, <2>3
<1>4. CASE LookupIdempotencyKey(q)
  <2>1. CASE Explicit(q) /\ LogsUnder(Key(q)) # {}
    BY <1>4, <2>1, AnswerFromLogType DEF LookupIdempotencyKey
  <2>2. CASE ~(Explicit(q) /\ LogsUnder(Key(q)) # {}) /\ view[q].full
    BY <1>4, <2>2, AnswerType DEF LookupIdempotencyKey, Errors
  <2>3. CASE ~(Explicit(q) /\ LogsUnder(Key(q)) # {}) /\ ~view[q].full
    <3>1. Goto(q, "mark") /\ "mark" \in Steps /\ view' = view
      BY <1>4, <2>3 DEF LookupIdempotencyKey, Steps
    <3> QED
      BY <3>1, <1>vv, GotoType
  <2> QED
    BY <2>1, <2>2, <2>3
<1>5. CASE MarkToken(q)
  <2>1. ASSUME Goto(q, "evaluate"), view' = view
        PROVE  RequestTypes'
    BY <2>1, <1>vv, GotoType DEF Steps
  <2>2. ASSUME Answer(q, "replay_detected")
        PROVE  RequestTypes'
    BY <2>2, AnswerType DEF Errors
  <2> QED
    BY <1>5, <2>1, <2>2 DEF MarkToken, MarkIfFirstSeen
<1>6. CASE Evaluate(q)
  <2>1. CASE ~IsTransfer(q) /\ CacheKey(q) \in cache[call[q].process]
    BY <1>6, <2>1, AnswerType DEF Evaluate
  <2>2. CASE ~(~IsTransfer(q) /\ CacheKey(q) \in cache[call[q].process])
    <3>1. PICK allowed \in BOOLEAN :
            view' = [view EXCEPT ![q].allowed = allowed]
      BY <1>6, <2>2 DEF Evaluate
    <3>2. view' \in [Requests -> View]
      BY <3>1, <1>v, <1>vv, ViewEdits
    <3>3. Goto(q, "commit") /\ "commit" \in Steps
      BY <1>6, <2>2 DEF Evaluate, Steps
    <3> QED
      BY <3>2, <3>3, GotoType
  <2> QED
    BY <2>1, <2>2
<1>7. CASE Commit(q)
  BY <1>7, AnswerType, VerdictType DEF Commit
<1>8. CASE ReserveFails(q)
  BY <1>8, AnswerType DEF ReserveFails, Errors
<1>9. CASE CommitConflicts(q)
  <2>1. CASE Explicit(q)
    <3>1. Goto(q, "recover") /\ "recover" \in Steps /\ view' = view
      BY <1>9, <2>1 DEF CommitConflicts, Steps
    <3> QED
      BY <3>1, <1>vv, GotoType
  <2>2. CASE ~Explicit(q)
    BY <1>9, <2>2, AnswerType DEF CommitConflicts, Errors
  <2> QED
    BY <2>1, <2>2
<1>10. CASE RecoverWinningLog(q)
  <2>1. CASE LogsUnder(Key(q)) # {}
    BY <1>10, <2>1, AnswerFromLogType DEF RecoverWinningLog
  <2>2. CASE LogsUnder(Key(q)) = {}
    BY <1>10, <2>2, AnswerType DEF RecoverWinningLog, Errors
  <2> QED
    BY <2>1, <2>2
<1>11. CASE CommitFails(q)
  BY <1>11, AnswerType DEF CommitFails, Errors
<1>12. CASE CommitUnacknowledged(q)
  BY <1>12, AnswerType DEF CommitUnacknowledged, Errors
<1> QED
  BY <1>1, <1>2, <1>3, <1>4, <1>5, <1>6, <1>7, <1>8, <1>9, <1>10, <1>11,
     <1>12 DEF RequestStep

(* The rows that the transaction of a request writes.                      *)
LEMMA LogType ==
  ASSUME TypeOK, NEW q \in Requests
  PROVE  /\ NewLog(q) \in Log
         /\ NewLog(q).trace = q
         /\ NewLog(q).key = Key(q)
         /\ NewLog(q).fingerprint = Fingerprint(q)
         /\ NewLog(q).allowed = view[q].allowed
<1>1. call[q] \in Calls /\ view[q].allowed \in BOOLEAN
  BY RequestFields, ViewFields DEF TypeOK
<1> QED
  BY <1>1 DEF NewLog, Log, LogOf, Key, Fingerprint

(* The new log stands for the token and the new owner of the call.         *)
LEMMA NewLogFields ==
  ASSUME TypeOK, NEW q \in Requests
  PROVE  /\ NewLog(q).fingerprint.token = Token(q)
         /\ NewLog(q).fingerprint.newOwner = call[q].newOwner
<1>1. NewLog(q).fingerprint = Fingerprint(q)
  BY LogType
<1>2. /\ Fingerprint(q).token = Token(q)
      /\ Fingerprint(q).newOwner = call[q].newOwner
  BY DEF Fingerprint, FingerprintOf, Token
<1> QED
  BY <1>1, <1>2

(* The events of a decision are events.                                    *)
LEMMA EventTypes ==
  ASSUME NEW q \in Requests, NEW n \in Nat
  PROVE  NewEvents(q, n) \subseteq Event
  BY DEF NewEvents, Event

(* The row that a transfer writes, from the row it loaded.                 *)
LEMMA TransferType ==
  ASSUME TypeOK, NEW q \in Requests, call[q].newOwner \in Users
  PROVE  /\ Transferred(q) \in Right
         /\ Transferred(q).owner = call[q].newOwner
         /\ Transferred(q).valid = rights[RightOf(q)].valid
         /\ Transferred(q).changes = view[q].right.changes + 1
         /\ Transferred(q).version = view[q].right.version + 1
<1>1. rights[RightOf(q)] \in Right
  BY RequestFields DEF TypeOK
<1>2. view[q].right.changes \in Nat /\ view[q].right.version \in Nat
  BY ViewFields DEF TypeOK
<1>3. /\ view[q].right.changes + 1 \in Nat
      /\ view[q].right.version + 1 \in Nat
  BY <1>2
<1> DEFINE c == view[q].right.changes + 1
           n == view[q].right.version + 1
<1> HIDE DEF c, n
<1>4. LET t == [rights[RightOf(q)] EXCEPT !.owner = call[q].newOwner,
                                          !.changes = c, !.version = n]
      IN /\ c \in Nat /\ n \in Nat =>
              t \in Right
         /\ t.owner = call[q].newOwner
         /\ t.valid = rights[RightOf(q)].valid
         /\ t.changes = c
         /\ t.version = n
  BY <1>1 DEF Right
<1> QED
  BY <1>3, <1>4 DEF Transferred, c, n

-----------------------------------------------------------------------------
(* The inductive invariant.                                                *)
Looking == {"lookup", "mark", "evaluate", "commit"}

(* A row that was loaded is the row of today, or an older version of it.   *)
Current(seen, now) ==
    /\ seen \in Right
    /\ seen.valid
    /\ seen.version <= now.version
    /\ seen.version = now.version => seen = now

SnapshotOK(q) ==
    /\ pc[q] \in Looking =>
         /\ Current(view[q].right, rights[RightOf(q)])
         /\ view[q].right.owner = Claim(q).user
    /\ pc[q] = "commit" /\ view[q].allowed /\ IsTransfer(q) =>
         call[q].newOwner \in Users \ {view[q].right.owner}

RevokerOK(v) ==
    loaded[v] # Unread => Current(loaded[v], rights[Target[v]])

Seen ==
    /\ \A q \in Requests : SnapshotOK(q)
    /\ \A v \in Revokers : RevokerOK(v)

(* Every change of a right is a new version of it.                         *)
RightsMove ==
    \A r \in Rights : \/ rights'[r] = rights[r]
                      \/ rights'[r].version = rights[r].version + 1

(* A row that was loaded stays current or becomes an old version when      *)
(* rights move from version to version.                                    *)
LEMMA CurrentMoves ==
  ASSUME TypeOK, NEW r \in Rights, NEW seen, Current(seen, rights[r]),
         RightsMove
  PROVE  Current(seen, rights'[r])
<1>1. rights[r].version \in Nat
  BY RightFields DEF TypeOK
<1>2. seen.version \in Nat
  BY RightFields DEF Current
<1> QED
  BY <1>1, <1>2 DEF Current, RightsMove

(* A transfer that is about to commit writes the right it saw.             *)
LEMMA WriteKnows ==
  ASSUME TypeOK, NEW q \in Requests, SnapshotOK(q), Write(q), view[q].allowed
  PROVE  /\ view[q].right = rights[RightOf(q)]
         /\ rights[RightOf(q)].valid
         /\ rights[RightOf(q)].owner = Claim(q).user
         /\ IsTransfer(q) =>
              /\ call[q].newOwner \in Users \ {rights[RightOf(q)].owner}
              /\ Transferred(q) \in Right
              /\ Transferred(q).valid
              /\ Transferred(q).owner = call[q].newOwner
              /\ Transferred(q).changes = rights[RightOf(q)].changes + 1
              /\ Transferred(q).version = rights[RightOf(q)].version + 1
<1>1. pc[q] = "commit" /\ pc[q] \in Looking
  BY DEF Write, Looking
<1>2. view[q].right.version = rights[RightOf(q)].version
  BY DEF Write, Stale
<1>3. view[q].right = rights[RightOf(q)] /\ rights[RightOf(q)].valid
  BY <1>1, <1>2 DEF SnapshotOK, Current
<1>4. rights[RightOf(q)].owner = Claim(q).user
  BY <1>1, <1>3 DEF SnapshotOK
<1>5. ASSUME IsTransfer(q)
      PROVE  call[q].newOwner \in Users \ {rights[RightOf(q)].owner}
  BY <1>1, <1>3, <1>5 DEF SnapshotOK
<1> QED
  BY <1>3, <1>4, <1>5, TransferType

(* The transaction keeps the types of the rows, the quota included.        *)
LEMMA WriteTypes ==
  ASSUME TypeOK, NEW q \in Requests, SnapshotOK(q), Write(q)
  PROVE  /\ rights' \in [Rights -> Right]
         /\ usage' \in 0..Quota
         /\ logs' \subseteq Log
         /\ outbox' \subseteq Event
         /\ RightsMove
<1>1. usage' \in 0..Quota /\ usage + 1 \in Nat
  BY DecisionAssumption DEF Write, QuotaLeft, TypeOK
<1>2. logs' \subseteq Log
  BY LogType DEF Write, TypeOK
<1>3. outbox' \subseteq Event
  BY <1>1, EventTypes DEF Write, TypeOK
<1>4. CASE view[q].allowed /\ IsTransfer(q)
  <2>1. rights' = [rights EXCEPT ![RightOf(q)] = Transferred(q)]
    BY <1>4 DEF Write
  <2>2. rights \in [Rights -> Right] /\ RightOf(q) \in Rights
    BY RequestFields DEF TypeOK
  <2> QED
    BY <1>1, <1>2, <1>3, <1>4, <2>1, <2>2, WriteKnows DEF RightsMove
<1>5. CASE ~(view[q].allowed /\ IsTransfer(q))
  <2>1. rights' = rights
    BY <1>5 DEF Write
  <2> QED
    BY <1>1, <1>2, <1>3, <2>1 DEF RightsMove, TypeOK
<1> QED
  BY <1>4, <1>5

(* What the other requests keep.                                           *)
OthersKeep(q) ==
    \A p \in Requests \ {q} : /\ pc'[p] = pc[p]
                              /\ view'[p] = view[p]
                              /\ answer'[p] = answer[p]

(* A step of a request leaves the other requests alone, and the database   *)
(* unless it commits.                                                      *)
LEMMA RequestFrame ==
  ASSUME TypeOK, NEW q \in Requests, RequestStep(q)
  PROVE  /\ Commit(q) \/ CommitUnacknowledged(q) \/ UNCHANGED dbVars
         /\ OthersKeep(q)
         /\ UNCHANGED <<call, tokens, loaded>>
<1>1. OthersKeep(q)
  <2>1. /\ pc \in [Requests -> Steps]
        /\ view \in [Requests -> View]
        /\ DOMAIN answer = Requests
    BY DEF TypeOK
  <2>2. \A what : Answer(q, what) => OthersKeep(q)
    BY <2>1 DEF Answer, OthersKeep
  <2>3. \A step : Goto(q, step) /\ view' = view => OthersKeep(q)
    BY <2>1 DEF Goto, OthersKeep
  <2>4. \A step, v : Goto(q, step) /\ view' = [view EXCEPT ![q] = v]
                       => OthersKeep(q)
    BY <2>1 DEF Goto, OthersKeep
  <2>5. \A l : AnswerFromLog(q, l) => OthersKeep(q)
    BY <2>2 DEF AnswerFromLog
  <2>6. CASE Admit(q)
    BY <2>6, <2>2, <2>4 DEF Admit
  <2>7. CASE ReadRight(q)
    BY <2>7, <2>2, <2>4 DEF ReadRight
  <2>8. CASE LookupIdempotencyKey(q)
    BY <2>8, <2>2, <2>3, <2>5 DEF LookupIdempotencyKey
  <2>9. CASE MarkToken(q)
    BY <2>9, <2>2, <2>3 DEF MarkToken, MarkIfFirstSeen
  <2>10. CASE Evaluate(q)
    BY <2>10, <2>2, <2>4 DEF Evaluate
  <2>11. CASE CommitConflicts(q) \/ RecoverWinningLog(q)
    BY <2>11, <2>2, <2>3, <2>5 DEF CommitConflicts, RecoverWinningLog
  <2>12. CASE Refuse(q) \/ ReserveFails(q) \/ CommitFails(q)
    BY <2>12, <2>2 DEF Refuse, ReserveFails, CommitFails
  <2>13. CASE Commit(q) \/ CommitUnacknowledged(q)
    BY <2>13, <2>2 DEF Commit, CommitUnacknowledged
  <2> QED
    BY <2>6, <2>7, <2>8, <2>9, <2>10, <2>11, <2>12, <2>13 DEF RequestStep
<1>2. Commit(q) \/ CommitUnacknowledged(q) \/ UNCHANGED dbVars
  BY DEF RequestStep, Refuse, Admit, ReadRight, LookupIdempotencyKey,
         MarkToken, Evaluate, ReserveFails, CommitConflicts,
         RecoverWinningLog, CommitFails, dbVars
<1>3. UNCHANGED <<call, tokens, loaded>>
  BY DEF RequestStep, Refuse, Admit, ReadRight, LookupIdempotencyKey,
         MarkToken, Evaluate, Commit, ReserveFails, CommitConflicts,
         RecoverWinningLog, CommitFails, CommitUnacknowledged
<1> QED
  BY <1>1, <1>2, <1>3

(* The store of a process is Redis or its memory.                          *)
LEMMA StoreOfType ==
  ASSUME TypeOK, NEW q \in Requests
  PROVE  /\ StoreOf(q) \in Stores
         /\ StoreOf(q) \notin {Nobody, Ended}
<1>1. StoreOf(q) \in Stores
  BY RequestFields DEF StoreOf, Stores
<1> QED
  BY <1>1, DecisionAssumption DEF Stores

(* A request leaves the stores alone but for its own mark.                 *)
LEMMA StoreFrame ==
  ASSUME NEW q \in Requests, RequestStep(q)
  PROVE  /\ redis' = redis
         /\ MarkToken(q) \/ (marks' = marks /\ keeper' = keeper)
  BY DEF RequestStep, Refuse, Admit, ReadRight, LookupIdempotencyKey,
     MarkToken, Evaluate, Commit, ReserveFails, CommitConflicts,
     RecoverWinningLog, CommitFails, CommitUnacknowledged, stores

(* The stores, the cache and the budget of faults.                         *)
LEMMA RequestStores ==
  ASSUME TypeOK, NEW q \in Requests, RequestStep(q)
  PROVE  /\ redis' \in [Processes -> BOOLEAN]
         /\ marks' \subseteq Stores \X Tokens
         /\ keeper' \in [Requests -> Stores \cup {Nobody, Ended}]
         /\ cache' \in [Processes -> SUBSET (FingerprintType \X Nat)]
         /\ faults' \in 0..MaxFaults
<1>1. /\ redis' \in [Processes -> BOOLEAN]
      /\ marks' \subseteq Stores \X Tokens
      /\ keeper' \in [Requests -> Stores \cup {Nobody, Ended}]
  <2>1. /\ redis \in [Processes -> BOOLEAN]
        /\ marks \subseteq Stores \X Tokens
        /\ keeper \in [Requests -> Stores \cup {Nobody, Ended}]
    BY DEF TypeOK
  <2>2. Token(q) \in Tokens /\ call[q].process \in Stores /\ Redis \in Stores
    BY RequestFields DEF Stores
  <2>3. CASE MarkToken(q)
    <3>1. keeper' = [keeper EXCEPT ![q] = StoreOf(q)]
      BY <2>3 DEF MarkToken
    <3>2. marks' \subseteq
            marks \cup {<<StoreOf(q), Token(q)>>, <<Redis, Token(q)>>,
                      <<call[q].process, Token(q)>>}
      BY <2>3 DEF MarkToken, MarkIfFirstSeen
    <3> QED
      BY <2>1, <2>2, <3>1, <3>2, StoreOfType, StoreFrame
  <2>4. CASE ~MarkToken(q)
    BY <2>1, <2>4, StoreFrame
  <2> QED
    BY <2>3, <2>4
<1>2. cache' \in [Processes -> SUBSET (FingerprintType \X Nat)]
  <2>1. cache \in [Processes -> SUBSET (FingerprintType \X Nat)]
    BY DEF TypeOK
  <2>2. CacheKey(q) \in FingerprintType \X Nat
    BY RequestFields, ViewFields DEF CacheKey, TypeOK
  <2>3. CASE Commit(q)
    BY <2>1, <2>2, <2>3 DEF Commit
  <2>4. CASE ~Commit(q)
    <3>1. cache' = cache
      BY <2>4 DEF RequestStep, Refuse, Admit, ReadRight,
         LookupIdempotencyKey, MarkToken, Evaluate, ReserveFails,
         CommitConflicts, RecoverWinningLog, CommitFails,
         CommitUnacknowledged, stores
    <3> QED
      BY <2>1, <3>1
  <2> QED
    BY <2>3, <2>4
<1>3. faults' \in 0..MaxFaults
  <2>1. \/ faults' = faults
        \/ faults < MaxFaults /\ faults' = faults + 1
    BY DEF RequestStep, Refuse, Admit, ReadRight, LookupIdempotencyKey,
       MarkToken, Evaluate, Commit, ReserveFails, CommitConflicts,
       RecoverWinningLog, CommitFails, CommitUnacknowledged
  <2>2. faults \in 0..MaxFaults /\ MaxFaults \in Nat
    BY DecisionAssumption DEF TypeOK
  <2> QED
    BY <2>1, <2>2
<1> QED
  BY <1>1, <1>2, <1>3

(* A request leaves every type intact, and moves a right only to its next  *)
(* version.                                                                *)
LEMMA RequestTyping ==
  ASSUME TypeOK, NEW q \in Requests, SnapshotOK(q), RequestStep(q)
  PROVE  TypeOK' /\ RightsMove
<1>1. /\ rights' \in [Rights -> Right]
      /\ usage' \in 0..Quota
      /\ logs' \subseteq Log
      /\ outbox' \subseteq Event
      /\ RightsMove
  <2>1. CASE Commit(q) \/ CommitUnacknowledged(q)
    <3>1. Write(q)
      BY <2>1 DEF Commit, CommitUnacknowledged
    <3> QED
      BY <3>1, WriteTypes
  <2>2. CASE UNCHANGED dbVars
    BY <2>2 DEF dbVars, TypeOK, RightsMove
  <2> QED
    BY <2>1, <2>2, RequestFrame
<1>2. tokens' = tokens /\ call' = call /\ loaded' = loaded
  BY RequestFrame
<1>3. RequestTypes'
  BY RequestKeepsTypes
<1> QED
  BY <1>1, <1>2, <1>3, RequestStores DEF TypeOK, RequestTypes, Answers

(* What a request does to itself: it is not answered yet, and either       *)
(* writes, ends with an error, repeats a verdict from the decision log or  *)
(* an entry of the cache, or goes on.                                      *)
EndsWithError(q) == pc'[q] = "answered" /\ answer'[q] \in Errors
EndsWithLog(q) ==
    /\ pc'[q] = "answered"
    /\ answer'[q] \in Verdicts
    /\ \E l \in logs : /\ l.key = Key(q)
                       /\ l.fingerprint = Fingerprint(q)
                       /\ Verdict(l.allowed) = answer'[q]
EndsWithEntry(q) ==
    /\ pc'[q] = "answered"
    /\ answer'[q] = "cached"
    /\ CacheKey(q) \in cache[call[q].process]
GoesOn(q) ==
    /\ pc'[q] # "answered"
    /\ answer'[q] = answer[q]
    /\ SnapshotOK(q)'

(* A request that is answered has ended with that answer.                  *)
LEMMA AnswerEnds ==
  ASSUME TypeOK, NEW q \in Requests, NEW what, Answer(q, what)
  PROVE  pc'[q] = "answered" /\ answer'[q] = what
  BY DEF TypeOK, Answer

(* A request that goes on has no answer yet.                               *)
LEMMA GotoMoves ==
  ASSUME TypeOK, NEW q \in Requests, NEW step, Goto(q, step)
  PROVE  pc'[q] = step /\ answer'[q] = answer[q]
  BY DEF TypeOK, Goto

(* A log under the key of the request is its answer or a conflict.         *)
LEMMA LogAnswers ==
  ASSUME TypeOK, NEW q \in Requests, NEW l \in LogsUnder(Key(q)),
         AnswerFromLog(q, l)
  PROVE  EndsWithError(q) \/ EndsWithLog(q)
<1>1. CASE l.fingerprint = Fingerprint(q)
  <2>1. Answer(q, Verdict(l.allowed))
    BY <1>1 DEF AnswerFromLog
  <2>2. pc'[q] = "answered" /\ answer'[q] = Verdict(l.allowed)
    BY <2>1, AnswerEnds
  <2> QED
    BY <1>1, <2>2, VerdictType DEF EndsWithLog, LogsUnder
<1>2. CASE l.fingerprint # Fingerprint(q)
  <2>1. Answer(q, "idempotency_key_conflict")
    BY <1>2 DEF AnswerFromLog
  <2> QED
    BY <2>1, AnswerEnds DEF EndsWithError, Errors
<1> QED
  BY <1>1, <1>2

(* What one step does to the request that takes it.                        *)
LEMMA RequestOwn ==
  ASSUME TypeOK, NEW q \in Requests, SnapshotOK(q), RequestStep(q)
  PROVE  /\ pc[q] # "answered"
         /\ \/ Commit(q)
            \/ CommitUnacknowledged(q)
            \/ EndsWithError(q)
            \/ EndsWithLog(q)
            \/ EndsWithEntry(q)
            \/ GoesOn(q)
<1>1. pc[q] # "answered"
  BY DEF RequestStep, Refuse, Admit, ReadRight, LookupIdempotencyKey,
         MarkToken, Evaluate, Commit, ReserveFails, CommitConflicts,
         RecoverWinningLog, CommitFails, CommitUnacknowledged, Write
<1>2. \A what \in Errors : Answer(q, what) => EndsWithError(q)
  BY AnswerEnds DEF EndsWithError
<1>3. ASSUME NEW step \in {"mark", "evaluate"}, Goto(q, step),
             view' = view, rights' = rights, call' = call,
             pc[q] \in {"lookup", "mark"}
      PROVE  GoesOn(q)
  <2>1. pc'[q] = step /\ answer'[q] = answer[q]
    BY <1>3, GotoMoves
  <2>2. SnapshotOK(q)'
    BY <1>3, <2>1 DEF SnapshotOK, Looking, RightOf, Claim, Token
  <2> QED
    BY <2>1, <2>2 DEF GoesOn
<1>4. ASSUME NEW step \in {"right", "recover"}, Goto(q, step)
      PROVE  GoesOn(q)
  <2>1. pc'[q] = step /\ answer'[q] = answer[q]
    BY <1>4, GotoMoves
  <2>2. SnapshotOK(q)'
    BY <2>1 DEF SnapshotOK, Looking
  <2> QED
    BY <2>1, <2>2 DEF GoesOn
<1>v. view \in [Requests -> View] /\ view[q] \in View
  BY DEF TypeOK
<1>5. CASE Refuse(q) \/ ReserveFails(q) \/ CommitFails(q)
  BY <1>1, <1>2, <1>5 DEF Refuse, ReserveFails, CommitFails, Errors
<1>6. CASE Admit(q)
  BY <1>1, <1>2, <1>4, <1>6 DEF Admit, Errors
<1>7. CASE ReadRight(q)
  <2> DEFINE right == rights[RightOf(q)]
  <2>1. CASE ~right.valid \/ right.owner # Claim(q).user
    BY <1>1, <1>2, <1>7, <2>1 DEF ReadRight, Errors
  <2>2. CASE right.valid /\ right.owner = Claim(q).user
    <3>1. /\ view' = [view EXCEPT ![q].right = right]
          /\ Goto(q, "lookup")
          /\ rights' = rights
          /\ call' = call
      BY <1>7, <2>2 DEF ReadRight, dbVars
    <3>2. pc'[q] = "lookup" /\ answer'[q] = answer[q]
      BY <3>1, GotoMoves
    <3>3. view'[q].right = right
      BY <3>1, <1>v DEF View
    <3>4. right \in Right
      BY RequestFields DEF TypeOK
    <3>5. right.version <= right.version
      BY <3>4, RightFields
    <3>6. SnapshotOK(q)'
      BY <2>2, <3>1, <3>2, <3>3, <3>4, <3>5
         DEF SnapshotOK, Current, RightOf, Claim, Token
    <3> QED
      BY <1>1, <3>2, <3>6 DEF GoesOn
  <2> QED
    BY <2>1, <2>2
<1>8. CASE LookupIdempotencyKey(q)
  <2>1. CASE Explicit(q) /\ LogsUnder(Key(q)) # {}
    BY <1>1, <1>8, <2>1, LogAnswers DEF LookupIdempotencyKey
  <2>2. CASE ~(Explicit(q) /\ LogsUnder(Key(q)) # {}) /\ view[q].full
    BY <1>1, <1>2, <1>8, <2>2 DEF LookupIdempotencyKey, Errors
  <2>3. CASE ~(Explicit(q) /\ LogsUnder(Key(q)) # {}) /\ ~view[q].full
    BY <1>1, <1>3, <1>8, <2>3 DEF LookupIdempotencyKey, dbVars
  <2> QED
    BY <2>1, <2>2, <2>3
<1>9. CASE MarkToken(q)
  <2>1. pc[q] = "mark" /\ rights' = rights /\ call' = call
    BY <1>9 DEF MarkToken, dbVars
  <2>2. \/ Answer(q, "replay_detected")
        \/ Goto(q, "evaluate") /\ view' = view
    BY <1>9 DEF MarkToken, MarkIfFirstSeen
  <2> QED
    BY <1>1, <1>2, <1>3, <2>1, <2>2 DEF Errors
<1>10. CASE Evaluate(q)
  <2>1. CASE ~IsTransfer(q) /\ CacheKey(q) \in cache[call[q].process]
    <3>1. Answer(q, "cached")
      BY <1>10, <2>1 DEF Evaluate
    <3> QED
      BY <1>1, <2>1, <3>1, AnswerEnds DEF EndsWithEntry
  <2>2. CASE ~(~IsTransfer(q) /\ CacheKey(q) \in cache[call[q].process])
    <3>1. PICK allowed \in BOOLEAN :
            /\ allowed /\ IsTransfer(q) =>
                 call[q].newOwner \notin {NoUser, view[q].right.owner}
            /\ view' = [view EXCEPT ![q].allowed = allowed]
      BY <1>10, <2>2 DEF Evaluate
    <3>2. /\ pc[q] = "evaluate"
          /\ Goto(q, "commit")
          /\ rights' = rights
          /\ call' = call
      BY <1>10, <2>2 DEF Evaluate, dbVars
    <3>3. pc'[q] = "commit" /\ answer'[q] = answer[q]
      BY <3>2, GotoMoves
    <3>4. /\ view'[q].right = view[q].right
          /\ view'[q].allowed = allowed
      BY <3>1, <1>v DEF View
    <3>5. call[q].newOwner \in Users \cup {NoUser}
      BY RequestFields, CallFields
    <3>6. SnapshotOK(q)'
      BY <3>1, <3>2, <3>3, <3>4, <3>5
         DEF SnapshotOK, Looking, RightOf, Claim, Token, IsTransfer
    <3> QED
      BY <1>1, <3>3, <3>6 DEF GoesOn
  <2> QED
    BY <2>1, <2>2
<1>11. CASE CommitConflicts(q)
  BY <1>1, <1>2, <1>4, <1>11 DEF CommitConflicts, Errors
<1>12. CASE RecoverWinningLog(q)
  <2>1. CASE LogsUnder(Key(q)) # {}
    BY <1>1, <1>12, <2>1, LogAnswers DEF RecoverWinningLog
  <2>2. CASE LogsUnder(Key(q)) = {}
    BY <1>1, <1>2, <1>12, <2>2 DEF RecoverWinningLog, Errors
  <2> QED
    BY <2>1, <2>2
<1> QED
  BY <1>1, <1>5, <1>6, <1>7, <1>8, <1>9, <1>10, <1>11, <1>12
     DEF RequestStep

-----------------------------------------------------------------------------
(* What was seen stays the row of today, or an older version of it.        *)
LEMMA SnapshotMoves ==
  ASSUME TypeOK, NEW q \in Requests, SnapshotOK(q), RightsMove,
         pc'[q] = pc[q], view'[q] = view[q], call' = call
  PROVE  SnapshotOK(q)'
<1>1. CASE pc[q] \in Looking
  <2>1. Current(view[q].right, rights'[RightOf(q)])
    BY <1>1, RequestFields, CurrentMoves DEF SnapshotOK
  <2> QED
    BY <1>1, <2>1 DEF SnapshotOK, RightOf, Claim, Token, IsTransfer
<1>2. CASE pc[q] \notin Looking
  BY <1>2 DEF SnapshotOK, Looking
<1> QED
  BY <1>1, <1>2

(* The same for the row that a revoker has loaded.                         *)
LEMMA RevokerMoves ==
  ASSUME TypeOK, NEW v \in Revokers, RevokerOK(v), RightsMove,
         loaded'[v] = loaded[v]
  PROVE  RevokerOK(v)'
<1>1. CASE loaded[v] # Unread
  <2>1. Target[v] \in Rights
    BY DecisionAssumption
  <2>2. Current(loaded[v], rights'[Target[v]])
    BY <1>1, <2>1, CurrentMoves DEF RevokerOK
  <2> QED
    BY <1>1, <2>2 DEF RevokerOK
<1>2. CASE loaded[v] = Unread
  BY <1>2 DEF RevokerOK
<1> QED
  BY <1>1, <1>2

(* A step of a request leaves what the others have seen current or old.    *)
LEMMA RequestSeen ==
  ASSUME TypeOK, Seen, NEW q \in Requests, RequestStep(q)
  PROVE  Seen'
<1>1. SnapshotOK(q)
  BY DEF Seen
<1>2. RightsMove
  BY <1>1, RequestTyping
<1>3. call' = call /\ loaded' = loaded /\ OthersKeep(q)
  BY RequestFrame
<1>4. ASSUME NEW p \in Requests PROVE SnapshotOK(p)'
  <2>1. CASE p # q
    <3>1. pc'[p] = pc[p] /\ view'[p] = view[p]
      BY <1>3, <2>1 DEF OthersKeep
    <3> QED
      BY <1>2, <1>3, <3>1, SnapshotMoves DEF Seen
  <2>2. CASE p = q /\ pc'[q] = "answered"
    BY <2>2 DEF SnapshotOK, Looking
  <2>3. CASE p = q /\ pc'[q] # "answered"
    <3>1. ~Commit(q) /\ ~CommitUnacknowledged(q)
      BY <2>3, AnswerEnds, VerdictType DEF Commit, CommitUnacknowledged
    <3>2. GoesOn(q)
      BY <1>1, <2>3, <3>1, RequestOwn
         DEF EndsWithError, EndsWithLog, EndsWithEntry
    <3> QED
      BY <2>3, <3>2 DEF GoesOn
  <2> QED
    BY <2>1, <2>2, <2>3
<1>5. ASSUME NEW v \in Revokers PROVE RevokerOK(v)'
  BY <1>2, <1>3, RevokerMoves DEF Seen
<1> QED
  BY <1>4, <1>5 DEF Seen

-----------------------------------------------------------------------------
(* The steps that are not a request's.                                     *)
TokenStep == \E t \in Tokens : TokenIssue(t) \/ TokenExpires(t)
MarkStep ==
    \E store \in Stores, t \in Tokens : MarkExpires(store, t)
CacheStep == \E p \in Processes : CacheEntryExpires(p)
RevokerStep(v) == LoadRightToRevoke(v) \/ RevokeRight(v) \/ RevokeFails(v)

(* The steps of the system, grouped by who takes them.                     *)
LEMMA NextSteps ==
  Next <=> \/ \E q \in Requests : RequestStep(q)
           \/ TokenStep
           \/ MarkStep
           \/ CacheStep
           \/ \E p \in Processes : Crash(p)
           \/ \E v \in Revokers : RevokerStep(v)
  BY DEF Next, TokenStep, MarkStep, CacheStep, RevokerStep

(* Tokens, marks and cache entries that come and go keep their types.      *)
LEMMA StoreTyping ==
  ASSUME TypeOK, TokenStep \/ MarkStep \/ CacheStep
  PROVE  TypeOK'
<1>1. CASE TokenStep
  BY <1>1 DEF TokenStep, TokenIssue, TokenExpires, TypeOK, dbVars, stores
<1>2. CASE MarkStep
  BY <1>2 DEF MarkStep, MarkExpires, TypeOK, dbVars
<1>3. CASE CacheStep
  BY <1>3 DEF CacheStep, CacheEntryExpires, TypeOK, dbVars
<1> QED
  BY <1>1, <1>2, <1>3

(* A crash keeps the types.                                                *)
LEMMA CrashTyping ==
  ASSUME TypeOK, NEW p \in Processes, Crash(p)
  PROVE  TypeOK'
<1>1. faults' \in 0..MaxFaults
  BY DecisionAssumption DEF Crash, TypeOK
<1>2. /\ pc' \in [Requests -> Steps]
      /\ view' \in [Requests -> View]
      /\ answer' \in [Requests -> Answers]
  BY NoViewType DEF Crash, TypeOK, Answers, Errors, Steps
<1>3. /\ redis' \in [Processes -> BOOLEAN]
      /\ marks' \subseteq Stores \X Tokens
      /\ keeper' \in [Requests -> Stores \cup {Nobody, Ended}]
      /\ cache' \in [Processes -> SUBSET (FingerprintType \X Nat)]
  BY DecisionAssumption DEF Crash, TypeOK
<1>4. UNCHANGED <<dbVars, tokens, call, loaded>>
  BY DEF Crash
<1> QED
  BY <1>1, <1>2, <1>3, <1>4 DEF TypeOK, Answers, dbVars

(* A revocation writes the right it loaded.                                *)
Revoked(v) ==
    [rights[Target[v]] EXCEPT !.valid = FALSE,
                              !.version = loaded[v].version + 1]

(* A revocation that commits writes the next version of a valid row.       *)
LEMMA RevokeKnows ==
  ASSUME TypeOK, NEW v \in Revokers, RevokerOK(v), RevokeRight(v)
  PROVE  /\ Target[v] \in Rights
         /\ rights' = [rights EXCEPT ![Target[v]] = Revoked(v)]
         /\ rights[Target[v]].valid
         /\ Revoked(v) \in Right
         /\ Revoked(v).valid = FALSE
         /\ Revoked(v).owner = rights[Target[v]].owner
         /\ Revoked(v).changes = rights[Target[v]].changes
         /\ Revoked(v).version = rights[Target[v]].version + 1
<1>1. Target[v] \in Rights
  BY DecisionAssumption
<1>2. rights' = [rights EXCEPT ![Target[v]] = Revoked(v)]
  BY DEF RevokeRight, Revoked
<1>3. loaded[v].version = rights[Target[v]].version
  BY DEF RevokeRight
<1>4. rights[Target[v]].valid
  BY <1>3 DEF RevokerOK, Current, RevokeRight
<1>5. rights[Target[v]] \in Right /\ rights[Target[v]].version + 1 \in Nat
  BY <1>1, RightFields DEF TypeOK
<1> DEFINE n == rights[Target[v]].version + 1
<1>6. Revoked(v) = [rights[Target[v]] EXCEPT !.valid = FALSE, !.version = n]
  BY <1>3 DEF Revoked
<1> HIDE DEF n
<1>7. ASSUME n \in Nat
      PROVE  LET row == [rights[Target[v]] EXCEPT !.valid = FALSE,
                                                  !.version = n]
             IN /\ row \in Right
                /\ row.valid = FALSE
                /\ row.owner = rights[Target[v]].owner
                /\ row.changes = rights[Target[v]].changes
                /\ row.version = n
  BY <1>5, <1>7 DEF Right
<1> QED
  BY <1>1, <1>2, <1>4, <1>5, <1>6, <1>7 DEF n

(* A revoker keeps the types and moves a right by one version at most.     *)
LEMMA RevokerTyping ==
  ASSUME TypeOK, NEW v \in Revokers, RevokerOK(v), RevokerStep(v)
  PROVE  TypeOK' /\ RightsMove
<1>1. Target[v] \in Rights
  BY DecisionAssumption
<1>2. CASE LoadRightToRevoke(v)
  BY <1>1, <1>2 DEF LoadRightToRevoke, TypeOK, RightsMove, dbVars, stores
<1>3. CASE RevokeRight(v)
  <2>1. loaded[v].version + 1 \in Nat
    BY <1>3, RightFields DEF RevokeRight, RevokerOK, Current
  <2>2. outbox' \subseteq Event
    BY <1>1, <1>3, <2>1 DEF RevokeRight, TypeOK, Event
  <2>3. rights' \in [Rights -> Right] /\ RightsMove
    BY <1>3, RevokeKnows DEF TypeOK, RightsMove
  <2>4. loaded' \in [Revokers -> Right \cup {Unread}]
    BY <1>3 DEF RevokeRight, TypeOK
  <2> QED
    BY <1>3, <2>2, <2>3, <2>4 DEF RevokeRight, TypeOK, stores
<1>4. CASE RevokeFails(v)
  <2>1. faults' \in 0..MaxFaults
    BY <1>4, DecisionAssumption DEF RevokeFails, TypeOK
  <2> QED
    BY <1>4, <2>1 DEF RevokeFails, TypeOK, RightsMove, dbVars, stores
<1> QED
  BY <1>2, <1>3, <1>4 DEF RevokerStep

(* A revoker leaves what the others have seen current or old.              *)
LEMMA RevokerSeen ==
  ASSUME TypeOK, Seen, NEW v \in Revokers, RevokerStep(v)
  PROVE  Seen'
<1>1. RightsMove
  BY RevokerTyping DEF Seen
<1>2. pc' = pc /\ view' = view /\ call' = call
  BY DEF RevokerStep, LoadRightToRevoke, RevokeRight, RevokeFails
<1>3. ASSUME NEW q \in Requests PROVE SnapshotOK(q)'
  BY <1>1, <1>2, SnapshotMoves DEF Seen
<1>4. ASSUME NEW w \in Revokers PROVE RevokerOK(w)'
  <2>1. CASE w # v
    <3>1. loaded'[w] = loaded[w]
      BY <2>1 DEF RevokerStep, LoadRightToRevoke, RevokeRight, RevokeFails,
                  TypeOK
    <3> QED
      BY <1>1, <3>1, RevokerMoves DEF Seen
  <2>2. CASE w = v /\ LoadRightToRevoke(v)
    <3>1. /\ loaded'[v] = rights[Target[v]]
          /\ rights[Target[v]].valid
          /\ rights' = rights
      BY <2>2 DEF LoadRightToRevoke, TypeOK, dbVars
    <3>2. rights[Target[v]] \in Right
      BY DecisionAssumption DEF TypeOK
    <3>3. rights[Target[v]].version <= rights[Target[v]].version
      BY <3>2, RightFields
    <3> QED
      BY <2>2, <3>1, <3>2, <3>3 DEF RevokerOK, Current
  <2>3. CASE w = v /\ ~LoadRightToRevoke(v)
    <3>1. loaded'[v] = Unread
      BY <2>3 DEF RevokerStep, RevokeRight, RevokeFails, TypeOK
    <3> QED
      BY <2>3, <3>1 DEF RevokerOK
  <2> QED
    BY <2>1, <2>2, <2>3
<1> QED
  BY <1>3, <1>4 DEF Seen

(* Nothing changes for steps that touch neither rights nor requests.       *)
LEMMA StillSeen ==
  ASSUME Seen, UNCHANGED <<rights, call, pc, view, loaded>>
  PROVE  Seen'
  BY DEF Seen, SnapshotOK, RevokerOK, RightOf, Claim, Token, IsTransfer

(* A crash forgets what the requests of the process have seen.             *)
LEMMA CrashSeen ==
  ASSUME TypeOK, Seen, NEW p \in Processes, Crash(p)
  PROVE  Seen'
<1>1. rights' = rights /\ call' = call /\ loaded' = loaded
  BY DEF Crash, dbVars
<1>2. ASSUME NEW q \in Requests PROVE SnapshotOK(q)'
  <2>1. CASE InFlight(q, p)
    BY <2>1 DEF Crash, SnapshotOK, Looking
  <2>2. CASE ~InFlight(q, p)
    <3>1. pc'[q] = pc[q] /\ view'[q] = view[q]
      BY <2>2 DEF Crash
    <3> QED
      BY <1>1, <3>1 DEF Seen, SnapshotOK, RightOf, Claim, Token, IsTransfer
  <2> QED
    BY <2>1, <2>2
<1> QED
  BY <1>1, <1>2 DEF Seen, RevokerOK

SafeOK == TypeOK /\ Seen

(* The invariant holds at the start and survives every step.               *)
LEMMA SafeStart == Init => SafeOK
<1> SUFFICES ASSUME Init PROVE SafeOK
  OBVIOUS
<1>1. rights \in [Rights -> Right]
  <2>1. PICK owner \in [Rights -> Users] :
          rights = [r \in Rights |-> [owner |-> owner[r], valid |-> TRUE,
                                      changes |-> 0, version |-> 1]]
    BY DEF Init
  <2> QED
    BY <2>1 DEF Right
<1>2. usage \in 0..Quota /\ faults \in 0..MaxFaults
  BY DecisionAssumption DEF Init
<1>r. redis \in [Processes -> BOOLEAN]
  BY DecisionAssumption DEF Init
<1>3. TypeOK
  BY <1>1, <1>2, <1>r, NoViewType DEF Init, TypeOK, Steps
<1>4. Seen
  BY DEF Init, Seen, SnapshotOK, RevokerOK, Looking
<1> QED
  BY <1>3, <1>4 DEF SafeOK

(* Every step keeps the types and what was seen.                           *)
LEMMA SafeStep == SafeOK /\ [Next]_vars => SafeOK'
<1> SUFFICES ASSUME TypeOK, Seen, [Next]_vars PROVE TypeOK' /\ Seen'
  BY DEF SafeOK
<1>1. CASE UNCHANGED vars
  <2>1. TypeOK'
    BY <1>1 DEF vars, TypeOK
  <2>2. Seen'
    BY <1>1, StillSeen DEF vars
  <2> QED
    BY <2>1, <2>2
<1>2. ASSUME NEW q \in Requests, RequestStep(q) PROVE TypeOK' /\ Seen'
  BY <1>2, RequestTyping, RequestSeen DEF Seen
<1>3. CASE TokenStep \/ MarkStep \/ CacheStep
  <2>1. UNCHANGED <<rights, call, pc, view, loaded>>
    BY <1>3 DEF TokenStep, MarkStep, CacheStep, TokenIssue, TokenExpires,
                MarkExpires, CacheEntryExpires, dbVars
  <2> QED
    BY <1>3, <2>1, StoreTyping, StillSeen
<1>4. ASSUME NEW p \in Processes, Crash(p) PROVE TypeOK' /\ Seen'
  BY <1>4, CrashTyping, CrashSeen
<1>5. ASSUME NEW v \in Revokers, RevokerStep(v) PROVE TypeOK' /\ Seen'
  BY <1>5, RevokerTyping, RevokerSeen DEF Seen
<1> QED
  BY <1>1, <1>2, <1>3, <1>4, <1>5, NextSteps

(* The rows, the stores and the requests keep their types for every choice *)
(* of the constants; usage_count never passes monthly_quota.               *)
THEOREM Typing == Spec => []TypeOK
<1>1. SafeOK => TypeOK
  BY DEF SafeOK
<1> QED
  BY <1>1, SafeStart, SafeStep, PTL DEF Spec

-----------------------------------------------------------------------------
(* Which steps add a log, and what they know of the right.                 *)
LEMMA LogsOnlyWritten ==
  ASSUME Next
  PROVE  \/ logs' = logs
         \/ \E q \in Requests : RequestStep(q) /\ Write(q)
<1>1. ASSUME NEW q \in Requests, RequestStep(q)
      PROVE  logs' = logs \/ Write(q)
  BY <1>1 DEF RequestStep, Refuse, Admit, ReadRight, LookupIdempotencyKey,
              MarkToken, Evaluate, Commit, ReserveFails, CommitConflicts,
              RecoverWinningLog, CommitFails, CommitUnacknowledged, dbVars
<1>2. ASSUME TokenStep \/ MarkStep \/ CacheStep PROVE logs' = logs
  BY <1>2 DEF TokenStep, MarkStep, CacheStep, TokenIssue, TokenExpires,
              MarkExpires, CacheEntryExpires, dbVars
<1>3. ASSUME NEW p \in Processes, Crash(p) PROVE logs' = logs
  BY <1>3 DEF Crash, dbVars
<1>4. ASSUME NEW v \in Revokers, RevokerStep(v) PROVE logs' = logs
  BY <1>4 DEF RevokerStep, LoadRightToRevoke, RevokeRight, RevokeFails,
              dbVars
<1> QED
  BY <1>1, <1>2, <1>3, <1>4, NextSteps

(* No allowed decision is recorded for a right that is revoked, or that    *)
(* someone else owns, at the moment of the commit.                         *)
THEOREM UseByOwnerOnly == Spec => OnlyOwnerUsesRight
<1>1. SafeOK /\ [Next]_vars =>
        [\A l \in logs' \ logs :
           LET claim == Claims[l.fingerprint.token] IN
           l.allowed => /\ rights[claim.right].valid
                        /\ rights[claim.right].owner = claim.user]_vars
  <2> SUFFICES ASSUME SafeOK, [Next]_vars, vars' # vars,
                      NEW l \in logs' \ logs, l.allowed
               PROVE  LET claim == Claims[l.fingerprint.token] IN
                      /\ rights[claim.right].valid
                      /\ rights[claim.right].owner = claim.user
    OBVIOUS
  <2>1. PICK q \in Requests : Write(q)
    BY LogsOnlyWritten
  <2>2. l = NewLog(q) /\ TypeOK /\ SnapshotOK(q)
    BY <2>1 DEF Write, SafeOK, Seen
  <2>3. l.fingerprint.token = Token(q)
    BY <2>2, NewLogFields
  <2>4. view[q].allowed
    BY <2>2, LogType
  <2>5. /\ rights[RightOf(q)].valid
        /\ rights[RightOf(q)].owner = Claim(q).user
    BY <2>1, <2>2, <2>4, WriteKnows
  <2> QED
    BY <2>3, <2>5 DEF RightOf, Claim
<1> QED
  BY <1>1, SafeStart, SafeStep, PTL DEF Spec, OnlyOwnerUsesRight

-----------------------------------------------------------------------------
(* The detailed steps as steps of the ledger.                              *)
LEMMA WriteIsLedgerStep ==
  ASSUME TypeOK, NEW q \in Requests, SnapshotOK(q), Write(q)
  PROVE  Ledger!Next
<1> DEFINE l == NewLog(q)
<1>1. /\ l \in Log
      /\ l.key = Key(q)
      /\ l.allowed = view[q].allowed
      /\ l.fingerprint.token = Token(q)
      /\ l.fingerprint.newOwner = call[q].newOwner
  BY LogType, NewLogFields
<1>2. Ledger!Claim(l) = Claim(q) /\ Claim(q).right = RightOf(q)
  BY <1>1 DEF Ledger!Claim, Claim, RightOf
<1>3. Ledger!Record(l)
  BY <1>1 DEF Ledger!Record, Write, QuotaLeft, Duplicate, LogsUnder
<1>4. CASE ~view[q].allowed
  <2>1. Ledger!Deny(l)
    BY <1>1, <1>3, <1>4 DEF Ledger!Deny, Write
  <2> QED
    BY <1>1, <2>1 DEF Ledger!Next
<1>5. CASE view[q].allowed /\ ~IsTransfer(q)
  <2>1. Claim(q).scope = "access"
    BY <1>5, RequestFields, ClaimFields DEF IsTransfer, Scopes, Claim
  <2>2. Ledger!Usable(l)
    BY <1>2, <1>5, WriteKnows DEF Ledger!Usable
  <2>3. Ledger!AllowAccess(l)
    BY <1>1, <1>2, <1>3, <1>5, <2>1, <2>2 DEF Ledger!AllowAccess, Write
  <2> QED
    BY <1>1, <2>3 DEF Ledger!Next
<1>6. CASE view[q].allowed /\ IsTransfer(q)
  <2>1. Ledger!Usable(l)
    BY <1>2, <1>6, WriteKnows DEF Ledger!Usable
  <2>2. rights[RightOf(q)].owner # l.fingerprint.newOwner
    BY <1>1, <1>6, WriteKnows
  <2>3. rights' = [rights EXCEPT
                     ![RightOf(q)].owner = l.fingerprint.newOwner,
                     ![RightOf(q)].changes = rights[RightOf(q)].changes + 1,
                     ![RightOf(q)].version = rights[RightOf(q)].version + 1]
    <3>1. rights' = [rights EXCEPT ![RightOf(q)] = Transferred(q)]
      BY <1>6 DEF Write
    <3>2. view[q].right = rights[RightOf(q)]
      BY <1>6, WriteKnows
    <3>3. RightOf(q) \in Rights /\ rights \in [Rights -> Right]
      BY RequestFields DEF TypeOK
    <3> QED
      BY <1>1, <3>1, <3>2, <3>3 DEF Transferred, Right
  <2>4. Claim(q).scope = "ownership_transfer"
    BY <1>6 DEF IsTransfer
  <2>5. Ledger!AllowTransfer(l)
    BY <1>1, <1>2, <1>3, <1>6, <2>1, <2>2, <2>3, <2>4
       DEF Ledger!AllowTransfer
  <2> QED
    BY <1>1, <2>5 DEF Ledger!Next
<1> QED
  BY <1>4, <1>5, <1>6

(* A revocation that commits is a revocation of the ledger.                *)
LEMMA RevokeIsLedgerStep ==
  ASSUME TypeOK, NEW v \in Revokers, RevokerOK(v), RevokeRight(v)
  PROVE  Ledger!Next
<1> DEFINE r == Target[v]
<1>1. /\ r \in Rights
      /\ rights[r].valid
      /\ rights' = [rights EXCEPT ![r] = Revoked(v)]
  BY RevokeKnows
<1>2. rights' = [rights EXCEPT ![r].valid = FALSE,
                               ![r].version = rights[r].version + 1]
  <2>1. loaded[v].version = rights[r].version
    BY DEF RevokeRight
  <2>2. rights \in [Rights -> Right]
    BY DEF TypeOK
  <2> QED
    BY <1>1, <2>1, <2>2 DEF Revoked, Right
<1>3. Ledger!Revoke(r)
  BY <1>1, <1>2 DEF Ledger!Revoke, RevokeRight
<1> QED
  BY <1>1, <1>3 DEF Ledger!Next

(* Requests and revocations that interleave in every way, with crashes and *)
(* lost acknowledgements, have the effect of decisions and revocations     *)
(* that are made one at a time.                                            *)
THEOREM LedgerImplemented == Spec => ImplementsLedger
<1>1. Init => Ledger!Init
  <2> SUFFICES ASSUME Init PROVE Ledger!Init
    OBVIOUS
  <2>1. PICK owner \in [Rights -> Users] :
          rights = [r \in Rights |-> [owner |-> owner[r], valid |-> TRUE,
                                      changes |-> 0, version |-> 1]]
    BY DEF Init
  <2> QED
    BY <2>1 DEF Init, Ledger!Init
<1>2. SafeOK /\ [Next]_vars => [Ledger!Next]_<<rights, usage, logs>>
  <2> SUFFICES ASSUME TypeOK, Seen, [Next]_vars
               PROVE  Ledger!Next \/ UNCHANGED <<rights, usage, logs>>
    BY DEF SafeOK
  <2>1. CASE UNCHANGED vars
    BY <2>1 DEF vars
  <2>2. ASSUME NEW q \in Requests, RequestStep(q)
        PROVE  Ledger!Next \/ UNCHANGED <<rights, usage, logs>>
    <3>1. CASE Commit(q) \/ CommitUnacknowledged(q)
      BY <3>1, WriteIsLedgerStep DEF Commit, CommitUnacknowledged, Seen
    <3>2. CASE UNCHANGED dbVars
      BY <3>2 DEF dbVars
    <3> QED
      BY <2>2, <3>1, <3>2, RequestFrame
  <2>3. CASE TokenStep \/ MarkStep \/ CacheStep
    BY <2>3 DEF TokenStep, MarkStep, CacheStep, TokenIssue, TokenExpires,
                MarkExpires, CacheEntryExpires, dbVars
  <2>4. ASSUME NEW p \in Processes, Crash(p)
        PROVE  UNCHANGED <<rights, usage, logs>>
    BY <2>4 DEF Crash, dbVars
  <2>5. ASSUME NEW v \in Revokers, RevokerStep(v)
        PROVE  Ledger!Next \/ UNCHANGED <<rights, usage, logs>>
    <3>1. CASE RevokeRight(v)
      BY <3>1, RevokeIsLedgerStep DEF Seen
    <3>2. CASE ~RevokeRight(v)
      BY <2>5, <3>2 DEF RevokerStep, LoadRightToRevoke, RevokeFails, dbVars
    <3> QED
      BY <3>1, <3>2
  <2> QED
    BY <2>1, <2>2, <2>3, <2>4, <2>5, NextSteps
<1> QED
  BY <1>1, <1>2, SafeStart, SafeStep, PTL
     DEF Spec, ImplementsLedger, Ledger!Spec

-----------------------------------------------------------------------------
(* Answers, logs and cache entries.                                        *)
LogsOK ==
    \A l \in logs :
      /\ l.trace \in Requests
      /\ l.key = Key(l.trace)
      /\ l.fingerprint = Fingerprint(l.trace)
      /\ l.allowed \in BOOLEAN
      /\ pc[l.trace] = "answered"
      /\ answer[l.trace] \in
           {Verdict(l.allowed), "persistence_unavailable", "lost"}

AnswersOK ==
    \A q \in Requests :
      /\ answer[q] \in Verdicts =>
           \E l \in logs : /\ l.key = Key(q)
                           /\ l.fingerprint = Fingerprint(q)
                           /\ Verdict(l.allowed) = answer[q]
      /\ answer[q] = "cached" =>
           \E l \in logs : l.fingerprint = Fingerprint(q) /\ l.allowed

CacheOK ==
    \A p \in Processes : \A entry \in cache[p] :
      \E l \in logs : l.fingerprint = entry[1] /\ l.allowed

Recorded == LogsOK /\ AnswersOK /\ CacheOK

(* A log that is written is the only one of its request.                   *)
LEMMA WriteRecords ==
  ASSUME TypeOK, LogsOK, NEW q \in Requests, Write(q)
  PROVE  /\ \A l \in logs : l.trace # q
         /\ logs' = logs \cup {NewLog(q)}
         /\ view[q].allowed \in BOOLEAN
<1>1. view[q].allowed \in BOOLEAN
  BY ViewFields DEF TypeOK
<1> QED
  BY <1>1 DEF Write, LogsOK

(* A commit, acknowledged or not, and what it answers.                     *)
LEMMA WriteRecorded ==
  ASSUME TypeOK, Recorded, NEW q \in Requests,
         Commit(q) \/ CommitUnacknowledged(q)
  PROVE  Recorded'
<1> DEFINE n == NewLog(q)
<1>1. Write(q) /\ call' = call
  BY DEF Commit, CommitUnacknowledged
<1>2. /\ \A l \in logs : l.trace # q
      /\ logs' = logs \cup {n}
      /\ view[q].allowed \in BOOLEAN
  BY <1>1, WriteRecords DEF Recorded
<1>3. /\ n.trace = q
      /\ n.key = Key(q)
      /\ n.fingerprint = Fingerprint(q)
      /\ n.allowed = view[q].allowed
  BY LogType
<1>4. /\ pc'[q] = "answered"
      /\ answer'[q] \in
           {Verdict(n.allowed), "persistence_unavailable", "lost"}
  BY <1>3, AnswerEnds DEF Commit, CommitUnacknowledged
<1>5. OthersKeep(q)
  BY RequestFrame DEF RequestStep
<1>6. \A p : Key(p)' = Key(p) /\ Fingerprint(p)' = Fingerprint(p)
  BY <1>1 DEF Key, Fingerprint
<1>7. LogsOK'
  <2> SUFFICES ASSUME NEW l \in logs'
               PROVE  /\ l.trace \in Requests
                      /\ l.key = Key(l.trace)'
                      /\ l.fingerprint = Fingerprint(l.trace)'
                      /\ l.allowed \in BOOLEAN
                      /\ pc'[l.trace] = "answered"
                      /\ answer'[l.trace] \in
                           {Verdict(l.allowed), "persistence_unavailable",
                            "lost"}
    BY DEF LogsOK
  <2>1. CASE l = n
    BY <1>2, <1>3, <1>4, <1>6, <2>1
  <2>2. CASE l \in logs
    BY <1>2, <1>5, <1>6, <2>2 DEF Recorded, LogsOK, OthersKeep
  <2> QED
    BY <1>2, <2>1, <2>2
<1>8. AnswersOK'
  <2> SUFFICES ASSUME NEW p \in Requests
               PROVE  /\ answer'[p] \in Verdicts =>
                           \E l \in logs' :
                             /\ l.key = Key(p)'
                             /\ l.fingerprint = Fingerprint(p)'
                             /\ Verdict(l.allowed) = answer'[p]
                      /\ answer'[p] = "cached" =>
                           \E l \in logs' : /\ l.fingerprint = Fingerprint(p)'
                                            /\ l.allowed
    BY DEF AnswersOK
  <2>1. CASE p = q
    BY <1>2, <1>3, <1>4, <1>6, <2>1, VerdictType DEF Verdicts
  <2>2. CASE p # q
    <3>1. answer'[p] = answer[p]
      BY <1>5, <2>2 DEF OthersKeep
    <3> QED
      BY <1>2, <1>6, <3>1 DEF Recorded, AnswersOK
  <2> QED
    BY <2>1, <2>2
<1>9. CacheOK'
  <2> SUFFICES ASSUME NEW p \in Processes, NEW entry \in cache'[p]
               PROVE  \E l \in logs' : l.fingerprint = entry[1] /\ l.allowed
    BY DEF CacheOK
  <2>1. CASE entry \in cache[p]
    BY <1>2, <2>1 DEF Recorded, CacheOK
  <2>2. CASE entry \notin cache[p]
    <3>1. view[q].allowed /\ entry = CacheKey(q)
      BY <2>2 DEF Commit, CommitUnacknowledged, TypeOK, stores
    <3> QED
      BY <1>2, <1>3, <3>1 DEF CacheKey
  <2> QED
    BY <2>1, <2>2
<1> QED
  BY <1>7, <1>8, <1>9 DEF Recorded

(* A request that ends or goes on without writing.                         *)
LEMMA QuietRecorded ==
  ASSUME TypeOK, Recorded, NEW q \in Requests, SnapshotOK(q), RequestStep(q),
         ~Commit(q), ~CommitUnacknowledged(q)
  PROVE  Recorded'
<1>1. logs' = logs /\ call' = call /\ OthersKeep(q)
  BY RequestFrame DEF dbVars
<1>2. \A p : Key(p)' = Key(p) /\ Fingerprint(p)' = Fingerprint(p)
  BY <1>1 DEF Key, Fingerprint
<1>3. pc[q] # "answered"
  BY RequestOwn
<1>4. LogsOK'
  <2>1. \A l \in logs : l.trace # q
    BY <1>3 DEF Recorded, LogsOK
  <2> QED
    BY <1>1, <1>2, <2>1 DEF Recorded, LogsOK, OthersKeep
<1>5. AnswersOK'
  <2> SUFFICES ASSUME NEW p \in Requests
               PROVE  /\ answer'[p] \in Verdicts =>
                           \E l \in logs :
                             /\ l.key = Key(p)
                             /\ l.fingerprint = Fingerprint(p)
                             /\ Verdict(l.allowed) = answer'[p]
                      /\ answer'[p] = "cached" =>
                           \E l \in logs : /\ l.fingerprint = Fingerprint(p)
                                           /\ l.allowed
    BY <1>1, <1>2 DEF AnswersOK
  <2>1. CASE answer'[p] = answer[p]
    BY <2>1 DEF Recorded, AnswersOK
  <2>2. CASE p = q /\ EndsWithError(q)
    BY <2>2 DEF EndsWithError, Errors, Verdicts
  <2>3. CASE p = q /\ EndsWithLog(q)
    BY <2>3 DEF EndsWithLog, Verdicts
  <2>4. CASE p = q /\ EndsWithEntry(q)
    <3>1. CacheKey(q) \in cache[call[q].process]
      BY <2>4 DEF EndsWithEntry
    <3>2. call[q].process \in Processes
      BY RequestFields
    <3>3. PICK l \in logs : l.fingerprint = CacheKey(q)[1] /\ l.allowed
      BY <3>1, <3>2 DEF Recorded, CacheOK
    <3>4. CacheKey(q)[1] = Fingerprint(q)
      BY DEF CacheKey
    <3> QED
      BY <2>4, <3>3, <3>4 DEF EndsWithEntry, Verdicts
  <2>5. \/ answer'[p] = answer[p]
        \/ p = q /\ EndsWithError(q)
        \/ p = q /\ EndsWithLog(q)
        \/ p = q /\ EndsWithEntry(q)
    BY <1>1, RequestOwn DEF GoesOn, OthersKeep
  <2> QED
    BY <2>1, <2>2, <2>3, <2>4, <2>5
<1>6. CacheOK'
  <2>1. cache' = cache
    BY DEF RequestStep, Refuse, Admit, ReadRight, LookupIdempotencyKey,
           MarkToken, Evaluate, ReserveFails, CommitConflicts,
           RecoverWinningLog, CommitFails, stores
  <2> QED
    BY <1>1, <2>1 DEF Recorded, CacheOK
<1> QED
  BY <1>4, <1>5, <1>6 DEF Recorded

(* A crash tells no verdict and removes no log.                            *)
LEMMA CrashRecorded ==
  ASSUME TypeOK, Recorded, NEW p \in Processes, Crash(p)
  PROVE  Recorded'
<1>1. logs' = logs /\ call' = call
  BY DEF Crash, dbVars
<1>2. \A q : Key(q)' = Key(q) /\ Fingerprint(q)' = Fingerprint(q)
  BY <1>1 DEF Key, Fingerprint
<1>3. LogsOK'
  <2>1. \A l \in logs : ~InFlight(l.trace, p)
    BY DEF Recorded, LogsOK, InFlight
  <2>2. \A l \in logs : /\ pc'[l.trace] = pc[l.trace]
                        /\ answer'[l.trace] = answer[l.trace]
    BY <2>1 DEF Crash, Recorded, LogsOK
  <2> QED
    BY <1>1, <1>2, <2>2 DEF Recorded, LogsOK
<1>4. AnswersOK'
  <2>1. \A q \in Requests : answer'[q] = answer[q] \/ answer'[q] = "lost"
    BY DEF Crash
  <2> QED
    BY <1>1, <1>2, <2>1 DEF Recorded, AnswersOK, Verdicts
<1>5. CacheOK'
  <2>1. \A w \in Processes : cache'[w] \subseteq cache[w]
    BY DEF Crash, TypeOK
  <2> QED
    BY <1>1, <2>1 DEF Recorded, CacheOK
<1> QED
  BY <1>3, <1>4, <1>5 DEF Recorded

(* Steps that touch no log, no answer and add no cache entry.              *)
LEMMA StillRecorded ==
  ASSUME Recorded, UNCHANGED <<logs, call, pc, answer>>,
         \A p \in Processes : cache'[p] \subseteq cache[p]
  PROVE  Recorded'
<1>1. \A q : Key(q)' = Key(q) /\ Fingerprint(q)' = Fingerprint(q)
  BY DEF Key, Fingerprint
<1>2. LogsOK' /\ AnswersOK'
  BY <1>1 DEF Recorded, LogsOK, AnswersOK
<1>3. CacheOK'
  BY DEF Recorded, CacheOK
<1> QED
  BY <1>2, <1>3 DEF Recorded

(* At the start nothing was answered.                                      *)
LEMMA RecordedStart == Init => Recorded
  BY DEF Init, Recorded, LogsOK, AnswersOK, CacheOK, Verdicts

(* Every step keeps answers, logs and cache entries in agreement.          *)
LEMMA RecordedStep == SafeOK /\ Recorded /\ [Next]_vars => Recorded'
<1> SUFFICES ASSUME TypeOK, Seen, Recorded, [Next]_vars PROVE Recorded'
  BY DEF SafeOK
<1>1. CASE UNCHANGED vars
  BY <1>1, StillRecorded DEF vars
<1>2. ASSUME NEW q \in Requests, RequestStep(q) PROVE Recorded'
  BY <1>2, WriteRecorded, QuietRecorded DEF Seen
<1>3. CASE TokenStep \/ MarkStep \/ CacheStep
  <2>1. UNCHANGED <<logs, call, pc, answer>>
    BY <1>3 DEF TokenStep, MarkStep, CacheStep, TokenIssue, TokenExpires,
                MarkExpires, CacheEntryExpires, dbVars
  <2>2. \A p \in Processes : cache'[p] \subseteq cache[p]
    BY <1>3 DEF TokenStep, MarkStep, CacheStep, TokenIssue, TokenExpires,
                MarkExpires, CacheEntryExpires, stores, TypeOK
  <2> QED
    BY <2>1, <2>2, StillRecorded
<1>4. ASSUME NEW p \in Processes, Crash(p) PROVE Recorded'
  BY <1>4, CrashRecorded
<1>5. ASSUME NEW v \in Revokers, RevokerStep(v) PROVE Recorded'
  <2>1. UNCHANGED <<logs, call, pc, answer, cache>>
    BY <1>5 DEF RevokerStep, LoadRightToRevoke, RevokeRight, RevokeFails,
                dbVars, stores
  <2> QED
    BY <2>1, StillRecorded
<1> QED
  BY <1>1, <1>2, <1>3, <1>4, <1>5, NextSteps

(* A verdict that a client was told, cached or not, is in the decision     *)
(* log, and a request that was told of a failure other than a failing      *)
(* commit has left no log.                                                 *)
THEOREM AnswersRecorded == Spec => []AnswerIsOnRecord
<1>1. Recorded => AnswerIsOnRecord
  BY DEF Recorded, LogsOK, AnswersOK, AnswerIsOnRecord
<1> QED
  BY <1>1, SafeStart, SafeStep, RecordedStart, RecordedStep, PTL DEF Spec

-----------------------------------------------------------------------------
(* Versions of cached answers.                                             *)
Usable(entry) ==
    LET claim == Claims[entry[1].token]
        right == rights[claim.right]
    IN /\ entry[2] <= right.version
       /\ entry[2] = right.version => right.valid /\ right.owner = claim.user

(* An entry stays usable or becomes one of an old version when rights move *)
(* from version to version.                                                *)
LEMMA UsableMoves ==
  ASSUME TypeOK, CachedVersionIsUsable, RightsMove,
         \A p \in Processes : cache'[p] \subseteq cache[p]
  PROVE  CachedVersionIsUsable'
<1> SUFFICES ASSUME NEW p \in Processes, NEW entry \in cache'[p]
             PROVE  Usable(entry)'
  BY DEF CachedVersionIsUsable, Usable
<1>1. Usable(entry)
  BY DEF CachedVersionIsUsable, Usable
<1>2. entry \in FingerprintType \X Nat
  BY DEF TypeOK
<1>3. PICK r \in Rights : r = Claims[entry[1].token].right
  BY <1>2, ClaimFields DEF FingerprintType
<1>4. rights[r].version \in Nat /\ entry[2] \in Nat
  BY <1>2, RightFields DEF TypeOK
<1>5. CASE rights'[r] = rights[r]
  BY <1>1, <1>3, <1>5 DEF Usable
<1>6. CASE rights'[r].version = rights[r].version + 1
  BY <1>1, <1>3, <1>4, <1>6 DEF Usable
<1> QED
  BY <1>5, <1>6 DEF RightsMove

(* Every step keeps the entries of the present version usable.             *)
LEMMA UsableStep ==
  SafeOK /\ CachedVersionIsUsable /\ [Next]_vars => CachedVersionIsUsable'
<1> SUFFICES ASSUME TypeOK, Seen, CachedVersionIsUsable, [Next]_vars
             PROVE  CachedVersionIsUsable'
  BY DEF SafeOK
<1>1. CASE UNCHANGED vars
  BY <1>1 DEF vars, CachedVersionIsUsable
<1>2. ASSUME NEW q \in Requests, RequestStep(q) PROVE CachedVersionIsUsable'
  <2>1. SnapshotOK(q)
    BY DEF Seen
  <2>2. RightsMove
    BY <1>2, <2>1, RequestTyping
  <2>3. CASE cache' = cache
    BY <2>2, <2>3, UsableMoves
  <2>4. CASE cache' # cache
    <3>1. /\ Write(q) /\ view[q].allowed /\ ~IsTransfer(q)
          /\ cache' = [cache EXCEPT ![call[q].process] =
                         cache[call[q].process] \cup {CacheKey(q)}]
      BY <1>2, <2>4
         DEF RequestStep, Refuse, Admit, ReadRight, LookupIdempotencyKey,
             MarkToken, Evaluate, Commit, ReserveFails, CommitConflicts,
             RecoverWinningLog, CommitFails, CommitUnacknowledged, stores
    <3>2. rights' = rights
      BY <3>1 DEF Write
    <3>3. /\ view[q].right = rights[RightOf(q)]
          /\ rights[RightOf(q)].valid
          /\ rights[RightOf(q)].owner = Claim(q).user
      BY <2>1, <3>1, WriteKnows
    <3>4. rights[RightOf(q)].version \in Nat
      BY RequestFields, RightFields DEF TypeOK
    <3>5. CacheKey(q)[1].token = Token(q)
          /\ CacheKey(q)[2] = rights[RightOf(q)].version
      BY <3>3 DEF CacheKey, Fingerprint, FingerprintOf, Token
    <3>6. Usable(CacheKey(q))
      BY <3>3, <3>4, <3>5 DEF Usable, RightOf, Claim
    <3>7. ASSUME NEW p \in Processes, NEW entry \in cache'[p]
          PROVE  Usable(entry)
      <4>1. entry \in cache[p] \/ entry = CacheKey(q)
        BY <3>1, <3>7 DEF TypeOK
      <4> QED
        BY <3>6, <4>1 DEF CachedVersionIsUsable, Usable
    <3> QED
      BY <3>2, <3>7 DEF CachedVersionIsUsable, Usable
  <2> QED
    BY <2>3, <2>4
<1>3. CASE TokenStep \/ MarkStep \/ CacheStep
  <2>1. rights' = rights /\ \A p \in Processes : cache'[p] \subseteq cache[p]
    BY <1>3 DEF TokenStep, MarkStep, CacheStep, TokenIssue, TokenExpires,
                MarkExpires, CacheEntryExpires, dbVars, stores, TypeOK
  <2> QED
    BY <2>1, UsableMoves DEF RightsMove
<1>4. ASSUME NEW p \in Processes, Crash(p) PROVE CachedVersionIsUsable'
  <2>1. rights' = rights /\ \A w \in Processes : cache'[w] \subseteq cache[w]
    BY <1>4 DEF Crash, dbVars, TypeOK
  <2> QED
    BY <2>1, UsableMoves DEF RightsMove
<1>5. ASSUME NEW v \in Revokers, RevokerStep(v) PROVE CachedVersionIsUsable'
  <2>1. cache' = cache
    BY <1>5 DEF RevokerStep, LoadRightToRevoke, RevokeRight, RevokeFails,
                stores
  <2>2. RightsMove
    BY <1>5, RevokerTyping DEF Seen
  <2> QED
    BY <2>1, <2>2, UsableMoves
<1> QED
  BY <1>1, <1>2, <1>3, <1>4, <1>5, NextSteps

(* A cached answer that is found under the present version of its right is *)
(* one about a right that is valid and belongs to the user of the token.   *)
THEOREM CachedUsable == Spec => []CachedVersionIsUsable
<1>1. Init => CachedVersionIsUsable
  BY DEF Init, CachedVersionIsUsable
<1> QED
  BY <1>1, SafeStart, SafeStep, UsableStep, PTL DEF Spec

-----------------------------------------------------------------------------
(* Usage, logs and events.                                                 *)
DecisionEvent(l) ==
    [type |-> IF l.allowed THEN "decision.allowed" ELSE "decision.denied",
     about |-> l.trace, number |-> 0]
BillingEvent(l, n) ==
    [type |-> "billing.usage.incremented", about |-> l.trace, number |-> n]
EventsAbout(r) == {o \in outbox : o.about = r}

Books ==
    /\ IsFiniteSet(logs)
    /\ usage = Cardinality(logs)
    /\ \A l \in logs : \E n \in 1..usage :
         EventsAbout(l.trace) = {DecisionEvent(l), BillingEvent(l, n)}
    /\ \A o \in outbox : o.about \in Requests =>
         \E l \in logs : l.trace = o.about
    /\ \A o \in outbox : Billing(o) => o.about \in Requests
    /\ \A o, n \in outbox :
         Billing(o) /\ Billing(n) /\ o.number = n.number => o = n

(* The number of a billing event is a usage_count that was reached.        *)
LEMMA BilledNumbers ==
  ASSUME Books, NEW o \in outbox, Billing(o)
  PROVE  o.number \in 1..usage
<1>1. PICK l \in logs : l.trace = o.about
  BY DEF Books
<1>2. PICK n \in 1..usage :
        EventsAbout(l.trace) = {DecisionEvent(l), BillingEvent(l, n)}
  BY DEF Books
<1>3. o \in EventsAbout(l.trace)
  BY <1>1 DEF EventsAbout
<1>4. o = BillingEvent(l, n)
  BY <1>2, <1>3 DEF DecisionEvent, Billing
<1> QED
  BY <1>4 DEF BillingEvent

(* A transaction adds one log, one unit of usage and its two events.       *)
LEMMA WriteBooks ==
  ASSUME TypeOK, LogsOK, Books, NEW q \in Requests, Write(q)
  PROVE  Books'
<1> DEFINE log == NewLog(q)
           d == DecisionEvent(log)
           b == BillingEvent(log, usage + 1)
<1>1. /\ \A l \in logs : l.trace # q
      /\ logs' = logs \cup {log}
  BY WriteRecords
<1>2. log.trace = q /\ log.allowed = view[q].allowed /\ log \notin logs
  BY <1>1, LogType
<1>3. usage \in Nat /\ usage' = usage + 1 /\ 1..usage \subseteq 1..usage'
  BY DecisionAssumption DEF TypeOK, Write
<1>4. outbox' = outbox \cup {d, b}
  BY <1>2 DEF Write, NewEvents, DecisionEvent, BillingEvent
<1>5. d.about = q /\ b.about = q /\ ~Billing(d) /\ Billing(b)
  BY <1>2 DEF DecisionEvent, BillingEvent, Billing
<1>6. b.number = usage + 1
  BY DEF BillingEvent
<1>7. \A o \in outbox : o.about # q
  BY <1>1 DEF Books
<1> HIDE DEF d, b, log
<1>8. IsFiniteSet(logs') /\ usage' = Cardinality(logs')
  BY <1>1, <1>2, <1>3, FS_AddElement DEF Books
<1>9. ASSUME NEW l \in logs'
      PROVE  \E n \in 1..usage' :
               EventsAbout(l.trace)' = {DecisionEvent(l), BillingEvent(l, n)}
  <2>1. CASE l \in logs
    <3>1. PICK n \in 1..usage :
            EventsAbout(l.trace) = {DecisionEvent(l), BillingEvent(l, n)}
      BY <2>1 DEF Books
    <3>2. EventsAbout(l.trace)' = EventsAbout(l.trace)
      BY <1>1, <1>4, <1>5, <2>1 DEF EventsAbout
    <3> QED
      BY <1>3, <3>1, <3>2
  <2>2. CASE l = log
    <3>1. EventsAbout(q)' = {d, b}
      BY <1>4, <1>5, <1>7 DEF EventsAbout
    <3>2. usage + 1 \in 1..usage'
      BY <1>3
    <3> QED
      BY <1>2, <2>2, <3>1, <3>2 DEF d, b
  <2> QED
    BY <1>1, <2>1, <2>2
<1>10. ASSUME NEW o \in outbox', o.about \in Requests
       PROVE  \E l \in logs' : l.trace = o.about
  BY <1>1, <1>2, <1>4, <1>5, <1>10 DEF Books
<1>11. \A o \in outbox' : Billing(o) => o.about \in Requests
  BY <1>4, <1>5 DEF Books
<1>12. ASSUME NEW o \in outbox', NEW n \in outbox', Billing(o), Billing(n),
              o.number = n.number
       PROVE  o = n
  <2>1. \A e \in outbox : Billing(e) => e.number # usage + 1
    BY <1>3, BilledNumbers
  <2> QED
    BY <1>4, <1>5, <1>6, <1>12, <2>1 DEF Books
<1> QED
  BY <1>8, <1>9, <1>10, <1>11, <1>12 DEF Books, Billing

RevocationEvent(v) ==
    [type |-> "right.revoked", about |-> Target[v],
     number |-> loaded[v].version + 1]

(* The event of a revocation is about a right and bills nothing.           *)
LEMMA RevokeBooks ==
  ASSUME TypeOK, LogsOK, Books, NEW v \in Revokers, RevokeRight(v)
  PROVE  Books'
<1> DEFINE e == RevocationEvent(v)
<1>1. /\ outbox' = outbox \cup {e}
      /\ e.type = "right.revoked"
      /\ e.about = Target[v]
  BY DEF RevokeRight, RevocationEvent
<1> HIDE DEF e
<1>2. e.about \notin Requests /\ ~Billing(e)
  BY <1>1, DecisionAssumption DEF Billing
<1>3. logs' = logs /\ usage' = usage
  BY DEF RevokeRight
<1>4. \A l \in logs : EventsAbout(l.trace)' = EventsAbout(l.trace)
  BY <1>1, <1>2 DEF EventsAbout, LogsOK
<1> QED
  BY <1>1, <1>2, <1>3, <1>4 DEF Books, Billing

(* Steps that touch neither usage nor logs nor events.                     *)
LEMMA StillBooks ==
  ASSUME Books, UNCHANGED <<usage, logs, outbox>>
  PROVE  Books'
  BY DEF Books, EventsAbout

(* At the start there is nothing to account for.                           *)
LEMMA BooksStart == Init => Books
  BY FS_EmptySet DEF Init, Books

(* Every step keeps usage, logs and events in agreement.                   *)
LEMMA BooksStep == SafeOK /\ Recorded /\ Books /\ [Next]_vars => Books'
<1> SUFFICES ASSUME TypeOK, LogsOK, Books, [Next]_vars PROVE Books'
  BY DEF SafeOK, Recorded
<1>1. CASE UNCHANGED vars
  BY <1>1, StillBooks DEF vars
<1>2. ASSUME NEW q \in Requests, RequestStep(q) PROVE Books'
  <2>1. CASE Write(q)
    BY <2>1, WriteBooks
  <2>2. CASE UNCHANGED dbVars
    BY <2>2, StillBooks DEF dbVars
  <2> QED
    BY <1>2, <2>1, <2>2, RequestFrame DEF Commit, CommitUnacknowledged
<1>3. CASE TokenStep \/ MarkStep \/ CacheStep
  BY <1>3, StillBooks
     DEF TokenStep, MarkStep, CacheStep, TokenIssue, TokenExpires,
         MarkExpires, CacheEntryExpires, dbVars
<1>4. ASSUME NEW p \in Processes, Crash(p) PROVE Books'
  BY <1>4, StillBooks DEF Crash, dbVars
<1>5. ASSUME NEW v \in Revokers, RevokerStep(v) PROVE Books'
  <2>1. CASE RevokeRight(v)
    BY <2>1, RevokeBooks
  <2>2. CASE ~RevokeRight(v)
    BY <1>5, <2>2, StillBooks
       DEF RevokerStep, LoadRightToRevoke, RevokeFails, dbVars
  <2> QED
    BY <2>1, <2>2
<1> QED
  BY <1>1, <1>2, <1>3, <1>4, <1>5, NextSteps

(* Every decision that is recorded is counted once, announced once and     *)
(* billed once under a usage count of its own, and nothing else is.        *)
THEOREM DecisionsBilledOnce == Spec => []EveryDecisionIsBilledOnce
<1>1. Books => EveryDecisionIsBilledOnce
  BY DEF Books, EveryDecisionIsBilledOnce, EventsAbout, DecisionEvent,
         BillingEvent
<1> QED
  BY <1>1, SafeStart, SafeStep, RecordedStart, RecordedStep,
     BooksStart, BooksStep, PTL DEF Spec

-----------------------------------------------------------------------------
(* Versions.                                                               *)
Revocations(r) == {o \in outbox : o.type = "right.revoked" /\ o.about = r}

VersionOK(r) ==
    /\ rights[r].changes = Cardinality(TransfersOf(r))
    /\ rights[r].version =
         1 + rights[r].changes + Cardinality(Revocations(r))
    /\ rights[r].valid => Revocations(r) = {}
    /\ ~rights[r].valid => \E o : Revocations(r) = {o}

Versions == \A r \in Rights : VersionOK(r)

(* A transaction that transfers a right makes its next version.            *)
LEMMA WriteVersions ==
  ASSUME TypeOK, LogsOK, Books, Versions, NEW q \in Requests, SnapshotOK(q),
         Write(q)
  PROVE  Versions'
<1> DEFINE log == NewLog(q)
<1>1. /\ logs' = logs \cup {log}
      /\ log \notin logs
      /\ log.allowed = view[q].allowed
      /\ log.fingerprint.token = Token(q)
  BY WriteRecords, LogType, NewLogFields
<1> HIDE DEF log
<1>2. \A r \in Rights : Revocations(r)' = Revocations(r)
  BY DEF Write, NewEvents, Revocations
<1>3. \A r \in Rights : IsFiniteSet(TransfersOf(r))
  BY FS_Subset DEF Books, TransfersOf
<1>4. rights \in [Rights -> Right] /\ RightOf(q) \in Rights
  BY RequestFields DEF TypeOK
<1>5. CASE view[q].allowed /\ IsTransfer(q)
  <2>1. rights' = [rights EXCEPT ![RightOf(q)] = Transferred(q)]
    BY <1>5 DEF Write
  <2>2. PICK r \in Rights : r = RightOf(q)
    BY <1>4
  <2>3. ASSUME NEW s \in Rights, s # r PROVE VersionOK(s)'
    <3>1. TransfersOf(s)' = TransfersOf(s)
      BY <1>1, <2>2, <2>3 DEF TransfersOf, RightOf, Claim
    <3>2. rights'[s] = rights[s]
      BY <1>4, <2>1, <2>2, <2>3
    <3> QED
      BY <1>2, <3>1, <3>2 DEF Versions, VersionOK
  <2>4. VersionOK(r)'
    <3> DEFINE old == rights[r]
               new == Transferred(q)
    <3>1. TransfersOf(r)' = TransfersOf(r) \cup {log}
      BY <1>1, <1>5, <2>2 DEF TransfersOf, RightOf, Claim, IsTransfer
    <3>2. log \notin TransfersOf(r)
      BY <1>1 DEF TransfersOf
    <3>3. Cardinality(TransfersOf(r)') = Cardinality(TransfersOf(r)) + 1
      BY <1>3, <3>1, <3>2, FS_AddElement
    <3>4. /\ old.valid
          /\ new.valid
          /\ new.changes = old.changes + 1
          /\ new.version = old.version + 1
      BY <1>5, <2>2, WriteKnows
    <3>5. rights'[r] = new
      BY <1>4, <2>1, <2>2
    <3>6. /\ old.changes = Cardinality(TransfersOf(r))
          /\ old.version = 1 + old.changes + Cardinality(Revocations(r))
          /\ old.valid => Revocations(r) = {}
      BY DEF Versions, VersionOK
    <3>7. old.changes \in Nat /\ old.version \in Nat
      BY <1>4, RightFields
    <3>8. Revocations(r) = {} /\ Cardinality(Revocations(r)) = 0
      BY <3>4, <3>6, FS_EmptySet
    <3> HIDE DEF old, new
    <3>9. /\ rights'[r].changes = Cardinality(TransfersOf(r)')
          /\ rights'[r].version = 1 + rights'[r].changes + 0
      BY <3>3, <3>4, <3>5, <3>6, <3>7, <3>8
    <3>10. Revocations(r)' = {} /\ Cardinality(Revocations(r)') = 0
      BY <1>2, <3>8
    <3> QED
      BY <3>4, <3>5, <3>9, <3>10 DEF VersionOK
  <2> QED
    BY <2>3, <2>4 DEF Versions
<1>6. CASE ~(view[q].allowed /\ IsTransfer(q))
  <2>1. rights' = rights
    BY <1>6 DEF Write
  <2>2. \A r \in Rights : TransfersOf(r)' = TransfersOf(r)
    BY <1>1, <1>6 DEF TransfersOf, IsTransfer, Claim
  <2> QED
    BY <1>2, <2>1, <2>2 DEF Versions, VersionOK
<1> QED
  BY <1>5, <1>6

(* A revocation makes the next version of a right that was never revoked.  *)
LEMMA RevokeVersions ==
  ASSUME TypeOK, Versions, NEW v \in Revokers, RevokerOK(v), RevokeRight(v)
  PROVE  Versions'
<1> DEFINE e == RevocationEvent(v)
           old == rights[Target[v]]
           new == Revoked(v)
           r == Target[v]
<1>1. /\ outbox' = outbox \cup {e}
      /\ e.type = "right.revoked"
      /\ e.about = r
  BY DEF RevokeRight, RevocationEvent
<1>2. /\ r \in Rights
      /\ rights' = [rights EXCEPT ![r] = new]
      /\ old.valid
      /\ new.valid = FALSE
      /\ new.changes = old.changes
      /\ new.version = old.version + 1
  BY RevokeKnows
<1>3. rights \in [Rights -> Right]
  BY DEF TypeOK
<1>4. \A s : TransfersOf(s)' = TransfersOf(s)
  BY DEF RevokeRight, TransfersOf
<1> HIDE DEF e, new
<1>5. ASSUME NEW s \in Rights, s # r PROVE VersionOK(s)'
  <2>1. Revocations(s)' = Revocations(s)
    BY <1>1, <1>5 DEF Revocations
  <2>2. rights'[s] = rights[s]
    BY <1>2, <1>3, <1>5
  <2> QED
    BY <1>4, <2>1, <2>2 DEF Versions, VersionOK
<1>6. VersionOK(r)'
  <2>1. /\ old.changes = Cardinality(TransfersOf(r))
        /\ old.version = 1 + old.changes + Cardinality(Revocations(r))
        /\ Revocations(r) = {}
    BY <1>2 DEF Versions, VersionOK
  <2>2. Cardinality(Revocations(r)) = 0
    BY <2>1, FS_EmptySet
  <2>3. Revocations(r)' = {e}
    BY <1>1, <2>1 DEF Revocations
  <2>4. Cardinality(Revocations(r)') = 1
    BY <2>3, FS_Singleton
  <2>5. old.changes \in Nat /\ old.version \in Nat
    BY <1>2, <1>3, RightFields
  <2>6. rights'[r] = new
    BY <1>2, <1>3
  <2>7. /\ rights'[r].changes = Cardinality(TransfersOf(r)')
        /\ rights'[r].version = 1 + rights'[r].changes + 1
    <3>1. TransfersOf(r)' = TransfersOf(r)
      BY <1>4
    <3> HIDE DEF old
    <3> QED
      BY <1>2, <2>1, <2>2, <2>5, <2>6, <3>1
  <2>8. rights'[r].valid = FALSE
    BY <1>2, <2>6
  <2> QED
    BY <2>3, <2>4, <2>7, <2>8 DEF VersionOK
<1> QED
  BY <1>5, <1>6 DEF Versions

(* Steps that touch neither rights nor logs nor events.                    *)
LEMMA StillVersions ==
  ASSUME Versions, UNCHANGED <<rights, logs, outbox>>
  PROVE  Versions'
<1>1. \A r : TransfersOf(r)' = TransfersOf(r)
  BY DEF TransfersOf
<1>2. \A r : Revocations(r)' = Revocations(r)
  BY DEF Revocations
<1> QED
  BY <1>1, <1>2 DEF Versions, VersionOK

(* At the start every right is in its first version.                       *)
LEMMA VersionsStart == Init => Versions
<1> SUFFICES ASSUME Init, NEW r \in Rights PROVE VersionOK(r)
  BY DEF Versions
<1>1. /\ rights[r].valid
      /\ rights[r].changes = 0
      /\ rights[r].version = 1
  BY DEF Init
<1>2. TransfersOf(r) = {} /\ Revocations(r) = {}
  BY DEF Init, TransfersOf, Revocations
<1>3. /\ Cardinality(TransfersOf(r)) = 0
      /\ Cardinality(Revocations(r)) = 0
  BY <1>2, FS_EmptySet
<1> QED
  BY <1>1, <1>2, <1>3 DEF VersionOK

(* Every step keeps the versions in agreement with the history.            *)
LEMMA VersionsStep ==
  SafeOK /\ Recorded /\ Books /\ Versions /\ [Next]_vars => Versions'
<1> SUFFICES ASSUME TypeOK, Seen, LogsOK, Books, Versions, [Next]_vars
             PROVE  Versions'
  BY DEF SafeOK, Recorded
<1>1. CASE UNCHANGED vars
  BY <1>1, StillVersions DEF vars
<1>2. ASSUME NEW q \in Requests, RequestStep(q) PROVE Versions'
  <2>1. CASE Write(q)
    BY <2>1, WriteVersions DEF Seen
  <2>2. CASE UNCHANGED dbVars
    BY <2>2, StillVersions DEF dbVars
  <2> QED
    BY <1>2, <2>1, <2>2, RequestFrame DEF Commit, CommitUnacknowledged
<1>3. CASE TokenStep \/ MarkStep \/ CacheStep
  BY <1>3, StillVersions
     DEF TokenStep, MarkStep, CacheStep, TokenIssue, TokenExpires,
         MarkExpires, CacheEntryExpires, dbVars
<1>4. ASSUME NEW p \in Processes, Crash(p) PROVE Versions'
  BY <1>4, StillVersions DEF Crash, dbVars
<1>5. ASSUME NEW v \in Revokers, RevokerStep(v) PROVE Versions'
  <2>1. CASE RevokeRight(v)
    BY <2>1, RevokeVersions DEF Seen
  <2>2. CASE ~RevokeRight(v)
    BY <1>5, <2>2, StillVersions
       DEF RevokerStep, LoadRightToRevoke, RevokeFails, dbVars
  <2> QED
    BY <2>1, <2>2
<1> QED
  BY <1>1, <1>2, <1>3, <1>4, <1>5, NextSteps

(* No transfer and no revocation of a right overwrites another, however    *)
(* many requests and revokers work on it.                                  *)
THEOREM NoUpdateLost == Spec => []NoLostUpdate
<1>1. Versions => NoLostUpdate
  <2> SUFFICES ASSUME Versions, NEW r \in Rights
               PROVE  /\ rights[r].changes = Cardinality(TransfersOf(r))
                      /\ rights[r].version =
                           1 + rights[r].changes + Cardinality(Revocations(r))
                      /\ Cardinality(Revocations(r)) =
                           IF rights[r].valid THEN 0 ELSE 1
    BY DEF NoLostUpdate, Revocations
  <2>1. VersionOK(r)
    BY DEF Versions
  <2>2. Cardinality(Revocations(r)) = IF rights[r].valid THEN 0 ELSE 1
    BY <2>1, FS_EmptySet, FS_Singleton DEF VersionOK
  <2> QED
    BY <2>1, <2>2 DEF VersionOK
<1> QED
  BY <1>1, SafeStart, SafeStep, RecordedStart, RecordedStep,
     BooksStart, BooksStep, VersionsStart, VersionsStep, PTL DEF Spec

-----------------------------------------------------------------------------
(* Tokens.                                                                 *)
Past == {"evaluate", "commit", "recover"}

(* A request that has got past the replay store.                           *)
Passed(q) == pc[q] \in Past \/ \E l \in logs : l.trace = q

(* It has asked a store, and, failing closed, only it has got the token    *)
(* past that store.                                                        *)
MarkOK(q) ==
    /\ Passed(q) => keeper[q] # Nobody
    /\ Passed(q) /\ keeper[q] \in Stores /\ tokens[Token(q)] # "expired" =>
         <<keeper[q], Token(q)>> \in marks
AloneOK(p, q) ==
    /\ Passed(p)
    /\ Passed(q)
    /\ Token(p) = Token(q)
    /\ tokens[Token(q)] # "expired"
    /\ keeper[p] = keeper[q]
    /\ keeper[q] \in Stores
    => p = q

Exclusive ==
    /\ \A q \in Requests : MarkOK(q)
    /\ \A p, q \in Requests : AloneOK(p, q)

(* A store that a request has asked keeps the mark of a token that can     *)
(* still be used, or has ended.                                            *)
MarksStay ==
    \A q \in Requests :
      \/ keeper'[q] = Ended
      \/ /\ keeper'[q] = keeper[q]
         /\ \A t \in Tokens : /\ <<keeper[q], t>> \in marks
                              /\ tokens'[t] # "expired"
                              => <<keeper[q], t>> \in marks'

(* Nobody passes but, at most, one request by marking its token first.     *)
LEMMA NobodyPasses ==
  ASSUME TypeOK, Exclusive, MarksStay, call' = call,
         \A t \in Tokens : tokens'[t] # "expired" => tokens[t] # "expired",
         \A q \in Requests : Passed(q)' => Passed(q)
  PROVE  Exclusive'
<1>1. \A q : Token(q)' = Token(q)
  BY DEF Token
<1>2. \A q \in Requests : Token(q) \in Tokens
  BY RequestFields
<1>3. Ended \notin Stores /\ Ended # Nobody
  BY DecisionAssumption DEF Stores
<1>4. ASSUME NEW q \in Requests PROVE MarkOK(q)'
  BY <1>1, <1>2, <1>3, <1>4 DEF Exclusive, MarkOK, MarksStay
<1>5. ASSUME NEW p \in Requests, NEW q \in Requests PROVE AloneOK(p, q)'
  BY <1>1, <1>2, <1>3, <1>5 DEF Exclusive, AloneOK, MarksStay
<1> QED
  BY <1>4, <1>5 DEF Exclusive

(* Failing closed, a request passes only by setting the mark in the store  *)
(* that its process has.                                                   *)
LEMMA MarkedOnce ==
  ASSUME TypeOK, LogsOK, FailClosed, Exclusive, NEW q \in Requests,
         MarkToken(q)
  PROVE  Exclusive'
<1>1. /\ logs' = logs
      /\ tokens' = tokens
      /\ call' = call
      /\ marks \subseteq marks'
  BY DEF MarkToken, MarkIfFirstSeen, dbVars
<1>2. OthersKeep(q)
  BY RequestFrame DEF RequestStep
<1>3. \A p \in Requests \ {q} : Passed(p)' = Passed(p)
  BY <1>1, <1>2 DEF Passed, OthersKeep
<1>4. \A p : Token(p)' = Token(p)
  BY <1>1 DEF Token
<1>5. /\ keeper'[q] = StoreOf(q)
      /\ \A p \in Requests \ {q} : keeper'[p] = keeper[p]
  BY DEF MarkToken, TypeOK
<1>6. \A l \in logs' : l.trace # q
  BY <1>1 DEF LogsOK, MarkToken
<1>7. CASE Answer(q, "replay_detected")
  <2>1. ~Passed(q)'
    BY <1>6, <1>7, AnswerEnds DEF Passed, Past
  <2>2. ASSUME NEW p \in Requests PROVE MarkOK(p)'
    BY <1>1, <1>3, <1>4, <1>5, <2>1, <2>2 DEF Exclusive, MarkOK
  <2>3. ASSUME NEW p \in Requests, NEW w \in Requests PROVE AloneOK(p, w)'
    BY <1>1, <1>3, <1>4, <1>5, <2>1, <2>3 DEF Exclusive, AloneOK
  <2> QED
    BY <2>2, <2>3 DEF Exclusive
<1>8. CASE ~Answer(q, "replay_detected")
  <2>1. /\ <<StoreOf(q), Token(q)>> \notin marks
        /\ <<StoreOf(q), Token(q)>> \in marks'
    BY <1>8 DEF MarkToken, MarkIfFirstSeen
  <2>2. ASSUME NEW p \in Requests PROVE MarkOK(p)'
    <3>1. CASE p = q
      BY <1>4, <1>5, <2>1, <3>1, StoreOfType DEF MarkOK
    <3>2. CASE p # q
      BY <1>1, <1>3, <1>4, <1>5, <3>2 DEF Exclusive, MarkOK
    <3> QED
      BY <3>1, <3>2
  <2>3. ASSUME NEW p \in Requests \ {q}, Passed(p), Token(p) = Token(q),
               keeper[p] = StoreOf(q), tokens[Token(q)] # "expired"
        PROVE  FALSE
    BY <2>1, <2>3, StoreOfType DEF Exclusive, MarkOK
  <2>4. ASSUME NEW p \in Requests, NEW w \in Requests PROVE AloneOK(p, w)'
    BY <1>1, <1>3, <1>4, <1>5, <2>3, <2>4 DEF Exclusive, AloneOK
  <2> QED
    BY <2>2, <2>4 DEF Exclusive
<1> QED
  BY <1>7, <1>8

(* A step of a request lets nobody pass with a token that was used.        *)
LEMMA RequestExclusive ==
  ASSUME TypeOK, LogsOK, FailClosed, Exclusive, NEW q \in Requests,
         RequestStep(q)
  PROVE  Exclusive'
<1>1. call' = call /\ tokens' = tokens /\ OthersKeep(q)
  BY RequestFrame
<1>2. CASE MarkToken(q)
  BY <1>2, MarkedOnce
<1>3. CASE ~MarkToken(q)
  <2>1. marks' = marks /\ keeper' = keeper
    BY <1>3, StoreFrame
  <2>2. MarksStay
    BY <2>1 DEF MarksStay
  <2>3. CASE Commit(q) \/ CommitUnacknowledged(q)
    <3>1. /\ pc[q] = "commit"
          /\ logs' = logs \cup {NewLog(q)}
      BY <2>3 DEF Commit, CommitUnacknowledged, Write
    <3>2. NewLog(q).trace = q
      BY LogType
    <3>3. \A p \in Requests : Passed(p)' => Passed(p)
      BY <1>1, <3>1, <3>2 DEF Passed, Past, OthersKeep
    <3> QED
      BY <1>1, <2>2, <3>3, NobodyPasses
  <2>4. CASE UNCHANGED dbVars
    <3>1. logs' = logs
      BY <2>4 DEF dbVars
    <3>2. pc'[q] \in Past => pc[q] \in Past
      <4>1. \A what : Answer(q, what) => pc'[q] \notin Past
        BY AnswerEnds DEF Past
      <4>2. \A l : AnswerFromLog(q, l) => pc'[q] \notin Past
        BY <4>1 DEF AnswerFromLog
      <4>3. \A step : Goto(q, step) => pc'[q] = step
        BY GotoMoves
      <4>4. CASE Admit(q) \/ ReadRight(q) \/ LookupIdempotencyKey(q)
        BY <4>1, <4>2, <4>3, <4>4
           DEF Admit, ReadRight, LookupIdempotencyKey, Past
      <4>5. CASE Refuse(q) \/ ReserveFails(q) \/ CommitFails(q)
        BY <4>1, <4>5 DEF Refuse, ReserveFails, CommitFails
      <4>6. CASE \/ Evaluate(q) \/ CommitConflicts(q) \/ RecoverWinningLog(q)
                 \/ Commit(q) \/ CommitUnacknowledged(q)
        BY <4>6 DEF Evaluate, CommitConflicts, RecoverWinningLog, Commit,
                    CommitUnacknowledged, Write, Past
      <4> QED
        BY <1>3, <4>4, <4>5, <4>6 DEF RequestStep
    <3>3. \A p \in Requests : Passed(p)' => Passed(p)
      BY <1>1, <3>1, <3>2 DEF Passed, OthersKeep
    <3> QED
      BY <1>1, <2>2, <3>3, NobodyPasses
  <2> QED
    BY <2>3, <2>4, RequestFrame
<1> QED
  BY <1>2, <1>3

(* A mark goes only after its token has expired.                           *)
LEMMA StoreExclusive ==
  ASSUME TypeOK, Exclusive, TokenStep \/ MarkStep \/ CacheStep
  PROVE  Exclusive'
<1>1. UNCHANGED <<logs, call, pc>>
  BY DEF TokenStep, MarkStep, CacheStep, TokenIssue, TokenExpires,
         MarkExpires, CacheEntryExpires, dbVars
<1>2. \A q \in Requests : Passed(q)' => Passed(q)
  BY <1>1 DEF Passed
<1>3. \A t \in Tokens : tokens'[t] # "expired" => tokens[t] # "expired"
  BY DEF TokenStep, MarkStep, CacheStep, TokenIssue, TokenExpires,
         MarkExpires, CacheEntryExpires, TypeOK
<1>4. MarksStay
  <2>1. keeper' = keeper /\ \A t \in Tokens : tokens'[t] # "expired" =>
          \A s : <<s, t>> \in marks => <<s, t>> \in marks'
    BY DEF TokenStep, MarkStep, CacheStep, TokenIssue, TokenExpires,
           MarkExpires, CacheEntryExpires, stores, TypeOK
  <2> QED
    BY <2>1 DEF MarksStay
<1> QED
  BY <1>1, <1>2, <1>3, <1>4, NobodyPasses

(* A crash takes the memory of a process, and with it what was its keeper. *)
LEMMA CrashExclusive ==
  ASSUME TypeOK, Exclusive, NEW p \in Processes, Crash(p)
  PROVE  Exclusive'
<1>1. UNCHANGED <<logs, tokens, call>>
  BY DEF Crash, dbVars
<1>2. \A q \in Requests : Passed(q)' => Passed(q)
  BY <1>1 DEF Crash, Passed, Past
<1>3. MarksStay
  BY <1>1 DEF Crash, MarksStay
<1> QED
  BY <1>1, <1>2, <1>3, NobodyPasses

(* Steps that touch neither tokens nor marks nor requests.                 *)
LEMMA StillExclusive ==
  ASSUME TypeOK, Exclusive, UNCHANGED <<logs, tokens, marks, keeper, call, pc>>
  PROVE  Exclusive'
<1>1. \A q \in Requests : Passed(q)' => Passed(q)
  BY DEF Passed
<1> QED
  BY <1>1, NobodyPasses DEF MarksStay

OnceOK == FailClosed => Exclusive

(* At the start nobody has passed.                                         *)
LEMMA OnceStart == Init => OnceOK
  BY DEF Init, OnceOK, Exclusive, MarkOK, AloneOK, Passed, Past

(* Every step keeps the tokens exclusive, if the store fails closed.       *)
LEMMA OnceStep == SafeOK /\ Recorded /\ OnceOK /\ [Next]_vars => OnceOK'
<1> SUFFICES ASSUME FailClosed, TypeOK, LogsOK, Exclusive, [Next]_vars
             PROVE  Exclusive'
  BY DEF SafeOK, Recorded, OnceOK
<1>1. CASE UNCHANGED vars
  BY <1>1, StillExclusive DEF vars
<1>2. ASSUME NEW q \in Requests, RequestStep(q) PROVE Exclusive'
  BY <1>2, RequestExclusive
<1>3. CASE TokenStep \/ MarkStep \/ CacheStep
  BY <1>3, StoreExclusive
<1>4. ASSUME NEW p \in Processes, Crash(p) PROVE Exclusive'
  BY <1>4, CrashExclusive
<1>5. ASSUME NEW v \in Revokers, RevokerStep(v) PROVE Exclusive'
  <2>1. UNCHANGED <<logs, tokens, marks, keeper, call, pc>>
    BY <1>5 DEF RevokerStep, LoadRightToRevoke, RevokeRight, RevokeFails,
                dbVars, stores
  <2> QED
    BY <2>1, StillExclusive
<1> QED
  BY <1>1, <1>2, <1>3, <1>4, <1>5, NextSteps

(* A request has one log: its events tell of one verdict only.             *)
LEMMA LogOfTrace ==
  ASSUME TypeOK, LogsOK, Books, NEW l \in logs, NEW m \in logs,
         l.trace = m.trace
  PROVE  l = m
<1>1. l.key = m.key /\ l.fingerprint = m.fingerprint
  BY DEF LogsOK
<1>2. PICK n \in 1..usage :
        EventsAbout(l.trace) = {DecisionEvent(l), BillingEvent(l, n)}
  BY DEF Books
<1>3. DecisionEvent(m) \in EventsAbout(l.trace)
  BY DEF Books
<1>4. DecisionEvent(m) = DecisionEvent(l)
  BY <1>2, <1>3 DEF DecisionEvent, BillingEvent
<1>5. l.allowed \in BOOLEAN /\ m.allowed \in BOOLEAN
  BY DEF LogsOK
<1>6. l.allowed <=> m.allowed
  BY <1>4 DEF DecisionEvent
<1>7. l.allowed = m.allowed
  BY <1>5, <1>6
<1>8. /\ l = [trace |-> l.trace, key |-> l.key,
             fingerprint |-> l.fingerprint, allowed |-> l.allowed]
      /\ m = [trace |-> m.trace, key |-> m.key,
             fingerprint |-> m.fingerprint, allowed |-> m.allowed]
  BY DEF TypeOK, Log, LogOf
<1> QED
  BY <1>1, <1>7, <1>8

(* While a token has not expired it has led to at most one decision of all *)
(* processes that found Redis when they started, and to at most one of     *)
(* each process that did not, if the replay store fails closed.            *)
THEOREM TokenUsedOnce == Spec => []OneDecisionPerToken
<1>1. SafeOK /\ Recorded /\ Books /\ OnceOK => OneDecisionPerToken
  <2> SUFFICES ASSUME TypeOK, LogsOK, Books, Exclusive,
                      NEW l \in logs, NEW m \in logs,
                      l.fingerprint.token = m.fingerprint.token,
                      tokens[l.fingerprint.token] # "expired",
                      keeper[l.trace] = keeper[m.trace],
                      keeper[l.trace] # Ended
               PROVE  l = m
    BY DEF SafeOK, Recorded, OnceOK, OneDecisionPerToken
  <2>1. /\ l.trace \in Requests
        /\ m.trace \in Requests
        /\ Token(l.trace) = l.fingerprint.token
        /\ Token(m.trace) = m.fingerprint.token
    <3>1. \A q : Fingerprint(q).token = Token(q)
      BY DEF Fingerprint, FingerprintOf, Token
    <3> QED
      BY <3>1 DEF LogsOK
  <2>2. Passed(l.trace) /\ Passed(m.trace)
    BY DEF Passed
  <2>3. keeper[l.trace] \in Stores
    BY <2>1, <2>2 DEF Exclusive, MarkOK, TypeOK
  <2>4. l.trace = m.trace
    BY <2>1, <2>2, <2>3 DEF Exclusive, AloneOK
  <2> QED
    BY <2>4, LogOfTrace
<1> QED
  BY <1>1, SafeStart, SafeStep, RecordedStart, RecordedStep,
     BooksStart, BooksStep, OnceStart, OnceStep, PTL DEF Spec
=============================================================================
