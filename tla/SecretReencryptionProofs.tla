---------------------- MODULE SecretReencryptionProofs ----------------------
(***************************************************************************)
(* Theorems about SecretReencryption, for every number of calls, processes,*)
(* rows and keys, every assignment of calls to processes, every lease and  *)
(* every budget of faults.                                                 *)
(***************************************************************************)
EXTENDS SecretReencryption, TLAPS

-----------------------------------------------------------------------------
(* First layer: types.                                                     *)

(* The single facts that the assumption on the constants is cited for.     *)
LEMMA Constants ==
    /\ \A c \in Calls : Home[c] \in Servers
    /\ 1 \in Keys /\ LostKey \notin Keys /\ NoKey \notin Keys
    /\ Nobody \notin Calls
    /\ Lease \in Nat
    /\ Limits \subseteq Nat
    /\ Past \in Int
<1>1. MaxAge \in Nat
  BY ReencryptAssumption
<1>2. Past \in Int
  BY <1>1 DEF Past
<1>3. Lease \in Nat /\ Limits \subseteq Nat
  BY ReencryptAssumption
<1>4. \A c \in Calls : Home[c] \in Servers
  BY ReencryptAssumption
<1>5. 1 \in Keys /\ LostKey \notin Keys /\ NoKey \notin Keys
  BY ReencryptAssumption
<1>6. Nobody \notin Calls
  BY ReencryptAssumption
<1> QED
  BY <1>2, <1>3, <1>4, <1>5, <1>6

(* The edits of a row keep its type.                                       *)
LEMMA RowEdits ==
  ASSUME NEW row \in Row
  PROVE  /\ \A o \in Calls \cup {Nobody}, n \in Int :
              ClaimBy(row, o, n) \in Row
         /\ \A k, v \in Keys :
              [row EXCEPT !.key = k, !.key_version = v, !.verified = TRUE]
                \in Row
         /\ \A n \in Int : [row EXCEPT !.claim_expires_at = n] \in Row
         /\ row.claim_expires_at \in Int
  BY DEF Row, ClaimBy

(* The edits of the local variables of a call keep their types.            *)
LEMMA CallEdits ==
  ASSUME NEW q \in Call
  PROVE  /\ q.kid \in Keys /\ q.age \in Nat /\ q.copy \in Keys
         /\ q.claimed \subseteq Hooks /\ q.candidates \subseteq Hooks
         /\ q.todo \subseteq Hooks
         /\ \A S \in SUBSET Hooks : [q EXCEPT !.candidates = S] \in Call
         /\ \A S \in SUBSET Hooks : [q EXCEPT !.todo = S] \in Call
         /\ \A S, T \in SUBSET Hooks :
              [q EXCEPT !.candidates = S, !.claimed = T] \in Call
         /\ \A k \in Keys : [q EXCEPT !.copy = k] \in Call
         /\ \A n \in Nat : [q EXCEPT !.age = n] \in Call
  BY DEF Call

(* A call begins, and ends, with local variables of the right types.       *)
LEMMA CallOfType == \A k \in Keys, n \in Nat : CallOf(k, n) \in Call
<1>1. 0 \in Nat
  OBVIOUS
<1> QED
  BY <1>1 DEF CallOf, Call

(* A call that does not run has local variables of the right types.        *)
LEMMA NoCallType == NoCall \in Call
<1>1. 0 \in Nat
  OBVIOUS
<1> QED
  BY <1>1, CallOfType, Constants DEF NoCall

(* So has a transaction that has written nothing.                          *)
LEMMA NothingWrittenType == NothingWritten \in [Hooks -> Keys \cup {NoKey}]
  BY DEF NothingWritten

(* What a transaction has written, once it is committed.                   *)
LEMMA WrittenType ==
  ASSUME TypeOK, NEW c \in Calls
  PROVE  Written(c) \in [Hooks -> Row]
<1>1. ASSUME NEW h \in Hooks, pending[c][h] # NoKey
      PROVE  ClaimBy([webhooks[h] EXCEPT !.key = pending[c][h],
                        !.key_version = call[c].kid,
                        !.verified = TRUE], Nobody, Past) \in Row
  <2>1. webhooks[h] \in Row /\ pending[c][h] \in Keys /\ call[c] \in Call
    BY <1>1 DEF TypeOK
  <2>2. call[c].kid \in Keys
    BY <2>1, CallEdits
  <2> DEFINE edited == [webhooks[h] EXCEPT !.key = pending[c][h],
                          !.key_version = call[c].kid, !.verified = TRUE]
  <2>3. edited \in Row
    BY <2>1, <2>2, RowEdits
  <2> HIDE DEF edited
  <2>4. ClaimBy(edited, Nobody, Past) \in Row
    BY <2>3, RowEdits, Constants
  <2> QED
    BY <2>4 DEF edited
<1>2. \A h \in Hooks : webhooks[h] \in Row
  BY DEF TypeOK
<1> QED
  BY <1>1, <1>2 DEF Written

(* A release, or the end of a claim, keeps the type of the rows.           *)
LEMMA ReleaseType ==
  ASSUME TypeOK, NEW h \in Hooks, NEW o \in Calls \cup {Nobody}, NEW n \in Int
  PROVE  [webhooks EXCEPT ![h] = ClaimBy(webhooks[h], o, n)]
           \in [Hooks -> Row]
<1>1. webhooks \in [Hooks -> Row] /\ webhooks[h] \in Row
  BY DEF TypeOK
<1>2. ClaimBy(webhooks[h], o, n) \in Row
  BY <1>1, RowEdits
<1> QED
  BY <1>1, <1>2

(* The local variables of one call are replaced.                           *)
LEMMA CallType ==
  ASSUME TypeOK, NEW c \in Calls, NEW q \in Call
  PROVE  [call EXCEPT ![c] = q] \in [Calls -> Call]
  BY DEF TypeOK

(* Going to another step keeps the type of pc.                             *)
LEMMA PcType ==
  ASSUME TypeOK, NEW c \in Calls, NEW step \in Steps
  PROVE  [pc EXCEPT ![c] = step] \in [Calls -> Steps]
  BY DEF TypeOK

(* A call that ends keeps the types of pc and of the local variables.      *)
LEMMA LeaveType ==
  ASSUME TypeOK, NEW c \in Calls, Leave(c)
  PROVE  call' \in [Calls -> Call] /\ pc' \in [Calls -> Steps]
<1>1. call' \in [Calls -> Call]
  BY CallType, NoCallType DEF Leave
<1>2. "idle" \in Steps
  BY DEF Steps
<1> QED
  BY <1>1, <1>2, PcType DEF Leave, Goto

(* A rollback keeps the type of what is written.                           *)
LEMMA RollbackType ==
  ASSUME TypeOK, NEW c \in Calls, Rollback(c)
  PROVE  pending' \in [Calls -> [Hooks -> Keys \cup {NoKey}]]
  BY NothingWrittenType DEF TypeOK, Rollback

(* The exception handler keeps the types of what it touches.               *)
LEMMA UndoType ==
  ASSUME TypeOK, NEW c \in Calls, Undo(c)
  PROVE  /\ call' \in [Calls -> Call] /\ pc' \in [Calls -> Steps]
         /\ pending' \in [Calls -> [Hooks -> Keys \cup {NoKey}]]
<1>1. call[c] \in Call /\ call[c].claimed \in SUBSET Hooks
  BY CallEdits DEF TypeOK
<1>2. [call[c] EXCEPT !.todo = call[c].claimed] \in Call
  BY <1>1, CallEdits
<1>3. call' = [call EXCEPT ![c] = [call[c] EXCEPT !.todo = call[c].claimed]]
  BY DEF Undo
<1>4. call' \in [Calls -> Call]
  BY <1>2, <1>3, CallType
<1>5. "undo" \in Steps
  BY DEF Steps
<1>6. pc' \in [Calls -> Steps]
  BY <1>5, PcType DEF Undo, Goto
<1> QED
  BY <1>4, <1>6, RollbackType DEF Undo

(* The rows that are next in a list belong to it.                          *)
LEMMA NextInList == \A S : NextOf(S) \subseteq S
  BY DEF NextOf

(* FirstN takes rows of the list.                                          *)
LEMMA FirstInList == \A S, n : FirstN(S, n) \subseteq S
  BY DEF FirstN

(* A call that begins keeps the types.                                     *)
LEMMA BeginTyped ==
  ASSUME TypeOK, NEW c \in Calls, Begin(c)
  PROVE  TypeOK'
<1>1. PICK n \in Limits :
        call' = [call EXCEPT ![c] = CallOf(active[Home[c]], n)]
  BY DEF Begin
<1>2. active[Home[c]] \in Keys /\ n \in Nat
  BY Constants DEF TypeOK
<1>3. call' \in [Calls -> Call]
  BY <1>1, <1>2, CallOfType, CallType
<1>4. pc' \in [Calls -> Steps]
  BY PcType DEF Begin, Goto, Steps
<1> QED
  BY <1>3, <1>4 DEF TypeOK, Begin, config, budgets

(* The query for the candidates keeps the types: they are ids of rows.     *)
LEMMA SelectTyped ==
  ASSUME TypeOK, NEW c \in Calls, SelectCandidates(c)
  PROVE  TypeOK'
<1> DEFINE wanted == {h \in Hooks : /\ Available(webhooks[h], call[c].age)
                                    /\ NeedsKey(webhooks[h], call[c].kid)}
           first == FirstN(wanted, call[c].limit + 1)
<1>1. first \in SUBSET Hooks
  BY FirstInList
<1>2. call' = [call EXCEPT ![c] = [call[c] EXCEPT !.candidates = first]]
  BY DEF SelectCandidates
<1> HIDE DEF first
<1>3. [call[c] EXCEPT !.candidates = first] \in Call
  BY <1>1, CallEdits DEF TypeOK
<1>4. call' \in [Calls -> Call]
  BY <1>2, <1>3, CallType
<1>5. pc' \in [Calls -> Steps]
  BY PcType DEF SelectCandidates, Goto, Steps
<1> QED
  BY <1>4, <1>5 DEF TypeOK, SelectCandidates, config, budgets

(* What a claim does to the row, and to the local variables.               *)
LEMMA ClaimedRow ==
  ASSUME TypeOK, NEW c \in Calls, NEW h \in Hooks,
         webhooks' = [webhooks EXCEPT ![h] = ClaimBy(@, c, Lease - call[c].age)]
  PROVE  webhooks' \in [Hooks -> Row]
<1>1. call[c].age \in Nat
  BY CallEdits DEF TypeOK
<1>2. Lease - call[c].age \in Int
  BY <1>1, Constants
<1> QED
  BY <1>2, ReleaseType

(* A claim that matches a row keeps the types.                             *)
LEMMA ClaimTyped ==
  ASSUME TypeOK, NEW c \in Calls, ClaimWebhook(c)
  PROVE  TypeOK'
<1>1. PICK h \in NextOf(call[c].candidates) :
        /\ webhooks' = [webhooks EXCEPT ![h] =
                          ClaimBy(@, c, Lease - call[c].age)]
        /\ call' = [call EXCEPT ![c].candidates = @ \ {h},
                                ![c].claimed = @ \cup {h}]
  BY DEF ClaimWebhook
<1>2. call[c] \in Call
  BY DEF TypeOK
<1>3. h \in Hooks
  BY <1>2, CallEdits, NextInList
<1>4. webhooks' \in [Hooks -> Row]
  BY <1>1, <1>3, ClaimedRow
<1>5. call' = [call EXCEPT ![c] =
                 [call[c] EXCEPT !.candidates = call[c].candidates \ {h},
                                 !.claimed = call[c].claimed \cup {h}]]
  BY <1>1, <1>2 DEF TypeOK, Call
<1>6. /\ call[c].candidates \ {h} \in SUBSET Hooks
      /\ call[c].claimed \cup {h} \in SUBSET Hooks
  BY <1>2, <1>3, CallEdits
<1>7. [call[c] EXCEPT !.candidates = call[c].candidates \ {h},
                      !.claimed = call[c].claimed \cup {h}] \in Call
  BY <1>2, <1>6, CallEdits
<1>8. call' \in [Calls -> Call]
  BY <1>5, <1>7, CallType
<1> QED
  BY <1>4, <1>8 DEF TypeOK, ClaimWebhook, config, budgets

(* A list of candidates that loses one keeps its type.                     *)
LEMMA CandidateDropped ==
  ASSUME TypeOK, NEW c \in Calls, NEW h,
         call' = [call EXCEPT ![c].candidates = @ \ {h}]
  PROVE  call' \in [Calls -> Call]
<1>1. call[c] \in Call /\ call[c].candidates \ {h} \in SUBSET Hooks
  BY CallEdits DEF TypeOK
<1>2. [call[c] EXCEPT !.candidates = call[c].candidates \ {h}] \in Call
  BY <1>1, CallEdits
<1> QED
  BY <1>2, CallType

(* What is left to do is replaced by other rows.                           *)
LEMMA TodoReplaced ==
  ASSUME TypeOK, NEW c \in Calls, NEW S \in SUBSET Hooks,
         call' = [call EXCEPT ![c].todo = S]
  PROVE  call' \in [Calls -> Call]
<1>1. [call[c] EXCEPT !.todo = S] \in Call
  BY CallEdits DEF TypeOK
<1> QED
  BY <1>1, CallType

(* One row less is left to do.                                             *)
LEMMA TodoDropped ==
  ASSUME TypeOK, NEW c \in Calls, NEW h,
         call' = [call EXCEPT ![c].todo = @ \ {h}]
  PROVE  call' \in [Calls -> Call]
<1>1. call[c].todo \ {h} \in SUBSET Hooks
  BY CallEdits DEF TypeOK
<1> QED
  BY <1>1, TodoReplaced

(* A claim that matches no row keeps the types.                            *)
LEMMA ClaimMissesTyped ==
  ASSUME TypeOK, NEW c \in Calls, ClaimMisses(c)
  PROVE  TypeOK'
<1>1. call' \in [Calls -> Call]
  BY CandidateDropped DEF ClaimMisses
<1> QED
  BY <1>1 DEF TypeOK, ClaimMisses, config, budgets

(* The end of the first loop keeps the types.                              *)
LEMMA EndClaimsTyped ==
  ASSUME TypeOK, NEW c \in Calls, EndClaims(c)
  PROVE  TypeOK'
<1>1. call[c].claimed \in SUBSET Hooks
  BY CallEdits DEF TypeOK
<1>2. call' \in [Calls -> Call]
  BY <1>1, TodoReplaced DEF EndClaims
<1>3. pc' \in [Calls -> Steps]
  BY PcType DEF EndClaims, Goto, Steps
<1> QED
  BY <1>2, <1>3 DEF TypeOK, EndClaims, config, budgets

(* Decrypting keeps the types: the key was in the keyring.                 *)
LEMMA DecryptTyped ==
  ASSUME TypeOK, NEW c \in Calls, Decrypt(c)
  PROVE  TypeOK'
<1>1. PICK h \in NextOf(call[c].todo) :
        /\ webhooks[h].key \in ring[Home[c]]
        /\ call' = [call EXCEPT ![c].copy = webhooks[h].key]
  BY DEF Decrypt
<1>2. webhooks[h].key \in Keys
  BY <1>1, Constants DEF TypeOK
<1>3. [call[c] EXCEPT !.copy = webhooks[h].key] \in Call
  BY <1>2, CallEdits DEF TypeOK
<1>4. call' \in [Calls -> Call]
  BY <1>1, <1>3, CallType
<1>5. pc' \in [Calls -> Steps]
  BY PcType DEF Decrypt, Goto, Steps
<1> QED
  BY <1>4, <1>5 DEF TypeOK, Decrypt, config, budgets

(* A secret that no key decrypts keeps the types.                          *)
LEMMA DecryptFailsTyped ==
  ASSUME TypeOK, NEW c \in Calls, DecryptFails(c)
  PROVE  TypeOK'
<1>1. Undo(c)
  BY DEF DecryptFails
<1> QED
  BY <1>1, UndoType DEF TypeOK, DecryptFails, config, budgets

(* What is encrypted again is under a key.                                 *)
LEMMA RewrappedType ==
  ASSUME TypeOK, NEW c \in Calls, NEW h
  PROVE  Rewrapped(c, h) \in Keys
<1>1. call[c].copy \in Keys /\ active[Home[c]] \in Keys
  BY CallEdits, Constants DEF TypeOK
<1> QED
  BY <1>1 DEF Rewrapped

(* A guarded write that matches keeps the types.                           *)
LEMMA WriteTyped ==
  ASSUME TypeOK, NEW c \in Calls, Write(c)
  PROVE  TypeOK'
<1>1. PICK h \in NextOf(call[c].todo) :
        /\ pending' = [pending EXCEPT ![c][h] = Rewrapped(c, h)]
        /\ call' = [call EXCEPT ![c].todo = @ \ {h}]
  BY DEF Write
<1>2. h \in Hooks
  BY CallEdits, NextInList DEF TypeOK
<1>3. pending' \in [Calls -> [Hooks -> Keys \cup {NoKey}]]
  BY <1>1, <1>2, RewrappedType DEF TypeOK
<1>4. call' \in [Calls -> Call]
  BY <1>1, TodoDropped
<1>5. pc' \in [Calls -> Steps]
  BY PcType DEF Write, Goto, Steps
<1> QED
  BY <1>3, <1>4, <1>5 DEF TypeOK, Write, config, budgets

(* A guarded write that matches nothing keeps the types.                   *)
LEMMA WriteMissesTyped ==
  ASSUME TypeOK, NEW c \in Calls, WriteMisses(c)
  PROVE  TypeOK'
<1>1. call' \in [Calls -> Call]
  BY TodoDropped DEF WriteMisses
<1>2. pc' \in [Calls -> Steps]
  BY PcType DEF WriteMisses, Goto, Steps
<1> QED
  BY <1>1, <1>2 DEF TypeOK, WriteMisses, config, budgets

(* The commit of the batch keeps the types.                                *)
LEMMA CommitTyped ==
  ASSUME TypeOK, NEW c \in Calls, Commit(c)
  PROVE  TypeOK'
<1>1. Leave(c) /\ Rollback(c) /\ webhooks' = Written(c)
  BY DEF Commit
<1> QED
  BY <1>1, LeaveType, RollbackType, WrittenType
  DEF TypeOK, Commit, config, budgets

(* A release in the exception handler keeps the types.                     *)
LEMMA ReleaseTyped ==
  ASSUME TypeOK, NEW c \in Calls, ReleaseClaim(c)
  PROVE  TypeOK'
<1>1. PICK h \in NextOf(call[c].todo) :
        /\ webhooks' = IF Owns(c, h)
                       THEN [webhooks EXCEPT ![h] = ClaimBy(@, Nobody, Past)]
                       ELSE webhooks
        /\ call' = [call EXCEPT ![c].todo = @ \ {h}]
  BY DEF ReleaseClaim
<1>2. h \in Hooks
  BY CallEdits, NextInList DEF TypeOK
<1>3. [webhooks EXCEPT ![h] = ClaimBy(webhooks[h], Nobody, Past)]
        \in [Hooks -> Row]
  BY <1>2, ReleaseType, Constants
<1>4. webhooks' \in [Hooks -> Row]
  BY <1>1, <1>3 DEF TypeOK
<1>5. call' \in [Calls -> Call]
  BY <1>1, TodoDropped
<1> QED
  BY <1>4, <1>5 DEF TypeOK, ReleaseClaim, config, budgets

(* The exception that goes on keeps the types.                             *)
LEMMA RaiseTyped ==
  ASSUME TypeOK, NEW c \in Calls, Raise(c)
  PROVE  TypeOK'
<1>1. Leave(c)
  BY DEF Raise
<1> QED
  BY <1>1, LeaveType DEF TypeOK, Raise, config, budgets

(* A failing statement keeps the types.                                    *)
LEMMA StatementFailsTyped ==
  ASSUME TypeOK, NEW c \in Calls, StatementFails(c)
  PROVE  TypeOK'
<1>1. faults' \in Nat
  BY DEF TypeOK, StatementFails
<1>2. (Leave(c) /\ UNCHANGED pending) \/ Undo(c)
  BY DEF StatementFails
<1> QED
  BY <1>1, <1>2, LeaveType, UndoType DEF TypeOK, StatementFails, config

(* A commit that is reported as failed keeps the types.                    *)
LEMMA CommitUnacknowledgedTyped ==
  ASSUME TypeOK, NEW c \in Calls, CommitUnacknowledged(c)
  PROVE  TypeOK'
<1>1. faults' \in Nat
  BY DEF TypeOK, CommitUnacknowledged
<1>2. Undo(c) /\ webhooks' = Written(c)
  BY DEF CommitUnacknowledged
<1> QED
  BY <1>1, <1>2, UndoType, WrittenType
  DEF TypeOK, CommitUnacknowledged, config

(* A claim that is reported as failed keeps the types.                     *)
LEMMA ClaimUnacknowledgedTyped ==
  ASSUME TypeOK, NEW c \in Calls, ClaimUnacknowledged(c)
  PROVE  TypeOK'
<1>1. losses' \in Nat
  BY DEF TypeOK, ClaimUnacknowledged
<1>2. PICK h \in NextOf(call[c].candidates) :
        webhooks' = [webhooks EXCEPT ![h] =
                       ClaimBy(@, c, Lease - call[c].age)]
  BY DEF ClaimUnacknowledged
<1>3. h \in Hooks
  BY CallEdits, NextInList DEF TypeOK
<1>4. webhooks' \in [Hooks -> Row]
  BY <1>2, <1>3, ClaimedRow
<1>5. Undo(c)
  BY DEF ClaimUnacknowledged
<1> QED
  BY <1>1, <1>4, <1>5, UndoType DEF TypeOK, ClaimUnacknowledged, config

(* A release that fails keeps the types.                                   *)
LEMMA ReleaseFailsTyped ==
  ASSUME TypeOK, NEW c \in Calls, ReleaseFails(c)
  PROVE  TypeOK'
<1>1. losses' \in Nat
  BY DEF TypeOK, ReleaseFails
<1>2. call' \in [Calls -> Call]
  BY TodoDropped DEF ReleaseFails
<1> QED
  BY <1>1, <1>2 DEF TypeOK, ReleaseFails, config

(* A process that ends keeps the types of everything.                      *)
LEMMA StopType ==
  ASSUME TypeOK, NEW s \in Servers, Stop(s)
  PROVE  /\ webhooks' = webhooks /\ faults' = faults /\ losses' \in Nat
         /\ pc' \in [Calls -> Steps] /\ call' \in [Calls -> Call]
         /\ pending' \in [Calls -> [Hooks -> Keys \cup {NoKey}]]
<1>1. webhooks' = webhooks /\ faults' = faults
  BY DEF Stop
<1>2. losses' \in Nat
  BY DEF Stop, TypeOK
<1>3. pc' \in [Calls -> Steps]
  BY DEF Stop, TypeOK, Steps
<1>4. call' \in [Calls -> Call]
  BY NoCallType DEF Stop, TypeOK
<1>5. pending' \in [Calls -> [Hooks -> Keys \cup {NoKey}]]
  BY NothingWrittenType DEF Stop, TypeOK
<1> QED
  BY <1>1, <1>2, <1>3, <1>4, <1>5

(* A crash keeps the types.                                                *)
LEMMA CrashTyped ==
  ASSUME TypeOK, NEW s \in Servers, Crash(s)
  PROVE  TypeOK'
<1>1. Stop(s)
  BY DEF Crash
<1> QED
  BY <1>1, StopType DEF TypeOK, Crash, config

(* A restart with other settings keeps the types.                          *)
LEMMA RedeployTyped ==
  ASSUME TypeOK, NEW s \in Servers, Redeploy(s)
  PROVE  TypeOK'
<1>1. Stop(s)
  BY DEF Redeploy
<1>2. ring' \in [Servers -> SUBSET Keys] /\ active' \in [Servers -> Keys]
  BY DEF TypeOK, Redeploy
<1> QED
  BY <1>1, <1>2, StopType DEF TypeOK

(* A new webhook keeps the types.                                          *)
LEMMA CreateTyped ==
  ASSUME TypeOK, NEW s \in Servers, NEW h \in Hooks, CreateWebhook(s, h)
  PROVE  TypeOK'
<1> DEFINE row == [exists |-> TRUE, key |-> active[s],
                   key_version |-> active[s], verified |-> TRUE,
                   claimed_by |-> Nobody, claim_expires_at |-> Past]
<1>1. active[s] \in Keys
  BY DEF TypeOK
<1>2. row \in Row
  BY <1>1, Constants DEF Row
<1>3. webhooks' = [webhooks EXCEPT ![h] = row]
  BY DEF CreateWebhook
<1> HIDE DEF row
<1>4. webhooks' \in [Hooks -> Row]
  BY <1>2, <1>3 DEF TypeOK
<1> QED
  BY <1>4 DEF TypeOK, CreateWebhook, config, budgets

(* A second that passes keeps the types.                                   *)
LEMMA TickTyped ==
  ASSUME TypeOK, Tick
  PROVE  TypeOK'
<1>1. faults' \in Nat
  BY DEF Tick, TypeOK
<1>2. ASSUME NEW h \in Hooks
      PROVE  [webhooks[h] EXCEPT !.claim_expires_at =
                IF @ > Past THEN @ - 1 ELSE @] \in Row
  <2>1. webhooks[h] \in Row /\ webhooks[h].claim_expires_at \in Int
    BY RowEdits DEF TypeOK
  <2>2. PICK n \in Int : n = IF webhooks[h].claim_expires_at > Past
                             THEN webhooks[h].claim_expires_at - 1
                             ELSE webhooks[h].claim_expires_at
    BY <2>1
  <2>3. [webhooks[h] EXCEPT !.claim_expires_at = n] \in Row
    BY <2>1, RowEdits
  <2> QED
    BY <2>2, <2>3
<1>3. webhooks' \in [Hooks -> Row]
  BY <1>2 DEF Tick
<1>4. ASSUME NEW c \in Calls
      PROVE  [call[c] EXCEPT !.age = call[c].age + 1] \in Call
  <2>1. call[c] \in Call
    BY DEF TypeOK
  <2>2. call[c].age \in Nat
    BY <2>1, CallEdits
  <2>3. call[c].age + 1 \in Nat
    BY <2>2
  <2> QED
    BY <2>1, <2>3, CallEdits
<1>5. call' \in [Calls -> Call]
  BY <1>4 DEF Tick, TypeOK
<1> QED
  BY <1>1, <1>3, <1>5 DEF TypeOK, Tick, config

(* Every step keeps the types.                                             *)
LEMMA TypingStep ==
  ASSUME TypeOK, [Next]_vars
  PROVE  TypeOK'
<1>1. ASSUME NEW c \in Calls, CallStep(c)
      PROVE  TypeOK'
  BY <1>1, SelectTyped, ClaimTyped, ClaimMissesTyped, EndClaimsTyped,
     DecryptTyped, DecryptFailsTyped, WriteTyped, WriteMissesTyped,
     CommitTyped, ReleaseTyped, RaiseTyped DEF CallStep
<1>2. ASSUME NEW c \in Calls, Fault(c)
      PROVE  TypeOK'
  BY <1>2, StatementFailsTyped, CommitUnacknowledgedTyped,
     ClaimUnacknowledgedTyped, ReleaseFailsTyped DEF Fault
<1>3. CASE UNCHANGED vars
  BY <1>3 DEF TypeOK, vars
<1> QED
  BY <1>1, <1>2, <1>3, BeginTyped, CrashTyped, RedeployTyped, CreateTyped,
     TickTyped DEF Next

(* The types hold at the start.                                            *)
LEMMA TypingStart == Init => TypeOK
<1> SUFFICES ASSUME Init PROVE TypeOK
  OBVIOUS
<1>1. webhooks \in [Hooks -> Row]
  <2>1. webhooks \in [Hooks ->
          [exists : BOOLEAN, key : {1, LostKey}, key_version : Keys,
           verified : BOOLEAN, claimed_by : {Nobody},
           claim_expires_at : {Past}]]
    BY DEF Init
  <2>2. {1, LostKey} \subseteq Keys \cup {LostKey} /\ {Past} \subseteq Int
    BY Constants
  <2> QED
    BY <2>1, <2>2 DEF Row
<1>2. call \in [Calls -> Call] /\ pc \in [Calls -> Steps]
  BY NoCallType DEF Init, Steps
<1>3. pending \in [Calls -> [Hooks -> Keys \cup {NoKey}]]
  BY NothingWrittenType DEF Init
<1>4. ring \in [Servers -> SUBSET Keys] /\ active \in [Servers -> Keys]
  BY Constants DEF Init
<1> QED
  BY <1>1, <1>2, <1>3, <1>4 DEF Init, TypeOK

(* Every variable keeps its type.                                          *)
THEOREM Typing == Spec => []TypeOK
  BY TypingStart, TypingStep, PTL DEF Spec

-----------------------------------------------------------------------------
(* What the steps of a call do to its local variables, in plain facts.     *)

Untouched(c) ==
    \A d \in Calls : d # c =>
      call'[d] = call[d] /\ pc'[d] = pc[d] /\ pending'[d] = pending[d]

(* The call goes on with the same key.                                     *)
GoesOn(c, step) ==
    /\ Untouched(c)
    /\ pc'[c] = step
    /\ call'[c].kid = call[c].kid
    /\ UNCHANGED config

SameSecret(h) ==
    /\ webhooks'[h].exists = webhooks[h].exists
    /\ webhooks'[h].key = webhooks[h].key
    /\ webhooks'[h].key_version = webhooks[h].key_version
    /\ webhooks'[h].verified = webhooks[h].verified

(* What the edits of the local variables leave alone.                      *)
LEMMA CallReads ==
  ASSUME NEW q \in Call
  PROVE  /\ \A S : /\ [q EXCEPT !.todo = S].kid = q.kid
                   /\ [q EXCEPT !.todo = S].claimed = q.claimed
                   /\ [q EXCEPT !.todo = S].todo = S
         /\ \A S : /\ [q EXCEPT !.candidates = S].kid = q.kid
                   /\ [q EXCEPT !.candidates = S].claimed = q.claimed
                   /\ [q EXCEPT !.candidates = S].todo = q.todo
         /\ \A S, T :
              /\ [q EXCEPT !.candidates = S, !.claimed = T].kid = q.kid
              /\ [q EXCEPT !.candidates = S, !.claimed = T].claimed = T
              /\ [q EXCEPT !.candidates = S, !.claimed = T].todo = q.todo
         /\ \A k : /\ [q EXCEPT !.copy = k].kid = q.kid
                   /\ [q EXCEPT !.copy = k].claimed = q.claimed
                   /\ [q EXCEPT !.copy = k].todo = q.todo
         /\ \A n : /\ [q EXCEPT !.age = n].kid = q.kid
                   /\ [q EXCEPT !.age = n].claimed = q.claimed
                   /\ [q EXCEPT !.age = n].todo = q.todo
  BY DEF Call

(* What the edits of a row leave alone.                                    *)
LEMMA RowReads ==
  ASSUME NEW row \in Row
  PROVE  /\ \A o, n :
              /\ ClaimBy(row, o, n).exists = row.exists
              /\ ClaimBy(row, o, n).key = row.key
              /\ ClaimBy(row, o, n).key_version = row.key_version
              /\ ClaimBy(row, o, n).verified = row.verified
              /\ ClaimBy(row, o, n).claimed_by = o
         /\ \A k, v : LET new == [row EXCEPT !.key = k, !.key_version = v,
                                             !.verified = TRUE]
                      IN /\ new.exists = row.exists
                         /\ new.key = k /\ new.key_version = v
                         /\ new.verified = TRUE
         /\ \A n : LET new == [row EXCEPT !.claim_expires_at = n]
                   IN /\ new.exists = row.exists
                      /\ new.key = row.key
                      /\ new.key_version = row.key_version
                      /\ new.verified = row.verified
                      /\ new.claimed_by = row.claimed_by
  BY DEF Row, ClaimBy

(* What the start of a call does, for the layers below.                    *)
LEMMA BeginDoes ==
  ASSUME TypeOK, NEW c \in Calls, Begin(c)
  PROVE  /\ Untouched(c) /\ pc'[c] = "select"
         /\ call'[c].kid = active[Home[c]]
         /\ call'[c].claimed = {}
         /\ pending' = pending /\ webhooks' = webhooks
         /\ UNCHANGED config /\ losses' = losses
         /\ \A h \in Hooks : ~Owns(c, h)
<1>1. PICK n \in Limits :
        call' = [call EXCEPT ![c] = CallOf(active[Home[c]], n)]
  BY DEF Begin
<1>2. call'[c] = CallOf(active[Home[c]], n)
  BY <1>1 DEF TypeOK
<1>3. call'[c].kid = active[Home[c]] /\ call'[c].claimed = {}
  BY <1>2 DEF CallOf
<1> QED
  BY <1>1, <1>3 DEF TypeOK, Begin, Goto, Untouched, Owns, budgets

(* What the query for the candidates does.                                 *)
LEMMA SelectDoes ==
  ASSUME TypeOK, NEW c \in Calls, SelectCandidates(c)
  PROVE  /\ GoesOn(c, "claim") /\ pc[c] = "select"
         /\ call'[c].claimed = call[c].claimed
         /\ pending' = pending /\ webhooks' = webhooks /\ losses' = losses
<1>1. PICK S : call' = [call EXCEPT ![c] = [call[c] EXCEPT !.candidates = S]]
  BY DEF SelectCandidates
<1>2. call[c] \in Call /\ call'[c] = [call[c] EXCEPT !.candidates = S]
  BY <1>1 DEF TypeOK
<1>3. call'[c].kid = call[c].kid /\ call'[c].claimed = call[c].claimed
  BY <1>2, CallReads
<1> QED
  BY <1>1, <1>3
  DEF TypeOK, SelectCandidates, Goto, GoesOn, Untouched, budgets

(* What a claim does: the row it takes was free and not locked.            *)
LEMMA ClaimDoes ==
  ASSUME TypeOK, NEW c \in Calls, ClaimWebhook(c)
  PROVE  \E h \in Hooks :
           /\ GoesOn(c, "claim") /\ pc[c] = "claim"
           /\ call'[c].claimed = call[c].claimed \cup {h}
           /\ Unlocked(h) /\ Available(webhooks[h], call[c].age)
           /\ webhooks' = [webhooks EXCEPT ![h] =
                             ClaimBy(webhooks[h], c, Lease - call[c].age)]
           /\ pending' = pending /\ losses' = losses
<1>1. PICK h \in NextOf(call[c].candidates) :
        /\ Unlocked(h) /\ Available(webhooks[h], call[c].age)
        /\ webhooks' = [webhooks EXCEPT ![h] =
                          ClaimBy(@, c, Lease - call[c].age)]
        /\ call' = [call EXCEPT ![c].candidates = @ \ {h},
                                ![c].claimed = @ \cup {h}]
  BY DEF ClaimWebhook
<1>2. call[c] \in Call
  BY DEF TypeOK
<1>3. h \in Hooks
  BY <1>2, CallEdits, NextInList
<1>4. call' = [call EXCEPT ![c] =
                 [call[c] EXCEPT !.candidates = call[c].candidates \ {h},
                                 !.claimed = call[c].claimed \cup {h}]]
  BY <1>1, <1>2 DEF TypeOK, Call
<1>5. call'[c] = [call[c] EXCEPT !.candidates = call[c].candidates \ {h},
                                 !.claimed = call[c].claimed \cup {h}]
  BY <1>4 DEF TypeOK
<1>6. /\ call'[c].kid = call[c].kid
      /\ call'[c].claimed = call[c].claimed \cup {h}
  BY <1>2, <1>5, CallReads
<1>7. GoesOn(c, "claim") /\ pc[c] = "claim" /\ pending' = pending
      /\ losses' = losses
  BY <1>4, <1>6
  DEF TypeOK, ClaimWebhook, Claiming, GoesOn, Untouched, budgets
<1> QED
  BY <1>1, <1>3, <1>6, <1>7

(* What a claim that matches nothing does.                                 *)
LEMMA ClaimMissesDoes ==
  ASSUME TypeOK, NEW c \in Calls, ClaimMisses(c)
  PROVE  /\ GoesOn(c, "claim") /\ pc[c] = "claim"
         /\ call'[c].claimed = call[c].claimed
         /\ pending' = pending /\ webhooks' = webhooks /\ losses' = losses
<1>1. PICK h \in NextOf(call[c].candidates) :
        call' = [call EXCEPT ![c].candidates = @ \ {h}]
  BY DEF ClaimMisses
<1>2. /\ call[c] \in Call
      /\ call'[c] = [call[c] EXCEPT !.candidates = call[c].candidates \ {h}]
  BY <1>1 DEF TypeOK
<1>3. call'[c].kid = call[c].kid /\ call'[c].claimed = call[c].claimed
  BY <1>2, CallReads
<1> QED
  BY <1>1, <1>3 DEF ClaimMisses, Claiming, GoesOn, Untouched, budgets

(* What the end of the first loop does.                                    *)
LEMMA EndClaimsDoes ==
  ASSUME TypeOK, NEW c \in Calls, EndClaims(c)
  PROVE  /\ GoesOn(c, "load") /\ pc[c] = "claim"
         /\ call'[c].claimed = call[c].claimed
         /\ call'[c].todo = call[c].claimed
         /\ pending' = pending /\ webhooks' = webhooks /\ losses' = losses
<1>1. /\ call[c] \in Call
      /\ call'[c] = [call[c] EXCEPT !.todo = call[c].claimed]
  BY DEF TypeOK, EndClaims
<1>2. /\ call'[c].kid = call[c].kid /\ call'[c].claimed = call[c].claimed
      /\ call'[c].todo = call[c].claimed
  BY <1>1, CallReads
<1> QED
  BY <1>2 DEF TypeOK, EndClaims, Goto, GoesOn, Untouched, budgets

(* What decrypting does.                                                   *)
LEMMA DecryptDoes ==
  ASSUME TypeOK, NEW c \in Calls, Decrypt(c)
  PROVE  /\ GoesOn(c, "write") /\ pc[c] = "load"
         /\ call'[c].claimed = call[c].claimed
         /\ call'[c].todo = call[c].todo
         /\ pending' = pending /\ webhooks' = webhooks /\ losses' = losses
<1>1. PICK h : call' = [call EXCEPT ![c].copy = webhooks[h].key]
  BY DEF Decrypt
<1>2. /\ call[c] \in Call
      /\ call'[c] = [call[c] EXCEPT !.copy = webhooks[h].key]
  BY <1>1 DEF TypeOK
<1>3. /\ call'[c].kid = call[c].kid /\ call'[c].claimed = call[c].claimed
      /\ call'[c].todo = call[c].todo
  BY <1>2, CallReads
<1> QED
  BY <1>1, <1>3 DEF TypeOK, Decrypt, Goto, GoesOn, Untouched, budgets

(* One row less is left to do.                                             *)
LEMMA TodoDoes ==
  ASSUME TypeOK, NEW c \in Calls, NEW h,
         call' = [call EXCEPT ![c].todo = @ \ {h}]
  PROVE  /\ call'[c].kid = call[c].kid
         /\ call'[c].claimed = call[c].claimed
         /\ call'[c].todo = call[c].todo \ {h}
<1>1. PICK S : S = call[c].todo \ {h}
  OBVIOUS
<1>2. call[c] \in Call /\ call'[c] = [call[c] EXCEPT !.todo = S]
  BY <1>1 DEF TypeOK
<1> QED
  BY <1>1, <1>2 DEF Call

(* What a guarded write does: the call owns the row.                       *)
LEMMA WriteDoes ==
  ASSUME TypeOK, NEW c \in Calls, Write(c)
  PROVE  \E h \in Hooks :
           /\ GoesOn(c, "load") /\ pc[c] = "write"
           /\ call'[c].claimed = call[c].claimed
           /\ call'[c].todo = call[c].todo \ {h}
           /\ Owns(c, h)
           /\ pending'[c] = [pending[c] EXCEPT ![h] = Rewrapped(c, h)]
           /\ webhooks' = webhooks /\ losses' = losses
<1>1. PICK h \in NextOf(call[c].todo) :
        /\ Owns(c, h)
        /\ pending' = [pending EXCEPT ![c][h] = Rewrapped(c, h)]
        /\ call' = [call EXCEPT ![c].todo = @ \ {h}]
  BY DEF Write
<1>2. h \in Hooks
  BY CallEdits, NextInList DEF TypeOK
<1>3. pending'[c] = [pending[c] EXCEPT ![h] = Rewrapped(c, h)]
  BY <1>1 DEF TypeOK
<1>4. /\ call'[c].kid = call[c].kid /\ call'[c].claimed = call[c].claimed
      /\ call'[c].todo = call[c].todo \ {h}
  BY <1>1, TodoDoes
<1>5. GoesOn(c, "load") /\ pc[c] = "write" /\ webhooks' = webhooks
      /\ losses' = losses
  BY <1>1, <1>4 DEF TypeOK, Write, Goto, GoesOn, Untouched, budgets
<1> QED
  BY <1>1, <1>2, <1>3, <1>4, <1>5

(* What a write that matches nothing does: the row is somebody else's.     *)
LEMMA WriteMissesDoes ==
  ASSUME TypeOK, NEW c \in Calls, WriteMisses(c)
  PROVE  \E h \in Hooks :
           /\ GoesOn(c, "load") /\ pc[c] = "write"
           /\ call'[c].claimed = call[c].claimed
           /\ call'[c].todo = call[c].todo \ {h}
           /\ ~Owns(c, h)
           /\ pending' = pending /\ webhooks' = webhooks /\ losses' = losses
<1>1. PICK h \in NextOf(call[c].todo) :
        ~Owns(c, h) /\ call' = [call EXCEPT ![c].todo = @ \ {h}]
  BY DEF WriteMisses
<1>2. h \in Hooks
  BY CallEdits, NextInList DEF TypeOK
<1>3. /\ call'[c].kid = call[c].kid /\ call'[c].claimed = call[c].claimed
      /\ call'[c].todo = call[c].todo \ {h}
  BY <1>1, TodoDoes
<1>4. GoesOn(c, "load") /\ pc[c] = "write" /\ webhooks' = webhooks
      /\ pending' = pending /\ losses' = losses
  BY <1>1, <1>3 DEF TypeOK, WriteMisses, Goto, GoesOn, Untouched, budgets
<1> QED
  BY <1>1, <1>2, <1>3, <1>4

(* What a release does, whether the row is still owned or not.             *)
LEMMA ReleaseDoes ==
  ASSUME TypeOK, NEW c \in Calls, ReleaseClaim(c)
  PROVE  \E h \in Hooks :
           /\ GoesOn(c, "undo") /\ pc[c] = "undo"
           /\ call'[c].claimed = call[c].claimed
           /\ h \in call[c].todo
           /\ call'[c].todo = call[c].todo \ {h}
           /\ webhooks' = IF Owns(c, h)
                          THEN [webhooks EXCEPT ![h] =
                                  ClaimBy(webhooks[h], Nobody, Past)]
                          ELSE webhooks
           /\ pending' = pending /\ losses' = losses
<1>1. PICK h \in NextOf(call[c].todo) :
        /\ webhooks' = IF Owns(c, h)
                       THEN [webhooks EXCEPT ![h] = ClaimBy(@, Nobody, Past)]
                       ELSE webhooks
        /\ call' = [call EXCEPT ![c].todo = @ \ {h}]
  BY DEF ReleaseClaim
<1>2. h \in Hooks /\ h \in call[c].todo
  BY CallEdits, NextInList DEF TypeOK
<1>3. /\ call'[c].kid = call[c].kid /\ call'[c].claimed = call[c].claimed
      /\ call'[c].todo = call[c].todo \ {h}
  BY <1>1, TodoDoes
<1>4. GoesOn(c, "undo") /\ pc[c] = "undo" /\ pending' = pending
      /\ losses' = losses
  BY <1>1, <1>3 DEF TypeOK, ReleaseClaim, GoesOn, Untouched, budgets
<1> QED
  BY <1>1, <1>2, <1>3, <1>4

(* A call that leaves has no local variables.                              *)
LEMMA LeaveDoes ==
  ASSUME TypeOK, NEW c \in Calls, Leave(c)
  PROVE  /\ pc'[c] = "idle" /\ call'[c].claimed = {}
         /\ \A d \in Calls : d # c => call'[d] = call[d] /\ pc'[d] = pc[d]
<1>1. call'[c] = NoCall
  BY DEF TypeOK, Leave
<1> QED
  BY <1>1 DEF TypeOK, Leave, Goto, NoCall, CallOf

(* What a rollback does.                                                   *)
LEMMA RollbackDoes ==
  ASSUME TypeOK, NEW c \in Calls, Rollback(c)
  PROVE  /\ \A h \in Hooks : pending'[c][h] = NoKey
         /\ \A d \in Calls : d # c => pending'[d] = pending[d]
  BY DEF TypeOK, Rollback, NothingWritten

(* What the exception handler does.                                        *)
LEMMA UndoDoes ==
  ASSUME TypeOK, NEW c \in Calls, Undo(c)
  PROVE  /\ Untouched(c) /\ pc'[c] = "undo"
         /\ call'[c].kid = call[c].kid
         /\ call'[c].claimed = call[c].claimed
         /\ call'[c].todo = call[c].claimed
         /\ \A h \in Hooks : pending'[c][h] = NoKey
<1>1. /\ call[c] \in Call
      /\ call'[c] = [call[c] EXCEPT !.todo = call[c].claimed]
  BY DEF TypeOK, Undo
<1>2. /\ call'[c].kid = call[c].kid /\ call'[c].claimed = call[c].claimed
      /\ call'[c].todo = call[c].claimed
  BY <1>1, CallReads
<1>3. Rollback(c)
  BY DEF Undo
<1> QED
  BY <1>2, <1>3, RollbackDoes DEF TypeOK, Undo, Goto, Untouched

(* What a commit does to a row.                                            *)
LEMMA WrittenDoes ==
  ASSUME TypeOK, NEW c \in Calls, NEW h \in Hooks, webhooks' = Written(c)
  PROVE  /\ pending[c][h] = NoKey => webhooks'[h] = webhooks[h]
         /\ pending[c][h] # NoKey =>
              /\ webhooks'[h].exists = webhooks[h].exists
              /\ webhooks'[h].key = pending[c][h]
              /\ webhooks'[h].key_version = call[c].kid
              /\ webhooks'[h].claimed_by = Nobody
<1>1. CASE pending[c][h] = NoKey
  BY <1>1 DEF Written
<1>2. CASE pending[c][h] # NoKey
  <2>1. webhooks[h] \in Row /\ pending[c][h] \in Keys /\ call[c] \in Call
    BY <1>2 DEF TypeOK
  <2>2. call[c].kid \in Keys
    BY <2>1, CallEdits
  <2> DEFINE edited == [webhooks[h] EXCEPT !.key = pending[c][h],
                          !.key_version = call[c].kid, !.verified = TRUE]
  <2>3. edited \in Row
    BY <2>1, <2>2, RowEdits
  <2>4. /\ edited.exists = webhooks[h].exists
        /\ edited.key = pending[c][h] /\ edited.key_version = call[c].kid
    BY <2>1 DEF Row
  <2>5. webhooks'[h] = ClaimBy(edited, Nobody, Past)
    BY <1>2 DEF Written
  <2> HIDE DEF edited
  <2> QED
    BY <1>2, <2>3, <2>5, <2>4, RowReads
<1> QED
  BY <1>1, <1>2

(* What a second does: neither the secrets nor the claims change.          *)
LEMMA TickDoes ==
  ASSUME TypeOK, Tick
  PROVE  /\ pc' = pc /\ pending' = pending /\ UNCHANGED config
         /\ losses' = losses
         /\ \A c \in Calls : /\ call'[c].kid = call[c].kid
                             /\ call'[c].claimed = call[c].claimed
                             /\ call'[c].todo = call[c].todo
         /\ \A h \in Hooks : SameSecret(h)
                             /\ webhooks'[h].claimed_by = webhooks[h].claimed_by
<1>1. ASSUME NEW c \in Calls
      PROVE  /\ call'[c].kid = call[c].kid
             /\ call'[c].claimed = call[c].claimed
             /\ call'[c].todo = call[c].todo
  <2>1. call[c] \in Call
    BY DEF TypeOK
  <2>2. PICK n : n = call[c].age + 1
    OBVIOUS
  <2>3. call'[c] = call[c] \/ call'[c] = [call[c] EXCEPT !.age = n]
    BY <2>2 DEF Tick
  <2> QED
    BY <2>1, <2>3 DEF Call
<1>2. ASSUME NEW h \in Hooks
      PROVE  SameSecret(h) /\ webhooks'[h].claimed_by = webhooks[h].claimed_by
  <2>1. webhooks[h] \in Row
    BY DEF TypeOK
  <2>2. PICK n : n = IF webhooks[h].claim_expires_at > Past
                     THEN webhooks[h].claim_expires_at - 1
                     ELSE webhooks[h].claim_expires_at
    OBVIOUS
  <2>3. webhooks'[h] = [webhooks[h] EXCEPT !.claim_expires_at = n]
    BY <2>2 DEF Tick
  <2> QED
    BY <2>1, <2>3, RowReads DEF SameSecret
<1> QED
  BY <1>1, <1>2 DEF Tick

(* What the end of a process does to the calls it serves.                  *)
LEMMA StopDoes ==
  ASSUME TypeOK, NEW s \in Servers, Stop(s)
  PROVE  /\ webhooks' = webhooks
         /\ \A c \in Calls :
              \/ /\ pc'[c] = "idle" /\ call'[c].claimed = {}
                 /\ \A h \in Hooks : pending'[c][h] = NoKey
              \/ /\ Home[c] # s \/ pc[c] = "idle"
                 /\ pc'[c] = pc[c] /\ call'[c] = call[c]
                 /\ pending'[c] = pending[c]
         /\ \/ \A c \in Calls : Home[c] = s => pc[c] = "idle"
            \/ losses' # 0
<1>1. losses \in Nat
  BY DEF TypeOK
<1>2. NoCall.claimed = {}
  BY DEF NoCall, CallOf
<1>3. \/ \A c \in Calls : Home[c] = s => pc[c] = "idle"
      \/ losses' # 0
  BY <1>1 DEF Stop, Idle
<1>4. ASSUME NEW c \in Calls
      PROVE  \/ /\ pc'[c] = "idle" /\ call'[c].claimed = {}
                /\ \A h \in Hooks : pending'[c][h] = NoKey
             \/ /\ Home[c] # s \/ pc[c] = "idle"
                /\ pc'[c] = pc[c] /\ call'[c] = call[c]
                /\ pending'[c] = pending[c]
  BY <1>2 DEF Stop, Idle, NothingWritten
<1> QED
  BY <1>3, <1>4 DEF Stop

-----------------------------------------------------------------------------
(* Second layer: keys.  Every process can decrypt what any process         *)
(* encrypts; a call that runs knows the active key of its process, since   *)
(* that changes by a restart only; what it has written is under that key.  *)

KeyShared == \A s, p \in Servers : active[s] \in ring[p]

KnowsKey(c) == pc[c] # "idle" => call[c].kid = active[Home[c]]

WroteWithKey(c) ==
    \A h \in Hooks : pending[c][h] # NoKey =>
      pending[c][h] = active[Home[c]] /\ pc[c] \in {"load", "write"}

KeysOK ==
    /\ KeyShared
    /\ \A c \in Calls : KnowsKey(c) /\ WroteWithKey(c)
    /\ SecretsReadable
    /\ LabelsTruthful

(* At the start everything is under the first key.                         *)
LEMMA KeysStart == Init => KeysOK
<1> SUFFICES ASSUME Init PROVE KeysOK
  OBVIOUS
<1>1. ASSUME NEW h \in Hooks
      PROVE  /\ webhooks[h].key \in {1, LostKey}
             /\ webhooks[h].verified =>
                  webhooks[h].key_version = webhooks[h].key
  BY DEF Init
<1>2. SecretsReadable /\ LabelsTruthful
  BY <1>1 DEF Init, SecretsReadable, LabelsTruthful
<1>3. KeyShared /\ \A c \in Calls : KnowsKey(c) /\ WroteWithKey(c)
  BY DEF Init, KeyShared, KnowsKey, WroteWithKey, NothingWritten
<1> QED
  BY <1>2, <1>3 DEF KeysOK

(* Nothing happens to the secrets and the settings.                        *)
LEMMA SecretsKept ==
  ASSUME KeysOK, UNCHANGED config, \A h \in Hooks : SameSecret(h)
  PROVE  KeyShared' /\ SecretsReadable' /\ LabelsTruthful'
  BY DEF KeysOK, KeyShared, SecretsReadable, LabelsTruthful, SameSecret, config

(* Rows that do not change keep their secrets.                             *)
LEMMA SameRows ==
  ASSUME webhooks' = webhooks
  PROVE  \A h \in Hooks : SameSecret(h)
  BY DEF SameSecret

(* The claim of a row is changed.                                          *)
LEMMA ClaimKeepsSecrets ==
  ASSUME TypeOK, NEW h \in Hooks, NEW o, NEW n,
         webhooks' = [webhooks EXCEPT ![h] = ClaimBy(webhooks[h], o, n)]
  PROVE  \A g \in Hooks : SameSecret(g)
<1> SUFFICES ASSUME NEW g \in Hooks PROVE SameSecret(g)
  OBVIOUS
<1>1. CASE g = h
  <2>1. webhooks[h] \in Row /\ webhooks'[h] = ClaimBy(webhooks[h], o, n)
    BY DEF TypeOK
  <2> QED
    BY <1>1, <2>1, RowReads DEF SameSecret
<1>2. CASE g # h
  BY <1>2 DEF TypeOK, SameSecret
<1> QED
  BY <1>1, <1>2

(* The other calls still know the key and have written with it.            *)
LEMMA OthersKeepKeys ==
  ASSUME KeysOK, UNCHANGED config, NEW c \in Calls, Untouched(c)
  PROVE  \A d \in Calls : d # c => KnowsKey(d)' /\ WroteWithKey(d)'
  BY DEF KeysOK, Untouched, KnowsKey, WroteWithKey, config

(* A step that writes no row keeps the second layer.                       *)
LEMMA StepKeepsKeys ==
  ASSUME KeysOK, NEW c \in Calls, NEW step, step # "idle",
         GoesOn(c, step), pc[c] # "idle", pending' = pending,
         pc[c] \in {"load", "write"} => step \in {"load", "write"},
         \A h \in Hooks : SameSecret(h)
  PROVE  KeysOK'
<1>1. KnowsKey(c)' /\ WroteWithKey(c)'
  BY DEF KeysOK, GoesOn, KnowsKey, WroteWithKey, config
<1>2. Untouched(c) /\ UNCHANGED config
  BY DEF GoesOn
<1> QED
  BY <1>1, <1>2, OthersKeepKeys, SecretsKept DEF KeysOK

(* The exception handler keeps what the calls know and wrote.              *)
LEMMA UndoKeepsKeys ==
  ASSUME TypeOK, KeysOK, NEW c \in Calls, Undo(c), pc[c] # "idle",
         UNCHANGED config
  PROVE  \A d \in Calls : KnowsKey(d)' /\ WroteWithKey(d)'
<1>1. KnowsKey(c)' /\ WroteWithKey(c)'
  BY UndoDoes DEF KeysOK, KnowsKey, WroteWithKey, config
<1> QED
  BY <1>1, UndoDoes, OthersKeepKeys

(* A call that ends keeps what the calls know and wrote.                   *)
LEMMA LeaveKeepsKeys ==
  ASSUME TypeOK, KeysOK, NEW c \in Calls, Leave(c), UNCHANGED config,
         \A h \in Hooks : pending'[c][h] = NoKey,
         \A d \in Calls : d # c => pending'[d] = pending[d]
  PROVE  \A d \in Calls : KnowsKey(d)' /\ WroteWithKey(d)'
<1>1. Untouched(c)
  BY LeaveDoes DEF Untouched
<1>2. KnowsKey(c)' /\ WroteWithKey(c)'
  BY LeaveDoes DEF KnowsKey, WroteWithKey
<1> QED
  BY <1>1, <1>2, OthersKeepKeys

(* The commit of a batch: what was written is under the active key, every  *)
(* process can decrypt it, and the label says so.                          *)
LEMMA CommitKeepsSecrets ==
  ASSUME TypeOK, KeysOK, NEW c \in Calls, webhooks' = Written(c),
         UNCHANGED config
  PROVE  KeyShared' /\ SecretsReadable' /\ LabelsTruthful'
<1>1. ASSUME NEW h \in Hooks
      PROVE  /\ webhooks'[h].exists /\ webhooks'[h].key # LostKey =>
                  \A s \in Servers : webhooks'[h].key \in ring[s]
             /\ webhooks'[h].exists /\ webhooks'[h].verified =>
                  webhooks'[h].key_version = webhooks'[h].key
  <2>1. CASE pending[c][h] = NoKey
    <3>1. webhooks'[h] = webhooks[h]
      BY <2>1, WrittenDoes
    <3> QED
      BY <3>1 DEF KeysOK, SecretsReadable, LabelsTruthful
  <2>2. CASE pending[c][h] # NoKey
    <3>1. /\ webhooks'[h].key = pending[c][h]
          /\ webhooks'[h].key_version = call[c].kid
      BY <2>2, WrittenDoes
    <3>2. pending[c][h] = active[Home[c]] /\ call[c].kid = active[Home[c]]
      BY <2>2 DEF KeysOK, KnowsKey, WroteWithKey
    <3>3. \A s \in Servers : active[Home[c]] \in ring[s]
      BY Constants DEF KeysOK, KeyShared
    <3> QED
      BY <3>1, <3>2, <3>3
  <2> QED
    BY <2>1, <2>2
<1> QED
  BY <1>1 DEF KeysOK, KeyShared, SecretsReadable, LabelsTruthful, config

(* What a call writes is under its active key: either the ciphertext is    *)
(* made with it now, or it was under it when it was read.                  *)
LEMMA WriteKeepsKeys ==
  ASSUME TypeOK, KeysOK, NEW c \in Calls, Write(c)
  PROVE  KeysOK'
<1>1. PICK h \in Hooks :
        /\ GoesOn(c, "load") /\ pc[c] = "write"
        /\ pending'[c] = [pending[c] EXCEPT ![h] = Rewrapped(c, h)]
        /\ webhooks' = webhooks
  BY WriteDoes
<1>2. call[c].kid = active[Home[c]]
  BY <1>1 DEF KeysOK, KnowsKey
<1>3. Rewrapped(c, h) = active[Home[c]]
  BY <1>2 DEF Rewrapped
<1>4. KnowsKey(c)' /\ UNCHANGED config /\ Untouched(c) /\ pc'[c] = "load"
  BY <1>1, <1>2 DEF GoesOn, KnowsKey, config
<1>5. WroteWithKey(c)'
  <2>1. \A g \in Hooks : pending'[c][g] \in {pending[c][g], Rewrapped(c, h)}
    BY <1>1 DEF TypeOK
  <2>2. WroteWithKey(c)
    BY DEF KeysOK
  <2> QED
    BY <1>3, <1>4, <2>1, <2>2 DEF WroteWithKey, config
<1> QED
  BY <1>1, <1>4, <1>5, OthersKeepKeys, SecretsKept, SameRows DEF KeysOK

(* A new secret is encrypted and labelled with one key.                    *)
LEMMA CreateKeepsKeys ==
  ASSUME TypeOK, KeysOK, NEW s \in Servers, NEW h \in Hooks,
         CreateWebhook(s, h)
  PROVE  KeysOK'
<1>1. /\ webhooks'[h].key = active[s] /\ webhooks'[h].key_version = active[s]
      /\ \A g \in Hooks : g # h => webhooks'[g] = webhooks[g]
  BY DEF TypeOK, CreateWebhook
<1>2. SecretsReadable' /\ LabelsTruthful'
  BY <1>1
  DEF KeysOK, KeyShared, SecretsReadable, LabelsTruthful, CreateWebhook, config
<1>3. KeyShared' /\ \A c \in Calls : KnowsKey(c)' /\ WroteWithKey(c)'
  BY DEF KeysOK, KeyShared, KnowsKey, WroteWithKey, CreateWebhook, config
<1> QED
  BY <1>2, <1>3 DEF KeysOK

(* A second that passes keeps the second layer.                            *)
LEMMA TickKeepsKeys ==
  ASSUME TypeOK, KeysOK, Tick
  PROVE  KeysOK'
<1>1. KeyShared' /\ SecretsReadable' /\ LabelsTruthful'
  BY TickDoes, SecretsKept
<1>2. \A c \in Calls : KnowsKey(c)' /\ WroteWithKey(c)'
  BY TickDoes DEF KeysOK, KnowsKey, WroteWithKey, config
<1> QED
  BY <1>1, <1>2 DEF KeysOK

(* A crash keeps the second layer: it changes no setting.                  *)
LEMMA CrashKeepsKeys ==
  ASSUME TypeOK, KeysOK, NEW s \in Servers, Crash(s)
  PROVE  KeysOK'
<1>1. Stop(s) /\ UNCHANGED config
  BY DEF Crash
<1>2. ASSUME NEW c \in Calls
      PROVE  KnowsKey(c)' /\ WroteWithKey(c)'
  <2>1. \/ /\ pc'[c] = "idle"
           /\ \A h \in Hooks : pending'[c][h] = NoKey
        \/ /\ pc'[c] = pc[c] /\ call'[c] = call[c]
           /\ pending'[c] = pending[c]
    BY <1>1, StopDoes
  <2>2. KnowsKey(c) /\ WroteWithKey(c)
    BY DEF KeysOK
  <2>3. active'[Home[c]] = active[Home[c]]
    BY <1>1 DEF config
  <2> QED
    BY <2>1, <2>2, <2>3 DEF KnowsKey, WroteWithKey
<1> QED
  BY <1>1, <1>2, StopDoes, SecretsKept, SameRows DEF KeysOK

(* A rotation: a key is taken away only when no process encrypts with it   *)
(* and no label names it, and the labels are right.                        *)
LEMMA RedeployKeepsKeys ==
  ASSUME TypeOK, KeysOK, NEW s \in Servers, Redeploy(s)
  PROVE  KeysOK'
<1>1. PICK r \in SUBSET Keys, k \in Keys :
        /\ k \in r /\ \A p \in Servers : k \in ring[p]
        /\ \A old \in ring[s] \ r : Retired(old)
        /\ ring' = [ring EXCEPT ![s] = r]
        /\ active' = [active EXCEPT ![s] = k]
        /\ Stop(s)
  BY DEF Redeploy
<1>2. /\ \A p \in Servers : ring'[p] = IF p = s THEN r ELSE ring[p]
      /\ \A p \in Servers : active'[p] = IF p = s THEN k ELSE active[p]
  BY <1>1 DEF TypeOK
<1>3. \A p \in Servers : active[p] \in r
  BY <1>1 DEF KeysOK, KeyShared, Retired
<1>4. KeyShared'
  BY <1>1, <1>2, <1>3 DEF KeysOK, KeyShared
<1>5. webhooks' = webhooks
  BY <1>1, StopDoes
<1>6. ASSUME NEW h \in Hooks, webhooks[h].exists, webhooks[h].key # LostKey
      PROVE  webhooks[h].key \in r
  BY <1>1, <1>6 DEF KeysOK, SecretsReadable, LabelsTruthful, Retired
<1>7. SecretsReadable' /\ LabelsTruthful'
  BY <1>2, <1>5, <1>6 DEF KeysOK, SecretsReadable, LabelsTruthful
<1>8. ASSUME NEW c \in Calls
      PROVE  KnowsKey(c)' /\ WroteWithKey(c)'
  <2>1. Home[c] \in Servers
    BY Constants
  <2>2. \/ /\ pc'[c] = "idle"
           /\ \A h \in Hooks : pending'[c][h] = NoKey
        \/ /\ Home[c] # s \/ pc[c] = "idle"
           /\ pc'[c] = pc[c] /\ call'[c] = call[c]
           /\ pending'[c] = pending[c]
    BY <1>1, StopDoes
  <2>3. KnowsKey(c) /\ WroteWithKey(c)
    BY DEF KeysOK
  <2>4. Home[c] # s => active'[Home[c]] = active[Home[c]]
    BY <1>2, <2>1
  <2> QED
    BY <2>2, <2>3, <2>4 DEF KnowsKey, WroteWithKey
<1> QED
  BY <1>4, <1>7, <1>8 DEF KeysOK

(* A call that begins reads the active key.                                *)
LEMMA BeginKeepsKeys ==
  ASSUME TypeOK, KeysOK, NEW c \in Calls, Begin(c)
  PROVE  KeysOK'
<1>1. KnowsKey(c)'
  BY BeginDoes DEF KnowsKey, config
<1>2. pc[c] = "idle" /\ WroteWithKey(c)
  BY DEF Begin, Idle, KeysOK
<1>3. \A h \in Hooks : pending'[c][h] = NoKey
  BY <1>2, BeginDoes DEF WroteWithKey
<1>4. WroteWithKey(c)'
  BY <1>3 DEF WroteWithKey
<1> QED
  BY <1>1, <1>4, BeginDoes, OthersKeepKeys, SecretsKept, SameRows DEF KeysOK

(* The statements of a call keep the second layer.                         *)
LEMMA CallStepKeepsKeys ==
  ASSUME TypeOK, KeysOK, NEW c \in Calls, CallStep(c)
  PROVE  KeysOK'
<1>1. CASE SelectCandidates(c)
  BY <1>1, SelectDoes, StepKeepsKeys, SameRows
<1>2. CASE ClaimWebhook(c)
  <2>1. PICK h \in Hooks :
          /\ GoesOn(c, "claim") /\ pc[c] = "claim" /\ pending' = pending
          /\ webhooks' = [webhooks EXCEPT ![h] =
                            ClaimBy(webhooks[h], c, Lease - call[c].age)]
    BY <1>2, ClaimDoes
  <2>2. \A g \in Hooks : SameSecret(g)
    BY <2>1, ClaimKeepsSecrets
  <2> QED
    BY <2>1, <2>2, StepKeepsKeys
<1>3. CASE ClaimMisses(c)
  BY <1>3, ClaimMissesDoes, StepKeepsKeys, SameRows
<1>4. CASE EndClaims(c)
  BY <1>4, EndClaimsDoes, StepKeepsKeys, SameRows
<1>5. CASE Decrypt(c)
  BY <1>5, DecryptDoes, StepKeepsKeys, SameRows
<1>6. CASE DecryptFails(c)
  <2>1. Undo(c) /\ pc[c] # "idle" /\ webhooks' = webhooks
        /\ UNCHANGED config
    BY <1>6 DEF DecryptFails
  <2> QED
    BY <2>1, UndoKeepsKeys, SecretsKept, SameRows DEF KeysOK
<1>7. CASE Write(c)
  BY <1>7, WriteKeepsKeys
<1>8. CASE WriteMisses(c)
  BY <1>8, WriteMissesDoes, StepKeepsKeys, SameRows
<1>9. CASE Commit(c)
  <2>1. /\ Leave(c) /\ Rollback(c) /\ webhooks' = Written(c)
        /\ UNCHANGED config
    BY <1>9 DEF Commit
  <2> QED
    BY <2>1, LeaveKeepsKeys, RollbackDoes, CommitKeepsSecrets DEF KeysOK
<1>10. CASE ReleaseClaim(c)
  <2>1. PICK h \in Hooks :
          /\ GoesOn(c, "undo") /\ pc[c] = "undo" /\ pending' = pending
          /\ webhooks' = IF Owns(c, h)
                         THEN [webhooks EXCEPT ![h] =
                                 ClaimBy(webhooks[h], Nobody, Past)]
                         ELSE webhooks
    BY <1>10, ReleaseDoes
  <2>2. \A g \in Hooks : SameSecret(g)
    BY <2>1, ClaimKeepsSecrets, SameRows
  <2> QED
    BY <2>1, <2>2, StepKeepsKeys
<1>11. CASE Raise(c)
  <2>1. /\ Leave(c) /\ pending' = pending /\ webhooks' = webhooks
        /\ UNCHANGED config /\ pc[c] = "undo"
    BY <1>11 DEF Raise
  <2>2. \A h \in Hooks : pending[c][h] = NoKey
    BY <2>1 DEF KeysOK, WroteWithKey
  <2> QED
    BY <2>1, <2>2, LeaveKeepsKeys, SecretsKept, SameRows DEF KeysOK
<1> QED
  BY <1>1, <1>2, <1>3, <1>4, <1>5, <1>6, <1>7, <1>8, <1>9, <1>10, <1>11
  DEF CallStep

(* So do statements that fail.                                             *)
LEMMA FaultKeepsKeys ==
  ASSUME TypeOK, KeysOK, NEW c \in Calls, Fault(c)
  PROVE  KeysOK'
<1>1. CASE StatementFails(c)
  <2>1. webhooks' = webhooks /\ UNCHANGED config
    BY <1>1 DEF StatementFails
  <2>2. CASE pc[c] = "select" /\ Leave(c) /\ pending' = pending
    <3>1. \A h \in Hooks : pending[c][h] = NoKey
      BY <2>2 DEF KeysOK, WroteWithKey
    <3> QED
      BY <2>1, <2>2, <3>1, LeaveKeepsKeys, SecretsKept, SameRows DEF KeysOK
  <2>3. CASE pc[c] \in {"claim", "load", "write"} /\ Undo(c)
    BY <2>1, <2>3, UndoKeepsKeys, SecretsKept, SameRows DEF KeysOK
  <2> QED
    BY <1>1, <2>2, <2>3 DEF StatementFails
<1>2. CASE CommitUnacknowledged(c)
  <2>1. /\ Undo(c) /\ pc[c] # "idle" /\ webhooks' = Written(c)
        /\ UNCHANGED config
    BY <1>2 DEF CommitUnacknowledged
  <2> QED
    BY <2>1, UndoKeepsKeys, CommitKeepsSecrets DEF KeysOK
<1>3. CASE ClaimUnacknowledged(c)
  <2>1. PICK h \in NextOf(call[c].candidates) :
          webhooks' = [webhooks EXCEPT ![h] =
                         ClaimBy(webhooks[h], c, Lease - call[c].age)]
    BY <1>3 DEF ClaimUnacknowledged
  <2>2. h \in Hooks
    BY CallEdits, NextInList DEF TypeOK
  <2>3. \A g \in Hooks : SameSecret(g)
    BY <2>1, <2>2, ClaimKeepsSecrets
  <2>4. Undo(c) /\ pc[c] # "idle" /\ UNCHANGED config
    BY <1>3 DEF ClaimUnacknowledged, Claiming
  <2> QED
    BY <2>3, <2>4, UndoKeepsKeys, SecretsKept DEF KeysOK
<1>4. CASE ReleaseFails(c)
  <2>1. PICK h : call' = [call EXCEPT ![c].todo = @ \ {h}]
    BY <1>4 DEF ReleaseFails
  <2>2. call'[c].kid = call[c].kid
    BY <2>1, TodoDoes
  <2>3. GoesOn(c, "undo") /\ pc[c] = "undo" /\ pending' = pending
        /\ webhooks' = webhooks
    BY <1>4, <2>1, <2>2 DEF ReleaseFails, GoesOn, Untouched
  <2> QED
    BY <2>3, StepKeepsKeys, SameRows
<1> QED
  BY <1>1, <1>2, <1>3, <1>4 DEF Fault

(* Every step keeps the second layer.                                      *)
LEMMA KeysStep ==
  ASSUME TypeOK, KeysOK, [Next]_vars
  PROVE  KeysOK'
<1>1. CASE UNCHANGED vars
  BY <1>1 DEF KeysOK, KeyShared, KnowsKey, WroteWithKey, SecretsReadable,
     LabelsTruthful, vars
<1> QED
  BY <1>1, BeginKeepsKeys, CallStepKeepsKeys, FaultKeepsKeys, CrashKeepsKeys,
     RedeployKeepsKeys, CreateKeepsKeys, TickKeepsKeys DEF Next

(* The second layer holds throughout.                                      *)
LEMMA KeysInvariant == Spec => [](TypeOK /\ KeysOK)
<1>1. Init => TypeOK /\ KeysOK
  BY TypingStart, KeysStart
<1>2. TypeOK /\ KeysOK /\ [Next]_vars => (TypeOK /\ KeysOK)'
  BY TypingStep, KeysStep
<1> QED
  BY <1>1, <1>2, PTL DEF Spec

(* Every process can decrypt every secret that could be decrypted at       *)
(* first, whatever the rotation, the calls and the crashes do.             *)
THEOREM Readable == Spec => []SecretsReadable
<1>1. TypeOK /\ KeysOK => SecretsReadable
  BY DEF KeysOK
<1> QED
  BY <1>1, KeysInvariant, PTL

(* A verified label names the key of the ciphertext.                       *)
THEOREM Labels == Spec => []LabelsTruthful
<1>1. TypeOK /\ KeysOK => LabelsTruthful
  BY DEF KeysOK
<1> QED
  BY <1>1, KeysInvariant, PTL

-----------------------------------------------------------------------------
(* Third layer: claims.  What a call has written it owns, so that nobody   *)
(* else can have written it; what it owns it has in its list, and it does  *)
(* not end before the row is written or released.                          *)

PendingOwned(c) == \A h \in Hooks : pending[c][h] # NoKey => Owns(c, h)

HasClaims(c) == pc[c] \in {"idle", "select"} => call[c].claimed = {}

ClaimedExists ==
    \A h \in Hooks : webhooks[h].claimed_by # Nobody => webhooks[h].exists

Accounted(c) ==
    losses = 0 =>
      \A h \in Hooks : Owns(c, h) =>
        /\ h \in call[c].claimed
        /\ pc[c] \in {"load", "write"} =>
             h \in call[c].todo \/ pending[c][h] # NoKey
        /\ pc[c] = "undo" => h \in call[c].todo

ClaimsOK ==
    /\ ClaimedExists
    /\ \A c \in Calls : PendingOwned(c) /\ HasClaims(c) /\ Accounted(c)

(* At the start nothing is claimed.                                        *)
LEMMA ClaimsStart == Init => ClaimsOK
<1> SUFFICES ASSUME Init PROVE ClaimsOK
  OBVIOUS
<1>1. \A h \in Hooks : webhooks[h].claimed_by = Nobody
  BY DEF Init
<1>2. NoCall.claimed = {}
  BY DEF NoCall, CallOf
<1>3. \A c \in Calls : PendingOwned(c) /\ HasClaims(c) /\ Accounted(c)
  BY <1>1, <1>2, Constants
  DEF Init, PendingOwned, HasClaims, Accounted, Owns, NothingWritten
<1> QED
  BY <1>1, <1>3 DEF ClaimsOK, ClaimedExists

(* Claims change hands at most from a call to nobody.                      *)
ClaimsOnlyEnd ==
    \A h \in Hooks :
      /\ webhooks'[h].exists = webhooks[h].exists
      /\ webhooks'[h].claimed_by \in {webhooks[h].claimed_by, Nobody}

(* A claim that ends is not one of this call.                              *)
KeepsClaims(d) ==
    \A h \in Hooks : webhooks[h].claimed_by = d => webhooks'[h].claimed_by = d

(* A call that takes no step, while claims end that are not its own.       *)
LEMMA OthersKeepClaims ==
  ASSUME ClaimsOK, losses' = losses \/ losses' # 0, NEW d \in Calls,
         call'[d] = call[d], pc'[d] = pc[d], pending'[d] = pending[d],
         ClaimsOnlyEnd, KeepsClaims(d)
  PROVE  PendingOwned(d)' /\ HasClaims(d)' /\ Accounted(d)'
<1>1. \A h \in Hooks : Owns(d, h)' <=> Owns(d, h)
  BY Constants DEF ClaimsOnlyEnd, KeepsClaims, Owns
<1>2. PendingOwned(d)'
  BY <1>1 DEF ClaimsOK, PendingOwned
<1>3. HasClaims(d)'
  BY DEF ClaimsOK, HasClaims
<1>4. Accounted(d)'
  BY <1>1 DEF ClaimsOK, Accounted
<1> QED
  BY <1>2, <1>3, <1>4

(* Rows that do not change keep their claims.                              *)
LEMMA RowsSameKeepClaims ==
  ASSUME webhooks' = webhooks
  PROVE  ClaimsOnlyEnd /\ \A d \in Calls : KeepsClaims(d)
  BY DEF ClaimsOnlyEnd, KeepsClaims

(* A claimed row exists.                                                   *)
LEMMA ExistKept ==
  ASSUME ClaimsOK, ClaimsOnlyEnd
  PROVE  ClaimedExists'
  BY DEF ClaimsOK, ClaimedExists, ClaimsOnlyEnd

(* A step of one call that touches no row: what remains to be shown.       *)
LEMMA QuietStep ==
  ASSUME ClaimsOK, NEW c \in Calls, Untouched(c), webhooks' = webhooks,
         losses' = losses \/ losses' # 0,
         PendingOwned(c)', HasClaims(c)', Accounted(c)'
  PROVE  ClaimsOK'
<1>1. \A d \in Calls : d # c =>
        PendingOwned(d)' /\ HasClaims(d)' /\ Accounted(d)'
  BY OthersKeepClaims, RowsSameKeepClaims DEF Untouched
<1> QED
  BY <1>1, ExistKept, RowsSameKeepClaims DEF ClaimsOK

(* The exception handler releases everything that the call owns, because   *)
(* all of it is in its list.                                               *)
LEMMA QuietUndo ==
  ASSUME TypeOK, ClaimsOK, NEW c \in Calls, Undo(c), webhooks' = webhooks,
         losses' = losses
  PROVE  ClaimsOK'
<1>1. PendingOwned(c)' /\ HasClaims(c)'
  BY UndoDoes DEF PendingOwned, HasClaims
<1>2. Accounted(c)'
  BY UndoDoes DEF ClaimsOK, Accounted, Owns
<1> QED
  BY <1>1, <1>2, UndoDoes, QuietStep

(* A call begins without a claim.                                          *)
LEMMA BeginKeepsClaims ==
  ASSUME TypeOK, ClaimsOK, NEW c \in Calls, Begin(c)
  PROVE  ClaimsOK'
<1>1. PendingOwned(c)' /\ HasClaims(c)' /\ Accounted(c)'
  BY BeginDoes DEF ClaimsOK, PendingOwned, HasClaims, Accounted, Owns
<1> QED
  BY <1>1, BeginDoes, QuietStep

(* Selecting claims nothing.                                               *)
LEMMA SelectKeepsClaims ==
  ASSUME TypeOK, ClaimsOK, NEW c \in Calls, SelectCandidates(c)
  PROVE  ClaimsOK'
<1>1. PendingOwned(c)' /\ HasClaims(c)' /\ Accounted(c)'
  BY SelectDoes DEF ClaimsOK, GoesOn, PendingOwned, HasClaims, Accounted, Owns
<1> QED
  BY <1>1, SelectDoes, QuietStep DEF GoesOn

(* A row is claimed only when it is free or its lease is over, and not     *)
(* while another call has written it.                                      *)
LEMMA ClaimedAnew ==
  ASSUME TypeOK, ClaimsOK, NEW c \in Calls, NEW h \in Hooks,
         Unlocked(h), Available(webhooks[h], call[c].age),
         webhooks' = [webhooks EXCEPT ![h] =
                        ClaimBy(webhooks[h], c, Lease - call[c].age)]
  PROVE  /\ ClaimedExists'
         /\ \A g \in Hooks : Owns(c, g)' => g = h \/ Owns(c, g)
         /\ \A d \in Calls, g \in Hooks :
              d # c => (Owns(d, g)' <=> Owns(d, g) /\ g # h)
         /\ \A d \in Calls : pending[d][h] = NoKey
<1>1. webhooks[h] \in Row
  BY DEF TypeOK
<1>2. /\ webhooks'[h].exists = webhooks[h].exists
      /\ webhooks'[h].claimed_by = c
      /\ \A g \in Hooks : g # h => webhooks'[g] = webhooks[g]
  BY <1>1, RowReads DEF TypeOK
<1>3. webhooks[h].exists
  BY DEF Available
<1>4. ClaimedExists'
  BY <1>2, <1>3 DEF ClaimsOK, ClaimedExists
<1> QED
  BY <1>2, <1>4 DEF Owns, Unlocked

(* The calls that had a row before it was claimed anew.                    *)
LEMMA OthersLoseRow ==
  ASSUME ClaimsOK, losses' = losses \/ losses' # 0,
         NEW d \in Calls, NEW h \in Hooks,
         call'[d] = call[d], pc'[d] = pc[d], pending'[d] = pending[d],
         pending[d][h] = NoKey,
         \A g \in Hooks : Owns(d, g)' <=> Owns(d, g) /\ g # h
  PROVE  PendingOwned(d)' /\ HasClaims(d)' /\ Accounted(d)'
  BY DEF ClaimsOK, PendingOwned, HasClaims, Accounted

(* A claim goes into the list of its call, and out of no list of a call    *)
(* that has written the row.                                               *)
LEMMA ClaimKeepsClaims ==
  ASSUME TypeOK, ClaimsOK, NEW c \in Calls, ClaimWebhook(c)
  PROVE  ClaimsOK'
<1>1. PICK h \in Hooks :
        /\ GoesOn(c, "claim") /\ pc[c] = "claim"
        /\ call'[c].claimed = call[c].claimed \cup {h}
        /\ Unlocked(h) /\ Available(webhooks[h], call[c].age)
        /\ webhooks' = [webhooks EXCEPT ![h] =
                          ClaimBy(webhooks[h], c, Lease - call[c].age)]
        /\ pending' = pending /\ losses' = losses
  BY ClaimDoes
<1>2. /\ ClaimedExists'
      /\ \A g \in Hooks : Owns(c, g)' => g = h \/ Owns(c, g)
      /\ \A d \in Calls, g \in Hooks :
           d # c => (Owns(d, g)' <=> Owns(d, g) /\ g # h)
      /\ \A d \in Calls : pending[d][h] = NoKey
  BY <1>1, ClaimedAnew
<1>3. ASSUME NEW d \in Calls, d # c
      PROVE  PendingOwned(d)' /\ HasClaims(d)' /\ Accounted(d)'
  BY <1>1, <1>2, <1>3, OthersLoseRow DEF GoesOn, Untouched
<1>4. ASSUME NEW g \in Hooks, pending[c][g] # NoKey
      PROVE  Owns(c, g)'
  <2>1. Owns(c, g) /\ g # h
    BY <1>2, <1>4 DEF ClaimsOK, PendingOwned
  <2> QED
    BY <1>1, <2>1 DEF TypeOK, Owns
<1>5. PendingOwned(c)' /\ HasClaims(c)' /\ Accounted(c)'
  BY <1>1, <1>2, <1>4
  DEF ClaimsOK, GoesOn, PendingOwned, HasClaims, Accounted
<1> QED
  BY <1>2, <1>3, <1>5 DEF ClaimsOK

(* Steps on the lists alone keep the third layer.                          *)
LEMMA ListKeepsClaims ==
  ASSUME TypeOK, ClaimsOK, NEW c \in Calls,
         ClaimMisses(c) \/ EndClaims(c) \/ Decrypt(c)
  PROVE  ClaimsOK'
<1>1. CASE ClaimMisses(c)
  <2>1. PendingOwned(c)' /\ HasClaims(c)' /\ Accounted(c)'
    BY <1>1, ClaimMissesDoes
    DEF ClaimsOK, GoesOn, PendingOwned, HasClaims, Accounted, Owns
  <2> QED
    BY <1>1, <2>1, ClaimMissesDoes, QuietStep DEF GoesOn
<1>2. CASE EndClaims(c)
  <2>1. PendingOwned(c)' /\ HasClaims(c)' /\ Accounted(c)'
    BY <1>2, EndClaimsDoes
    DEF ClaimsOK, GoesOn, PendingOwned, HasClaims, Accounted, Owns
  <2> QED
    BY <1>2, <2>1, EndClaimsDoes, QuietStep DEF GoesOn
<1>3. CASE Decrypt(c)
  <2>1. PendingOwned(c)' /\ HasClaims(c)' /\ Accounted(c)'
    BY <1>3, DecryptDoes
    DEF ClaimsOK, GoesOn, PendingOwned, HasClaims, Accounted, Owns
  <2> QED
    BY <1>3, <2>1, DecryptDoes, QuietStep DEF GoesOn
<1> QED
  BY <1>1, <1>2, <1>3

(* A row that is done is a row that was written.                           *)
LEMMA WriteKeepsClaims ==
  ASSUME TypeOK, ClaimsOK, NEW c \in Calls, Write(c)
  PROVE  ClaimsOK'
<1>1. PICK h \in Hooks :
        /\ GoesOn(c, "load") /\ pc[c] = "write"
        /\ call'[c].claimed = call[c].claimed
        /\ call'[c].todo = call[c].todo \ {h}
        /\ Owns(c, h)
        /\ pending'[c] = [pending[c] EXCEPT ![h] = Rewrapped(c, h)]
        /\ webhooks' = webhooks /\ losses' = losses
  BY WriteDoes
<1>2. /\ pending'[c][h] # NoKey
      /\ \A g \in Hooks : g # h => pending'[c][g] = pending[c][g]
  BY <1>1, RewrappedType, Constants DEF TypeOK
<1>3. PendingOwned(c)' /\ HasClaims(c)' /\ Accounted(c)'
  BY <1>1, <1>2 DEF ClaimsOK, GoesOn, PendingOwned, HasClaims, Accounted, Owns
<1> QED
  BY <1>1, <1>3, QuietStep DEF GoesOn

(* A row that is left to another owner needs no release.                   *)
LEMMA WriteMissesKeepsClaims ==
  ASSUME TypeOK, ClaimsOK, NEW c \in Calls, WriteMisses(c)
  PROVE  ClaimsOK'
<1>1. PICK h \in Hooks :
        /\ GoesOn(c, "load") /\ pc[c] = "write"
        /\ call'[c].claimed = call[c].claimed
        /\ call'[c].todo = call[c].todo \ {h}
        /\ ~Owns(c, h)
        /\ pending' = pending /\ webhooks' = webhooks /\ losses' = losses
  BY WriteMissesDoes
<1>2. PendingOwned(c)' /\ HasClaims(c)' /\ Accounted(c)'
  BY <1>1 DEF ClaimsOK, GoesOn, PendingOwned, HasClaims, Accounted, Owns
<1> QED
  BY <1>1, <1>2, QuietStep DEF GoesOn

(* What a commit does to the claims: those of the written rows end, and    *)
(* they were the call's own.                                               *)
LEMMA CommitEndsOwnClaims ==
  ASSUME TypeOK, ClaimsOK, NEW c \in Calls, webhooks' = Written(c)
  PROVE  /\ ClaimsOnlyEnd
         /\ \A d \in Calls : d # c => KeepsClaims(d)
         /\ \A h \in Hooks : Owns(c, h)' => Owns(c, h) /\ pending[c][h] = NoKey
<1>1. ASSUME NEW h \in Hooks
      PROVE  /\ pending[c][h] = NoKey => webhooks'[h] = webhooks[h]
             /\ pending[c][h] # NoKey =>
                  /\ webhooks'[h].exists = webhooks[h].exists
                  /\ webhooks'[h].claimed_by = Nobody
                  /\ webhooks[h].claimed_by = c
  BY WrittenDoes DEF ClaimsOK, PendingOwned, Owns
<1>2. ClaimsOnlyEnd
  BY <1>1 DEF ClaimsOnlyEnd
<1>3. \A d \in Calls : d # c => KeepsClaims(d)
  BY <1>1 DEF KeepsClaims
<1>4. \A h \in Hooks : Owns(c, h)' => Owns(c, h) /\ pending[c][h] = NoKey
  BY <1>1, Constants DEF Owns
<1> QED
  BY <1>2, <1>3, <1>4

(* After the commit the call owns nothing: every row it owned it had       *)
(* written.                                                                *)
LEMMA CommitKeepsClaims ==
  ASSUME TypeOK, ClaimsOK, NEW c \in Calls, Commit(c)
  PROVE  ClaimsOK'
<1>1. /\ Leave(c) /\ Rollback(c) /\ webhooks' = Written(c)
      /\ losses' = losses /\ pc[c] = "load" /\ call[c].todo = {}
  BY DEF Commit, budgets
<1>2. \A d \in Calls : d # c =>
        PendingOwned(d)' /\ HasClaims(d)' /\ Accounted(d)'
  BY <1>1, CommitEndsOwnClaims, LeaveDoes, RollbackDoes, OthersKeepClaims
<1>3. PendingOwned(c)' /\ HasClaims(c)'
  BY <1>1, LeaveDoes, RollbackDoes DEF PendingOwned, HasClaims
<1>4. Accounted(c)'
  <2>1. losses = 0 => \A h \in Hooks : ~Owns(c, h)'
    BY <1>1, CommitEndsOwnClaims DEF ClaimsOK, Accounted
  <2> QED
    BY <1>1, <2>1 DEF Accounted
<1> QED
  BY <1>1, <1>2, <1>3, <1>4, CommitEndsOwnClaims, ExistKept DEF ClaimsOK

(* A release ends a claim of the call itself or nothing.                   *)
LEMMA ReleaseKeepsClaims ==
  ASSUME TypeOK, KeysOK, ClaimsOK, NEW c \in Calls, ReleaseClaim(c)
  PROVE  ClaimsOK'
<1>1. PICK h \in Hooks :
        /\ GoesOn(c, "undo") /\ pc[c] = "undo"
        /\ call'[c].claimed = call[c].claimed
        /\ call'[c].todo = call[c].todo \ {h}
        /\ webhooks' = IF Owns(c, h)
                       THEN [webhooks EXCEPT ![h] =
                               ClaimBy(webhooks[h], Nobody, Past)]
                       ELSE webhooks
        /\ pending' = pending /\ losses' = losses
  BY ReleaseDoes
<1>2. /\ ClaimsOnlyEnd
      /\ \A d \in Calls : d # c => KeepsClaims(d)
      /\ \A g \in Hooks : Owns(c, g)' => Owns(c, g) /\ g # h
  <2>1. CASE Owns(c, h)
    <3>1. webhooks[h] \in Row
      BY DEF TypeOK
    <3>2. /\ webhooks'[h].exists = webhooks[h].exists
          /\ webhooks'[h].claimed_by = Nobody
          /\ webhooks[h].claimed_by = c
          /\ \A g \in Hooks : g # h => webhooks'[g] = webhooks[g]
      BY <1>1, <2>1, <3>1, RowReads DEF TypeOK, Owns
    <3> QED
      BY <3>2, Constants DEF ClaimsOnlyEnd, KeepsClaims, Owns
  <2>2. CASE ~Owns(c, h)
    BY <1>1, <2>2, RowsSameKeepClaims DEF Owns
  <2> QED
    BY <2>1, <2>2
<1>3. \A d \in Calls : d # c =>
        PendingOwned(d)' /\ HasClaims(d)' /\ Accounted(d)'
  BY <1>1, <1>2, OthersKeepClaims DEF GoesOn, Untouched
<1>4. \A g \in Hooks : pending[c][g] = NoKey
  BY <1>1 DEF KeysOK, WroteWithKey
<1>5. PendingOwned(c)' /\ HasClaims(c)'
  BY <1>1, <1>4 DEF GoesOn, PendingOwned, HasClaims
<1>6. Accounted(c)'
  BY <1>1, <1>2 DEF ClaimsOK, GoesOn, Accounted
<1> QED
  BY <1>2, <1>3, <1>5, <1>6, ExistKept DEF ClaimsOK

(* When all is released the call owns nothing.                             *)
LEMMA RaiseKeepsClaims ==
  ASSUME TypeOK, KeysOK, ClaimsOK, NEW c \in Calls, Raise(c)
  PROVE  ClaimsOK'
<1>1. /\ Leave(c) /\ pending' = pending /\ webhooks' = webhooks
      /\ losses' = losses /\ pc[c] = "undo" /\ call[c].todo = {}
  BY DEF Raise, budgets
<1>2. \A h \in Hooks : pending[c][h] = NoKey
  BY <1>1 DEF KeysOK, WroteWithKey
<1>3. Untouched(c)
  BY <1>1, LeaveDoes DEF Untouched
<1>4. PendingOwned(c)' /\ HasClaims(c)'
  BY <1>1, <1>2, LeaveDoes DEF PendingOwned, HasClaims
<1>5. Accounted(c)'
  BY <1>1 DEF ClaimsOK, Accounted, Owns
<1> QED
  BY <1>1, <1>3, <1>4, <1>5, QuietStep

(* A failing statement goes to the exception handler, or the call had      *)
(* claimed nothing.                                                        *)
LEMMA StatementFailsKeepsClaims ==
  ASSUME TypeOK, KeysOK, ClaimsOK, NEW c \in Calls, StatementFails(c)
  PROVE  ClaimsOK'
<1>1. webhooks' = webhooks /\ losses' = losses
  BY DEF StatementFails
<1>2. CASE pc[c] = "select" /\ Leave(c) /\ pending' = pending
  <2>1. \A h \in Hooks : pending[c][h] = NoKey
    BY <1>2 DEF KeysOK, WroteWithKey
  <2>2. Untouched(c)
    BY <1>2, LeaveDoes DEF Untouched
  <2>3. PendingOwned(c)' /\ HasClaims(c)'
    BY <1>2, <2>1, LeaveDoes DEF PendingOwned, HasClaims
  <2>4. losses = 0 => \A h \in Hooks : ~Owns(c, h)
    BY <1>2 DEF ClaimsOK, HasClaims, Accounted
  <2>5. Accounted(c)'
    BY <1>1, <2>4 DEF Accounted, Owns
  <2> QED
    BY <1>1, <2>2, <2>3, <2>5, QuietStep
<1>3. CASE pc[c] \in {"claim", "load", "write"} /\ Undo(c)
  BY <1>1, <1>3, QuietUndo
<1> QED
  BY <1>2, <1>3 DEF StatementFails

(* The batch is committed and undone: the claims of the written rows are   *)
(* over, those of the others are still in the list of the call.            *)
LEMMA CommitUnacknowledgedKeepsClaims ==
  ASSUME TypeOK, ClaimsOK, NEW c \in Calls, CommitUnacknowledged(c)
  PROVE  ClaimsOK'
<1>1. Undo(c) /\ webhooks' = Written(c) /\ losses' = losses
  BY DEF CommitUnacknowledged
<1>2. \A d \in Calls : d # c =>
        PendingOwned(d)' /\ HasClaims(d)' /\ Accounted(d)'
  BY <1>1, CommitEndsOwnClaims, UndoDoes, OthersKeepClaims DEF Untouched
<1>3. PendingOwned(c)' /\ HasClaims(c)'
  BY <1>1, UndoDoes DEF PendingOwned, HasClaims
<1>4. Accounted(c)'
  <2>1. losses = 0 => \A h \in Hooks : Owns(c, h)' => h \in call[c].claimed
    BY <1>1, CommitEndsOwnClaims DEF ClaimsOK, Accounted
  <2> QED
    BY <1>1, <2>1, UndoDoes DEF Accounted
<1> QED
  BY <1>1, <1>2, <1>3, <1>4, CommitEndsOwnClaims, ExistKept DEF ClaimsOK

(* A claim that the call does not know of is a loss: nothing is accounted. *)
LEMMA ClaimUnacknowledgedKeepsClaims ==
  ASSUME TypeOK, ClaimsOK, NEW c \in Calls, ClaimUnacknowledged(c)
  PROVE  ClaimsOK'
<1>1. PICK h \in NextOf(call[c].candidates) :
        /\ Unlocked(h) /\ Available(webhooks[h], call[c].age)
        /\ webhooks' = [webhooks EXCEPT ![h] =
                          ClaimBy(webhooks[h], c, Lease - call[c].age)]
  BY DEF ClaimUnacknowledged
<1>2. h \in Hooks
  BY CallEdits, NextInList DEF TypeOK
<1>3. /\ ClaimedExists'
      /\ \A d \in Calls, g \in Hooks :
           d # c => (Owns(d, g)' <=> Owns(d, g) /\ g # h)
      /\ \A d \in Calls : pending[d][h] = NoKey
  BY <1>1, <1>2, ClaimedAnew
<1>4. losses' # 0 /\ Undo(c)
  BY DEF ClaimUnacknowledged, TypeOK
<1>5. ASSUME NEW d \in Calls, d # c
      PROVE  PendingOwned(d)' /\ HasClaims(d)' /\ Accounted(d)'
  BY <1>2, <1>3, <1>4, <1>5, UndoDoes, OthersLoseRow DEF Untouched
<1>6. PendingOwned(c)' /\ HasClaims(c)' /\ Accounted(c)'
  BY <1>4, UndoDoes DEF PendingOwned, HasClaims, Accounted
<1> QED
  BY <1>3, <1>5, <1>6 DEF ClaimsOK

(* A release that fails is a loss: nothing is accounted.                   *)
LEMMA ReleaseFailsKeepsClaims ==
  ASSUME TypeOK, ClaimsOK, NEW c \in Calls, ReleaseFails(c)
  PROVE  ClaimsOK'
<1>1. /\ losses' # 0 /\ webhooks' = webhooks /\ pending' = pending
      /\ pc' = pc /\ pc[c] = "undo"
  BY DEF ReleaseFails, TypeOK
<1>2. Untouched(c)
  BY <1>1 DEF ReleaseFails, Untouched, TypeOK
<1>3. PendingOwned(c)' /\ HasClaims(c)' /\ Accounted(c)'
  BY <1>1 DEF ClaimsOK, PendingOwned, HasClaims, Accounted, Owns
<1> QED
  BY <1>1, <1>2, <1>3, QuietStep

(* A process that ends cuts no call off, or it is a loss.                  *)
LEMMA StopCuts ==
  ASSUME TypeOK, NEW s \in Servers, Stop(s)
  PROVE  \/ losses' # 0
         \/ /\ losses' = losses
            /\ \A c \in Calls : /\ call'[c] = call[c] /\ pc'[c] = pc[c]
                                /\ pending'[c] = pending[c]
<1> DEFINE cut == {c \in Calls : Home[c] = s /\ ~Idle(c)}
<1>1. CASE cut = {}
  <2>1. \A c \in Calls : c \notin cut
    BY <1>1
  <2> QED
    BY <1>1, <2>1 DEF Stop
<1>2. CASE cut # {}
  BY <1>2 DEF Stop, TypeOK
<1> QED
  BY <1>1, <1>2

(* The end of a process keeps the third layer.                             *)
LEMMA StopKeepsClaims ==
  ASSUME TypeOK, ClaimsOK, NEW s \in Servers, Stop(s)
  PROVE  ClaimsOK'
<1>1. webhooks' = webhooks
  BY StopDoes
<1>2. CASE losses' # 0
  <2>1. ASSUME NEW c \in Calls
        PROVE  PendingOwned(c)' /\ HasClaims(c)' /\ Accounted(c)'
    <3>1. \/ /\ pc'[c] = "idle" /\ call'[c].claimed = {}
             /\ \A h \in Hooks : pending'[c][h] = NoKey
          \/ /\ pc'[c] = pc[c] /\ call'[c] = call[c]
             /\ pending'[c] = pending[c]
      BY StopDoes
    <3>2. PendingOwned(c) /\ HasClaims(c)
      BY DEF ClaimsOK
    <3> QED
      BY <1>1, <1>2, <3>1, <3>2 DEF PendingOwned, HasClaims, Accounted, Owns
  <2> QED
    BY <1>1, <2>1, ExistKept, RowsSameKeepClaims DEF ClaimsOK
<1>3. CASE /\ losses' = losses
           /\ \A c \in Calls : /\ call'[c] = call[c] /\ pc'[c] = pc[c]
                               /\ pending'[c] = pending[c]
  BY <1>1, <1>3, OthersKeepClaims, ExistKept, RowsSameKeepClaims DEF ClaimsOK
<1> QED
  BY <1>2, <1>3, StopCuts

(* A new row is claimed by nobody.                                         *)
LEMMA CreateKeepsClaims ==
  ASSUME TypeOK, ClaimsOK, NEW s \in Servers, NEW h \in Hooks,
         CreateWebhook(s, h)
  PROVE  ClaimsOK'
<1>1. webhooks[h].claimed_by = Nobody
  BY DEF CreateWebhook, ClaimsOK, ClaimedExists
<1>2. /\ webhooks'[h].claimed_by = Nobody
      /\ \A g \in Hooks : g # h => webhooks'[g] = webhooks[g]
      /\ call' = call /\ pc' = pc /\ pending' = pending /\ losses' = losses
  BY DEF TypeOK, CreateWebhook, budgets
<1>3. ClaimedExists'
  BY <1>2 DEF ClaimsOK, ClaimedExists
<1>4. \A c \in Calls, g \in Hooks : Owns(c, g)' <=> Owns(c, g)
  BY <1>1, <1>2 DEF Owns
<1>5. \A c \in Calls : PendingOwned(c)' /\ HasClaims(c)' /\ Accounted(c)'
  BY <1>2, <1>4 DEF ClaimsOK, PendingOwned, HasClaims, Accounted
<1> QED
  BY <1>3, <1>5 DEF ClaimsOK

(* A second that passes keeps the third layer.                             *)
LEMMA TickKeepsClaims ==
  ASSUME TypeOK, ClaimsOK, Tick
  PROVE  ClaimsOK'
<1>1. /\ pc' = pc /\ pending' = pending /\ losses' = losses
      /\ \A c \in Calls : /\ call'[c].claimed = call[c].claimed
                          /\ call'[c].todo = call[c].todo
  BY TickDoes
<1>2. \A h \in Hooks : /\ webhooks'[h].exists = webhooks[h].exists
                       /\ webhooks'[h].claimed_by = webhooks[h].claimed_by
  BY TickDoes DEF SameSecret
<1>3. ClaimedExists'
  BY <1>2 DEF ClaimsOK, ClaimedExists
<1>4. \A c \in Calls, h \in Hooks : Owns(c, h)' <=> Owns(c, h)
  BY <1>2 DEF Owns
<1>5. \A c \in Calls : PendingOwned(c)' /\ HasClaims(c)' /\ Accounted(c)'
  BY <1>1, <1>4 DEF ClaimsOK, PendingOwned, HasClaims, Accounted
<1> QED
  BY <1>3, <1>5 DEF ClaimsOK

(* Every step keeps the third layer.                                       *)
LEMMA ClaimsStep ==
  ASSUME TypeOK, KeysOK, ClaimsOK, [Next]_vars
  PROVE  ClaimsOK'
<1>1. CASE UNCHANGED vars
  BY <1>1 DEF ClaimsOK, ClaimedExists, PendingOwned, HasClaims, Accounted,
     Owns, vars
<1>2. ASSUME NEW c \in Calls, CallStep(c)
      PROVE  ClaimsOK'
  <2>1. CASE DecryptFails(c)
    BY <2>1, QuietUndo DEF DecryptFails, budgets
  <2> QED
    BY <1>2, <2>1, SelectKeepsClaims, ClaimKeepsClaims, ListKeepsClaims,
       WriteKeepsClaims, WriteMissesKeepsClaims, CommitKeepsClaims,
       ReleaseKeepsClaims, RaiseKeepsClaims DEF CallStep
<1>3. ASSUME NEW c \in Calls, Fault(c)
      PROVE  ClaimsOK'
  BY <1>3, StatementFailsKeepsClaims, CommitUnacknowledgedKeepsClaims,
     ClaimUnacknowledgedKeepsClaims, ReleaseFailsKeepsClaims DEF Fault
<1>4. ASSUME NEW s \in Servers, Crash(s) \/ Redeploy(s)
      PROVE  ClaimsOK'
  BY <1>4, StopKeepsClaims DEF Crash, Redeploy
<1> QED
  BY <1>1, <1>2, <1>3, <1>4, BeginKeepsClaims, CreateKeepsClaims,
     TickKeepsClaims DEF Next

(* The third layer holds throughout.                                       *)
LEMMA ClaimsInvariant == Spec => [](TypeOK /\ KeysOK /\ ClaimsOK)
<1>1. Init => TypeOK /\ KeysOK /\ ClaimsOK
  BY TypingStart, KeysStart, ClaimsStart
<1>2. TypeOK /\ KeysOK /\ ClaimsOK /\ [Next]_vars
        => (TypeOK /\ KeysOK /\ ClaimsOK)'
  BY TypingStep, KeysStep, ClaimsStep
<1> QED
  BY <1>1, <1>2, PTL DEF Spec

(* However a call ends, with an answer or an exception, it leaves no claim *)
(* behind that only the lease would end.                                   *)
THEOREM NoOrphans == Spec => []NoOrphanClaims
<1>1. ASSUME TypeOK, ClaimsOK PROVE NoOrphanClaims
  <2> SUFFICES ASSUME losses = 0, NEW h \in Hooks,
                      webhooks[h].claimed_by # Nobody
               PROVE  /\ ~Idle(webhooks[h].claimed_by)
                      /\ h \in call[webhooks[h].claimed_by].claimed
    BY DEF NoOrphanClaims
  <2> DEFINE c == webhooks[h].claimed_by
  <2>1. c \in Calls
    BY <1>1 DEF TypeOK, Row
  <2>2. Owns(c, h) /\ Accounted(c) /\ HasClaims(c)
    BY <2>1, <1>1 DEF ClaimsOK, Owns
  <2> HIDE DEF c
  <2>3. h \in call[c].claimed
    BY <2>2 DEF Accounted
  <2>4. ~Idle(c)
    BY <2>2, <2>3 DEF HasClaims, Idle
  <2> QED
    BY <2>3, <2>4 DEF c
<1> QED
  BY <1>1, ClaimsInvariant, PTL

(* A step that ends or moves a claim of a row.                             *)
Taken(h) ==
    /\ webhooks[h].claimed_by # Nobody
    /\ webhooks[h].claim_expires_at > 0
    /\ webhooks'[h].claimed_by # webhooks[h].claimed_by

(* Such a claim is not available to anyone else.                           *)
LEMMA NotAvailable ==
  ASSUME TypeOK, NEW c \in Calls, NEW h \in Hooks,
         webhooks[h].claimed_by # Nobody, webhooks[h].claim_expires_at > 0
  PROVE  ~Available(webhooks[h], call[c].age)
<1>1. call[c].age \in Nat
  BY DEF TypeOK, Call
<1>2. webhooks[h].claim_expires_at \in Int
  BY DEF TypeOK, Row
<1> QED
  BY <1>1, <1>2 DEF Available

(* What the commit of a batch ends are claims of the call itself.          *)
LEMMA CommitTakesOwn ==
  ASSUME TypeOK, ClaimsOK, NEW c \in Calls, webhooks' = Written(c),
         NEW h \in Hooks, Taken(h)
  PROVE  webhooks[h].claimed_by = c
<1>1. pending[c][h] # NoKey
  BY WrittenDoes DEF Taken
<1> QED
  BY <1>1 DEF ClaimsOK, PendingOwned, Owns

(* Among the statements, what ends a claim that runs is a step of its      *)
(* owner.                                                                  *)
LEMMA CallStepTakes ==
  ASSUME TypeOK, ClaimsOK, NEW c \in Calls, CallStep(c) \/ Fault(c),
         NEW h \in Hooks, Taken(h)
  PROVE  webhooks[h].claimed_by = c /\ (call'[c] # call[c] \/ pc'[c] # pc[c])
<1>1. webhooks' # webhooks
  BY DEF Taken
<1>2. CASE ClaimWebhook(c) \/ ClaimUnacknowledged(c)
  <2>1. PICK g : /\ Available(webhooks[g], call[c].age)
                 /\ webhooks' = [webhooks EXCEPT ![g] =
                                   ClaimBy(webhooks[g], c, Lease - call[c].age)]
    BY <1>2 DEF ClaimWebhook, ClaimUnacknowledged
  <2>2. CASE g = h
    BY <2>1, <2>2, NotAvailable DEF Taken
  <2>3. CASE g # h
    BY <2>1, <2>3 DEF TypeOK, Taken
  <2> QED
    BY <2>2, <2>3
<1>3. CASE Commit(c)
  <2>1. webhooks' = Written(c) /\ pc[c] = "load" /\ Leave(c)
    BY <1>3 DEF Commit
  <2> QED
    BY <2>1, CommitTakesOwn, LeaveDoes
<1>4. CASE CommitUnacknowledged(c)
  <2>1. webhooks' = Written(c) /\ pc[c] = "load" /\ Undo(c)
    BY <1>4 DEF CommitUnacknowledged
  <2> QED
    BY <2>1, CommitTakesOwn, UndoDoes
<1>5. CASE ReleaseClaim(c)
  <2>1. PICK g \in Hooks :
          /\ g \in call[c].todo /\ call'[c].todo = call[c].todo \ {g}
          /\ webhooks' = IF Owns(c, g)
                         THEN [webhooks EXCEPT ![g] =
                                 ClaimBy(webhooks[g], Nobody, Past)]
                         ELSE webhooks
    BY <1>5, ReleaseDoes
  <2>2. Owns(c, g) /\ g = h
    BY <1>1, <2>1 DEF TypeOK, Taken
  <2>3. call'[c] # call[c]
    BY <2>1
  <2> QED
    BY <2>2, <2>3 DEF Owns
<1> QED
  BY <1>1, <1>2, <1>3, <1>4, <1>5
  DEF CallStep, SelectCandidates, ClaimMisses, EndClaims, Decrypt,
      DecryptFails, Write, WriteMisses, Raise, Fault, StatementFails,
      ReleaseFails

(* A claim whose lease still runs ends by a step of the call that took it: *)
(* nobody else may claim, write or release the row before.                 *)
THEOREM LiveClaims == Spec => LiveClaimKept
<1> DEFINE Kept(h) ==
      LET owner == webhooks[h].claimed_by
      IN owner # Nobody /\ webhooks[h].claim_expires_at > 0
           /\ webhooks'[h].claimed_by # owner
         => call'[owner] # call[owner] \/ pc'[owner] # pc[owner]
<1>1. ASSUME TypeOK, KeysOK, ClaimsOK, [Next]_vars, NEW h \in Hooks
      PROVE  Kept(h)
  <2> SUFFICES ASSUME Taken(h)
               PROVE  LET owner == webhooks[h].claimed_by
                      IN call'[owner] # call[owner] \/ pc'[owner] # pc[owner]
    BY DEF Taken
  <2>1. webhooks' # webhooks
    BY DEF Taken
  <2>2. ASSUME NEW c \in Calls, CallStep(c) \/ Fault(c)
        PROVE  LET owner == webhooks[h].claimed_by
               IN call'[owner] # call[owner] \/ pc'[owner] # pc[owner]
    BY <1>1, <2>2, CallStepTakes
  <2>3. ASSUME NEW s \in Servers, NEW g \in Hooks, CreateWebhook(s, g)
        PROVE  FALSE
    <3>1. webhooks[g].claimed_by = Nobody
      BY <1>1, <2>3 DEF CreateWebhook, ClaimsOK, ClaimedExists
    <3>2. g = h
      BY <1>1, <2>3 DEF TypeOK, CreateWebhook, Taken
    <3> QED
      BY <3>1, <3>2 DEF Taken
  <2>4. ASSUME Tick PROVE FALSE
    BY <1>1, <2>4, TickDoes DEF Taken
  <2> QED
    BY <1>1, <2>1, <2>2, <2>3, <2>4
    DEF Next, vars, Begin, Crash, Redeploy, Stop
<1>2. TypeOK /\ KeysOK /\ ClaimsOK /\ [Next]_vars => \A h \in Hooks : Kept(h)
  BY <1>1
<1> QED
  BY <1>2, ClaimsInvariant, PTL DEF Spec, LiveClaimKept
=============================================================================
