--------------------------- MODULE DecisionLedger ---------------------------
(***************************************************************************)
(* What POST /request/access and POST /rights/revoke promise together: the *)
(* rights of a tenant, its usage and its decision log change as if every   *)
(* decision and every revocation were made in one indivisible step, on the *)
(* rows as they are at that moment.                                        *)
(***************************************************************************)
EXTENDS Integers

CONSTANTS
    Rights,         \* access rights of the tenant
    Claims,         \* token |-> its right, user (sub) and scope
    Logs,           \* the entries the decision log may hold
    Quota           \* monthly_quota

VARIABLES
    rights,         \* right |-> owner, valid, changes and version
    usage,          \* usage_count
    logs            \* the decision log

Claim(l) == Claims[l.fingerprint.token]

Init ==
    /\ \A r \in Rights : /\ rights[r].valid
                         /\ rights[r].changes = 0
                         /\ rights[r].version = 1
    /\ usage = 0
    /\ logs = {}

(* A decision takes one unit of the quota and a key that is not in use.    *)
Record(l) ==
    /\ usage < Quota
    /\ \A m \in logs : m.key # l.key
    /\ usage' = usage + 1
    /\ logs' = logs \cup {l}

(* A denial is recorded whatever became of the right.                      *)
Deny(l) ==
    /\ ~l.allowed
    /\ Record(l)
    /\ UNCHANGED rights

(* Only the owner of a valid right is allowed to use it.                   *)
Usable(l) ==
    /\ rights[Claim(l).right].valid
    /\ rights[Claim(l).right].owner = Claim(l).user

AllowAccess(l) ==
    /\ l.allowed
    /\ Claim(l).scope = "access"
    /\ Usable(l)
    /\ Record(l)
    /\ UNCHANGED rights

(* The right changes hands; this is one change and one version.            *)
AllowTransfer(l) ==
    /\ l.allowed
    /\ Claim(l).scope = "ownership_transfer"
    /\ Usable(l)
    /\ Record(l)
    /\ LET r == Claim(l).right IN
         /\ rights[r].owner # l.fingerprint.newOwner
         /\ rights' = [rights EXCEPT ![r].owner = l.fingerprint.newOwner,
                                     ![r].changes = rights[r].changes + 1,
                                     ![r].version = rights[r].version + 1]

Revoke(r) ==
    /\ rights[r].valid
    /\ rights' = [rights EXCEPT ![r].valid = FALSE,
                                ![r].version = rights[r].version + 1]
    /\ UNCHANGED <<usage, logs>>

Next ==
    \/ \E l \in Logs : Deny(l) \/ AllowAccess(l) \/ AllowTransfer(l)
    \/ \E r \in Rights : Revoke(r)

Spec == Init /\ [][Next]_<<rights, usage, logs>>
=============================================================================
