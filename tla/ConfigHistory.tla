--------------------------- MODULE ConfigHistory ---------------------------
(***************************************************************************)
(* The versioned documents of a tenant, its access policies and its        *)
(* workflow configuration, and the audit replay that looks their old       *)
(* versions up: the endpoints under /admin/policies, /admin/               *)
(* workflow-config and /admin/audit/logs/{id}/replay of app/main.py.       *)
(*                                                                         *)
(* A change reads the row, archives what it read, edits it and commits all *)
(* of that at once; the UPDATE or DELETE matches the row only at the       *)
(* version that was read, and sets only the columns that the change        *)
(* touched.  Of the columns of a policy the two whose order the code       *)
(* checks stand for all, and one column for those of a configuration.      *)
(* There is one tenant.                                                    *)
(*                                                                         *)
(* A request is a single call.  A decision takes a policy and the workflow *)
(* configuration, is logged later, and is replayed once at any time after. *)
(***************************************************************************)
EXTENDS Integers

CONSTANTS
    Requests,       \* calls that change a document
    Decisions,      \* access requests that are logged and replayed
    Policies,       \* ids that the sequence of policies.id hands out: 1..n
    Workflow,       \* the document in workflow_configs
    Times,          \* values of valid_from and expires_at
    Modes,          \* values of the columns of a workflow configuration
    NewWindows,     \* windows of the policies that are created
    Payloads,       \* the columns that updates of policies set
    MaxVersion      \* bound: versions of a document

NULL == 0           \* a column, or an optional parameter, that is not set

PolicyColumns == {"valid_from", "expires_at"}
PolicyContents == [PolicyColumns -> Times \cup {NULL}]

(* validate_time_window of a payload, and the check of update_policy.      *)
Ordered(window) ==
    window["valid_from"] # NULL /\ window["expires_at"] # NULL
      => window["valid_from"] <= window["expires_at"]

Windows == {window \in PolicyContents : Ordered(window)}

ASSUME HistoryAssumption ==
    /\ Policies \subseteq Nat \ {0}
    /\ Workflow \notin Policies
    /\ Times \subseteq Nat \ {0}
    /\ Modes \subseteq Nat \ {0}
    /\ NewWindows \cup Payloads \subseteq Windows
    /\ MaxVersion \in Nat

VARIABLES
    docs,           \* rows of policies and workflow_configs
    created,        \* the last id of a policy handed out
    history,        \* rows of policy_history and workflow_config_history
    status,         \* of each request: where it is, or how it ended
    request,        \* its path, query and local variables
    stage,          \* of each decision: where it, or its replay, is
    used,           \* what the decision took, its request_logs row later
    found           \* what the replay found of it

vars == <<docs, created, history, status, request, stage, used, found>>

-----------------------------------------------------------------------------
Documents == Policies \cup {Workflow}

WorkflowColumns == {"execution_mode"}

WorkflowContents == [WorkflowColumns -> Modes]
NoContents == [column \in {} |-> NULL]
Contents == PolicyContents \cup WorkflowContents \cup {NoContents}

(* Version 0: there is no such row.                                        *)
Row == [version : Nat, contents : Contents]
Absent == [version |-> 0, contents |-> NoContents]

Exists(d) == docs[d].version > 0

Archive ==
    [doc : Documents, version : Nat, contents : Contents, by : Requests]

Expected == 0..MaxVersion

(* `contents` is NoContents when the request deletes the document.         *)
Request ==
    [doc : Documents, expected : Expected, base : Row, contents : Contents]

NoRequest ==
    [doc |-> Workflow, expected |-> NULL, base |-> Absent,
     contents |-> NoContents]

Answers == {"ok", "conflict", "not_found", "invalid", "error", "unavailable"}

(* Columns that the payload leaves out keep what was read.                 *)
Patched(old, payload) ==
    [column \in PolicyColumns |->
       IF payload[column] # NULL THEN payload[column] ELSE old[column]]

-----------------------------------------------------------------------------
Init ==
    /\ docs = [d \in Documents |-> Absent]
    /\ created = 0
    /\ history = {}
    /\ status = [r \in Requests |-> "idle"]
    /\ request = [r \in Requests |-> NoRequest]
    /\ stage = [n \in Decisions |-> "policies"]
    /\ used = [n \in Decisions |-> [d \in Documents |-> Absent]]
    /\ found = [n \in Decisions |-> [d \in Documents |-> Absent]]

decisions == <<stage, used, found>>

(* create_policy.  A name that is taken is refused and changes nothing.    *)
CreatePolicy ==
    /\ created + 1 \in Policies
    /\ created' = created + 1
    /\ \E window \in NewWindows :
         docs' = [docs EXCEPT ![created + 1] =
                    [version |-> 1, contents |-> window]]
    /\ UNCHANGED <<history, status, request, decisions>>

-----------------------------------------------------------------------------
(* Defect: expected_version is not looked at.                              *)
AnyVersion(d, expected) == TRUE

AsExpected(d, expected) ==
    expected # NULL => docs[d].version = expected

Goto(r, step) == status' = [status EXCEPT ![r] = step]

(* An answer that is not 200; the local variables are gone.                *)
Refuse(r, answer) ==
    /\ Goto(r, answer)
    /\ request' = [request EXCEPT ![r] = NoRequest]

Load(r, d, expected, contents) ==
    /\ request' = [request EXCEPT ![r] =
                     [doc |-> d, expected |-> expected, base |-> docs[d],
                      contents |-> contents]]
    /\ Goto(r, "loaded")

(* update_policy up to the commit.                                         *)
LoadUpdate(r) ==
    /\ status[r] = "idle"
    /\ \E p \in Policies, expected \in Expected, payload \in Payloads :
         \/ ~Exists(p) /\ Refuse(r, "not_found")
         \/ /\ Exists(p) /\ ~AsExpected(p, expected)
            /\ Refuse(r, "conflict")
         \/ /\ Exists(p) /\ AsExpected(p, expected)
            /\ ~Ordered(Patched(docs[p].contents, payload))
            /\ Refuse(r, "invalid")
         \/ /\ Exists(p) /\ AsExpected(p, expected)
            /\ docs[p].version < MaxVersion
            /\ LET edited == Patched(docs[p].contents, payload)
               IN Ordered(edited) /\ Load(r, p, expected, edited)
    /\ UNCHANGED <<docs, created, history, decisions>>

(* delete_policy up to the commit.                                         *)
LoadDelete(r) ==
    /\ status[r] = "idle"
    /\ \E p \in Policies, expected \in Expected :
         \/ ~Exists(p) /\ Refuse(r, "not_found")
         \/ /\ Exists(p) /\ ~AsExpected(p, expected)
            /\ Refuse(r, "conflict")
         \/ /\ Exists(p) /\ AsExpected(p, expected)
            /\ Load(r, p, expected, NoContents)
    /\ UNCHANGED <<docs, created, history, decisions>>

(* update_workflow_config up to the commit.  A configuration that was      *)
(* never written has no version that could be expected.                    *)
LoadWorkflow(r) ==
    /\ status[r] = "idle"
    /\ \E expected \in Expected :
         \/ /\ ~AsExpected(Workflow, expected)
            /\ Refuse(r, "conflict")
         \/ /\ AsExpected(Workflow, expected)
            /\ docs[Workflow].version < MaxVersion
            /\ \E contents \in WorkflowContents :
                 Load(r, Workflow, expected, contents)
    /\ UNCHANGED <<docs, created, history, decisions>>

-----------------------------------------------------------------------------
(* Defect: what is archived is the row after the edit.                     *)
ArchivedEdited(r) ==
    LET q == request[r]
    IN [doc |-> q.doc, version |-> q.base.version, contents |-> q.contents,
        by |-> r]

(* save_policy_history, save_workflow_config_history.                      *)
Archived(r) ==
    LET q == request[r]
    IN [doc |-> q.doc, version |-> q.base.version,
        contents |-> q.base.contents, by |-> r]

(* The columns that the request changed are set, the others are not in the *)
(* statement.                                                              *)
Merged(now, old, new) ==
    [column \in DOMAIN new |->
       IF old # NoContents /\ new[column] = old[column] THEN now[column]
                                                        ELSE new[column]]

(* Defect: the statement is by id alone.                                   *)
AlwaysCurrent(r) == Exists(request[r].doc)

(* version_id_col: WHERE id = ... AND version = ...; an INSERT needs the   *)
(* primary key to be free.                                                 *)
Current(r) == docs[request[r].doc].version = request[r].base.version

Deletes(r) == request[r].contents = NoContents

(* The flush and the commit: archive and change, or neither.               *)
Apply(r) ==
    LET q == request[r]
    IN /\ Current(r)
       /\ docs' = [docs EXCEPT ![q.doc] =
                     IF Deletes(r) THEN Absent
                     ELSE [version |-> q.base.version + 1,
                           contents |-> Merged(docs[q.doc].contents,
                                               q.base.contents, q.contents)]]
       /\ history' = IF q.base = Absent THEN history
                     ELSE history \cup {Archived(r)}

(* commit_or_409: the commit returns, and the payload has been used.       *)
Commit(r) ==
    /\ status[r] = "loaded"
    /\ Apply(r)
    /\ Goto(r, IF Deletes(r) THEN "ok" ELSE "committed")
    /\ request' = [request EXCEPT ![r].contents = NoContents]
    /\ UNCHANGED <<created, decisions>>

(* IntegrityError or StaleDataError.                                       *)
Stale(r) ==
    /\ status[r] = "loaded"
    /\ ~Current(r)
    /\ Refuse(r, "conflict")
    /\ UNCHANGED <<docs, created, history, decisions>>

(* The database, or the process, fails before the commit takes effect ...  *)
CommitFails(r) ==
    /\ status[r] = "loaded"
    /\ Refuse(r, "unavailable")
    /\ UNCHANGED <<docs, created, history, decisions>>

(* ... or after.                                                           *)
CommitUnacknowledged(r) ==
    /\ status[r] = "loaded"
    /\ Apply(r)
    /\ Refuse(r, "unavailable")
    /\ UNCHANGED <<created, decisions>>

(* db.refresh reads the row again for the answer; it raises when the row   *)
(* has been deleted meanwhile.                                             *)
Refresh(r) ==
    /\ status[r] = "committed"
    /\ Goto(r, IF Exists(request[r].doc) THEN "ok" ELSE "error")
    /\ UNCHANGED <<docs, created, history, request, decisions>>

-----------------------------------------------------------------------------
documents == <<docs, created, history, status, request>>

Reach(n, step) == stage' = [stage EXCEPT ![n] = step]

(* load_tenant_policies: one of the policies matches, or none.             *)
UsePolicy(n) ==
    /\ stage[n] = "policies"
    /\ \/ UNCHANGED used
       \/ \E p \in Policies :
            Exists(p) /\ used' = [used EXCEPT ![n][p] = docs[p]]
    /\ Reach(n, "workflow")
    /\ UNCHANGED <<documents, found>>

UseWorkflow(n) ==
    /\ stage[n] = "workflow"
    /\ used' = [used EXCEPT ![n][Workflow] = docs[Workflow]]
    /\ Reach(n, "log")
    /\ UNCHANGED <<documents, found>>

(* The decision is committed with ids and versions of what it used.        *)
Log(n) ==
    /\ stage[n] = "log"
    /\ Reach(n, "replay_workflow")
    /\ UNCHANGED <<documents, used, found>>

(* The versions the log refers to, and what the replay looks at next.      *)
Referred(n, D) == {d \in D : used[n][d] # Absent}

InRecord(d, version) == docs[d].version = version

InHistory(d, version) ==
    {h \in history : h.doc = d /\ h.version = version}

(* load_workflow_config_version and load_policy_version: the record, and   *)
(* in a second statement the history.                                      *)
ReadRecord(n, D, step, missed, next) ==
    /\ stage[n] = step
    /\ \/ Referred(n, D) = {} /\ Reach(n, next) /\ UNCHANGED found
       \/ \E d \in Referred(n, D) :
            \/ /\ InRecord(d, used[n][d].version)
               /\ found' = [found EXCEPT ![n][d] = docs[d]]
               /\ Reach(n, next)
            \/ /\ ~InRecord(d, used[n][d].version)
               /\ Reach(n, missed)
               /\ UNCHANGED found
    /\ UNCHANGED <<documents, used>>

(* .first() of the rows; without one the replay answers 409.               *)
ReadHistory(n, D, step, next) ==
    /\ stage[n] = step
    /\ \E d \in Referred(n, D) :
         LET rows == InHistory(d, used[n][d].version)
         IN IF rows = {} THEN Reach(n, "not_found") /\ UNCHANGED found
            ELSE \E h \in rows :
                   /\ found' = [found EXCEPT ![n][d] =
                        [version |-> h.version, contents |-> h.contents]]
                   /\ Reach(n, next)
    /\ UNCHANGED <<documents, used>>

ReplayWorkflow(n) ==
    \/ ReadRecord(n, {Workflow}, "replay_workflow", "old_workflow",
                  "replay_policy")
    \/ ReadHistory(n, {Workflow}, "old_workflow", "replay_policy")

ReplayPolicy(n) ==
    \/ ReadRecord(n, Policies, "replay_policy", "old_policy", "replayed")
    \/ ReadHistory(n, Policies, "old_policy", "replayed")

-----------------------------------------------------------------------------
Next ==
    \/ CreatePolicy
    \/ \E r \in Requests :
         \/ LoadUpdate(r) \/ LoadDelete(r) \/ LoadWorkflow(r)
         \/ Commit(r) \/ Stale(r) \/ CommitFails(r)
         \/ CommitUnacknowledged(r) \/ Refresh(r)
    \/ \E n \in Decisions :
         \/ UsePolicy(n) \/ UseWorkflow(n) \/ Log(n)
         \/ ReplayWorkflow(n) \/ ReplayPolicy(n)

Spec == Init /\ [][Next]_vars

-----------------------------------------------------------------------------
Stages ==
    {"policies", "workflow", "log", "replay_workflow", "old_workflow",
     "replay_policy", "old_policy", "replayed", "not_found"}

TypeOK ==
    /\ docs \in [Documents -> Row]
    /\ created \in Nat
    /\ history \subseteq Archive
    /\ status \in [Requests -> {"idle", "loaded", "committed"} \cup Answers]
    /\ request \in [Requests -> Request]
    /\ stage \in [Decisions -> Stages]
    /\ used \in [Decisions -> [Documents -> Row]]
    /\ found \in [Decisions -> [Documents -> Row]]

(* A replay finds every version its log refers to, with the contents that  *)
(* the decision used, though the document was changed or deleted while the *)
(* decision was made or between the two statements of the replay.          *)
ReplayFaithful ==
    \A n \in Decisions :
      /\ stage[n] # "not_found"
      /\ \A d \in Documents : found[n][d] \in {Absent, used[n][d]}

(* Every version of a document but the present one is in the history, once *)
(* and without a gap, however many requests change it at the same time.    *)
HistoryComplete ==
    /\ \A g, h \in history : g.doc = h.doc /\ g.version = h.version => g = h
    /\ \A h \in history :
         /\ Exists(h.doc) => h.version < docs[h.doc].version
         /\ h.version > 1 =>
              \E g \in history : g.doc = h.doc /\ g.version = h.version - 1
    /\ \A d \in Documents :
         docs[d].version > 1 =>
           \E h \in history : h.doc = d /\ h.version = docs[d].version - 1

(* No policy becomes valid after it has expired: not by two requests that  *)
(* move one end each, both right for the policy they have read.            *)
WindowOrdered ==
    \A p \in Policies : Exists(p) => Ordered(docs[p].contents)

(* An answer 200 means that this request, and at the version it expected,  *)
(* replaced or deleted the document; an answer 4xx means that it did not.  *)
(* (503 means neither, and 500 comes after the commit.)                    *)
AnswersHonest ==
    \A r \in Requests :
      LET q == request[r]
          mine == {h \in history : h.by = r}
      IN /\ status[r] \in {"ok", "error"} /\ q.base # Absent =>
              \E h \in mine :
                /\ h.doc = q.doc
                /\ h.contents = q.base.contents
                /\ q.expected # NULL => h.version = q.expected
         /\ status[r] \in {"conflict", "not_found", "invalid"} => mine = {}
=============================================================================
