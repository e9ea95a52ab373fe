------------------------ MODULE ConfigHistoryProofs ------------------------
(***************************************************************************)
(* Theorems about ConfigHistory, for every number of requests, decisions   *)
(* and policies, all windows and modes and every bound on the versions.    *)
(* One inductive invariant, in three parts: what the rows and the history  *)
(* say together, what a request may rely on of the row it has read, and    *)
(* what a decision may rely on of the versions it has used.                *)
(***************************************************************************)
EXTENDS ConfigHistory, TLAPS

(* The row is in the history.                                              *)
InArchive(d, row) ==
    \E h \in history :
      h.doc = d /\ h.version = row.version /\ h.contents = row.contents

(* What was read once is still the row, or it is in the history.           *)
Remembered(d, row) ==
    row = Absent \/ docs[d] = row \/ InArchive(d, row)

Whole(row) == row.version = 0 => row = Absent

(* A document that never existed: ids are handed out once, and a workflow  *)
(* configuration is never deleted.                                         *)
Unborn(d) == IF d = Workflow THEN ~Exists(d) ELSE d > created

(* A policy that exists has the contents of a policy.                      *)
PolicyShape ==
    \A p \in Policies : Exists(p) => docs[p].contents \in PolicyContents

DocumentsOK ==
    /\ \A d \in Documents : Whole(docs[d])
    /\ \A d \in Documents : Unborn(d) =>
         docs[d] = Absent /\ \A h \in history : h.doc # d
    /\ HistoryComplete
    /\ WindowOrdered
    /\ PolicyShape

(* A request that is about to commit.                                      *)
LoadedOK(r) ==
    status[r] = "loaded" =>
      LET q == request[r]
      IN /\ Remembered(q.doc, q.base)
         /\ Whole(q.base)
         /\ q.expected # NULL => q.base.version = q.expected
         /\ q.doc \in Policies =>
              /\ q.base # Absent
              /\ \/ q.contents = NoContents
                 \/ q.contents \in PolicyContents /\ Ordered(q.contents)
         /\ q.doc = Workflow => q.contents \in WorkflowContents

(* What a request has archived, by how it stands.                          *)
ArchivedOK(r) ==
    /\ status[r] \in {"idle", "loaded", "conflict", "not_found", "invalid"} =>
         \A h \in history : h.by # r
    /\ LET q == request[r]
       IN status[r] \in {"committed", "ok", "error"} /\ q.base # Absent =>
            /\ \E h \in history :
                 /\ h.by = r /\ h.doc = q.doc
                 /\ h.version = q.base.version /\ h.contents = q.base.contents
            /\ q.expected # NULL => q.base.version = q.expected

(* What a decision has used, and what its replay has found of it.          *)
UsedOK(n) ==
    /\ \A d \in Documents :
         /\ Remembered(d, used[n][d])
         /\ Whole(used[n][d])
         /\ found[n][d] \in {Absent, used[n][d]}
         /\ stage[n] \in {"policies", "workflow", "log"} =>
              found[n][d] = Absent
         /\ stage[n] = "policies" => used[n][d] = Absent
    /\ \A p, q \in Policies :
         used[n][p] # Absent /\ used[n][q] # Absent => p = q

(* A version that was not in the record is in the history.                 *)
MissedOK(n) ==
    /\ stage[n] # "not_found"
    /\ stage[n] = "old_workflow" =>
         \A d \in Referred(n, {Workflow}) : InArchive(d, used[n][d])
    /\ stage[n] = "old_policy" =>
         \A d \in Referred(n, Policies) : InArchive(d, used[n][d])

IInv ==
    /\ TypeOK
    /\ DocumentsOK
    /\ \A r \in Requests : LoadedOK(r) /\ ArchivedOK(r)
    /\ \A n \in Decisions : UsedOK(n) /\ MissedOK(n)

-----------------------------------------------------------------------------
(* The single facts that the assumption on the constants is cited for.     *)
LEMMA Constants ==
    /\ Policies \subseteq Nat \ {0}
    /\ Workflow \notin Policies
    /\ \A w \in NewWindows \cup Payloads : w \in PolicyContents /\ Ordered(w)
    /\ MaxVersion \in Nat
  BY HistoryAssumption DEF Windows

(* The row that is not there, and the contents that it has.                *)
LEMMA AbsentType ==
    /\ NoContents \in Contents
    /\ Absent \in Row /\ Absent.version = 0 /\ Absent.contents = NoContents
  BY DEF Absent, Row, Contents

(* No policy and no configuration has the contents of an absent row.       *)
LEMMA ContentsDiffer ==
    /\ NoContents \notin PolicyContents
    /\ NoContents \notin WorkflowContents
<1>1. DOMAIN NoContents = {}
  BY DEF NoContents
<1>2. \A w \in PolicyContents : DOMAIN w = {"valid_from", "expires_at"}
  BY DEF PolicyContents, PolicyColumns
<1>3. \A w \in WorkflowContents : DOMAIN w = {"execution_mode"}
  BY DEF WorkflowContents, WorkflowColumns
<1> QED
  BY <1>1, <1>2, <1>3

(* An update sets the columns of its payload and has a window again.       *)
LEMMA PatchedType ==
  ASSUME NEW old \in PolicyContents, NEW payload \in PolicyContents
  PROVE  Patched(old, payload) \in PolicyContents
  BY DEF Patched, PolicyContents

(* When the row is still what the request has read, the columns that it    *)
(* does not set are what it has read, too.                                 *)
LEMMA MergedIsNew ==
  ASSUME NEW old, NEW new \in Contents
  PROVE  Merged(old, old, new) = new
<1>1. new = [column \in DOMAIN new |-> new[column]]
  BY DEF Contents, PolicyContents, WorkflowContents, NoContents
<1> QED
  BY <1>1 DEF Merged

(* Everything holds at the start.                                          *)
LEMMA Start == Init => IInv
<1> SUFFICES ASSUME Init PROVE IInv
  OBVIOUS
<1>1. TypeOK
  <2>1. NoRequest \in Request
    BY AbsentType, Constants
    DEF NoRequest, Request, Documents, NULL, Expected
  <2> QED
    BY <2>1, AbsentType DEF Init, TypeOK, Stages
<1>2. \A d \in Documents : docs[d] = Absent /\ docs[d].version = 0
  BY AbsentType DEF Init
<1>3. DocumentsOK
  BY <1>2
  DEF Init, DocumentsOK, Whole, HistoryComplete, WindowOrdered,
      PolicyShape, Exists, Documents
<1>4. \A r \in Requests : LoadedOK(r) /\ ArchivedOK(r)
  BY DEF Init, LoadedOK, ArchivedOK
<1>5. \A n \in Decisions : UsedOK(n) /\ MissedOK(n)
  BY DEF Init, UsedOK, MissedOK, Remembered, Whole, Documents
<1> QED
  BY <1>1, <1>3, <1>4, <1>5 DEF IInv

-----------------------------------------------------------------------------
(* What the steps of one request or decision leave of the others.          *)

(* What is remembered stays so.                                            *)
NothingForgotten ==
    /\ history \subseteq history'
    /\ \A d \in Documents, row \in Row : Remembered(d, row) => Remembered(d, row)'

(* Rows and history that do not change forget nothing.                     *)
LEMMA UnchangedRemembers ==
  ASSUME docs' = docs, history' = history
  PROVE  NothingForgotten
  BY DEF NothingForgotten, Remembered, InArchive

(* The rows and the history together.                                      *)
LEMMA UnchangedDocuments ==
  ASSUME DocumentsOK, docs' = docs, history' = history, created' = created
  PROVE  DocumentsOK'
  BY DEF DocumentsOK, Whole, Unborn, HistoryComplete, WindowOrdered,
     PolicyShape, Exists

(* A request that takes no step.                                           *)
LEMMA OtherRequest ==
  ASSUME TypeOK, NothingForgotten, NEW s \in Requests,
         status'[s] = status[s], request'[s] = request[s],
         \A h \in history' : h \in history \/ h.by # s,
         LoadedOK(s), ArchivedOK(s)
  PROVE  LoadedOK(s)' /\ ArchivedOK(s)'
<1>1. request[s].doc \in Documents /\ request[s].base \in Row
  BY DEF TypeOK, Request
<1>2. LoadedOK(s)'
  BY <1>1 DEF NothingForgotten, LoadedOK, Whole
<1>3. ArchivedOK(s)'
  BY DEF NothingForgotten, ArchivedOK
<1> QED
  BY <1>2, <1>3

(* A decision that takes no step.                                          *)
LEMMA OtherDecision ==
  ASSUME TypeOK, NothingForgotten, NEW n \in Decisions,
         stage'[n] = stage[n], used'[n] = used[n], found'[n] = found[n],
         UsedOK(n), MissedOK(n)
  PROVE  UsedOK(n)' /\ MissedOK(n)'
<1>1. \A d \in Documents : used[n][d] \in Row
  BY DEF TypeOK
<1>2. UsedOK(n)'
  BY <1>1 DEF NothingForgotten, UsedOK, Whole
<1>3. \A d : InArchive(d, used[n][d]) => InArchive(d, used[n][d])'
  BY DEF NothingForgotten, InArchive
<1>4. MissedOK(n)'
  BY <1>3 DEF MissedOK, Referred, InArchive
<1> QED
  BY <1>2, <1>4

-----------------------------------------------------------------------------
(* A policy that is created takes an id that nothing refers to.            *)
LEMMA CreateRemembers ==
  ASSUME IInv, CreatePolicy
  PROVE  DocumentsOK' /\ NothingForgotten /\ docs' \in [Documents -> Row]
<1>1. PICK w \in NewWindows :
        docs' = [docs EXCEPT ![created + 1] = [version |-> 1, contents |-> w]]
  BY DEF CreatePolicy
<1> DEFINE p == created + 1
           new == [version |-> 1, contents |-> w]
<1>2. p \in Policies /\ p \in Documents /\ p # Workflow /\ created' = p
      /\ history' = history /\ created \in Nat
  BY Constants DEF CreatePolicy, Documents, IInv, TypeOK
<1>3. w \in PolicyContents /\ Ordered(w)
  BY Constants
<1>4. new \in Row /\ new.version = 1 /\ new.contents = w
  BY <1>3 DEF Row, Contents
<1>5. docs \in [Documents -> Row] /\ DocumentsOK
  BY DEF IInv, TypeOK
<1> HIDE DEF new
<1>6. docs' \in [Documents -> Row]
  BY <1>1, <1>4, <1>5 DEF new
<1>7. docs'[p] = new /\ \A d \in Documents : d # p => docs'[d] = docs[d]
  BY <1>1, <1>2, <1>5 DEF new
<1>8. docs[p] = Absent /\ \A h \in history : h.doc # p
  <2>1. Unborn(p)
    BY <1>2 DEF Unborn
  <2> QED
    BY <1>2, <1>5, <2>1 DEF DocumentsOK
<1>9. NothingForgotten
  BY <1>2, <1>7, <1>8 DEF NothingForgotten, Remembered, InArchive
<1>10. \A d \in Documents : Whole(docs[d])'
  BY <1>4, <1>5, <1>7 DEF DocumentsOK, Whole
<1>11. ASSUME NEW d \in Documents, Unborn(d)'
       PROVE  Unborn(d) /\ d # p
  <2>1. CASE d = Workflow
    BY <1>2, <1>7, <1>11, <2>1 DEF Unborn, Exists
  <2>2. CASE d # Workflow
    <3>1. d \in Nat /\ d > created + 1
      BY <1>2, <1>11, <2>2, Constants DEF Unborn, Documents
    <3> QED
      BY <1>2, <2>2, <3>1 DEF Unborn
  <2> QED
    BY <2>1, <2>2
<1>12. \A d \in Documents : Unborn(d)' =>
         docs'[d] = Absent /\ \A h \in history' : h.doc # d
  BY <1>2, <1>5, <1>7, <1>11 DEF DocumentsOK
<1>13. HistoryComplete'
  <2>1. HistoryComplete
    BY <1>5 DEF DocumentsOK
  <2>2. \A h \in history : h.doc \in Documents /\ h.doc # p
    BY <1>8 DEF IInv, TypeOK, Archive
  <2>3. \A h \in history' : Exists(h.doc)' => h.version < docs'[h.doc].version
    BY <1>2, <1>7, <2>1, <2>2 DEF HistoryComplete, Exists
  <2>4. \A d \in Documents :
          docs'[d].version > 1 =>
            \E h \in history' : h.doc = d /\ h.version = docs'[d].version - 1
    BY <1>2, <1>4, <1>7, <2>1 DEF HistoryComplete
  <2> QED
    BY <1>2, <2>1, <2>3, <2>4 DEF HistoryComplete
<1>14. WindowOrdered' /\ PolicyShape'
  BY <1>3, <1>4, <1>5, <1>7
  DEF DocumentsOK, WindowOrdered, PolicyShape, Exists, Documents
<1> QED
  BY <1>6, <1>9, <1>10, <1>12, <1>13, <1>14 DEF DocumentsOK

(* The creation of a policy keeps the invariant.                           *)
LEMMA CreateStep ==
  ASSUME IInv, CreatePolicy
  PROVE  IInv'
<1>1. UNCHANGED <<history, status, request, decisions>> /\ created' \in Nat
  BY DEF CreatePolicy, IInv, TypeOK
<1>2. TypeOK'
  BY <1>1, CreateRemembers DEF IInv, TypeOK, decisions
<1>3. \A r \in Requests : LoadedOK(r)' /\ ArchivedOK(r)'
  BY <1>1, CreateRemembers, OtherRequest DEF IInv
<1>4. \A n \in Decisions : UsedOK(n)' /\ MissedOK(n)'
  BY <1>1, CreateRemembers, OtherDecision DEF IInv, decisions
<1> QED
  BY <1>2, <1>3, <1>4, CreateRemembers DEF IInv

-----------------------------------------------------------------------------
(* A step of a request that changes no document: what remains to be shown. *)
LEMMA QuietRequest ==
  ASSUME IInv, NEW r \in Requests,
         UNCHANGED <<docs, created, history, decisions>>,
         \E to, q : /\ status' = [status EXCEPT ![r] = to]
                   /\ to \in {"idle", "loaded", "committed"} \cup Answers
                   /\ request' = [request EXCEPT ![r] = q] /\ q \in Request,
         LoadedOK(r)', ArchivedOK(r)'
  PROVE  IInv'
<1>1. /\ status' \in [Requests -> {"idle", "loaded", "committed"} \cup Answers]
      /\ request' \in [Requests -> Request]
      /\ \A s \in Requests : s # r => status'[s] = status[s]
                                     /\ request'[s] = request[s]
  BY DEF IInv, TypeOK
<1>2. TypeOK'
  BY <1>1 DEF IInv, TypeOK, decisions
<1>3. NothingForgotten /\ DocumentsOK'
  BY UnchangedRemembers, UnchangedDocuments DEF IInv
<1>4. \A s \in Requests : s # r => LoadedOK(s)' /\ ArchivedOK(s)'
  BY <1>1, <1>3, OtherRequest DEF IInv
<1>5. \A n \in Decisions : UsedOK(n)' /\ MissedOK(n)'
  BY <1>3, OtherDecision DEF IInv, decisions
<1> QED
  BY <1>2, <1>3, <1>4, <1>5 DEF IInv

(* A request is refused before it has archived anything.                   *)
LEMMA RefuseStep ==
  ASSUME IInv, NEW r \in Requests, status[r] \in {"idle", "loaded"},
         NEW answer \in Answers \ {"ok", "error"}, Refuse(r, answer),
         UNCHANGED <<docs, created, history, decisions>>
  PROVE  IInv'
<1>1. NoRequest \in Request
  BY AbsentType, Constants DEF NoRequest, Request, Documents, NULL, Expected
<1>2. status'[r] = answer
  BY DEF IInv, TypeOK, Refuse, Goto
<1>3. LoadedOK(r)'
  BY <1>2 DEF LoadedOK, Answers
<1>4. \A h \in history' : h.by # r
  BY DEF IInv, ArchivedOK
<1>5. ArchivedOK(r)'
  BY <1>2, <1>4 DEF ArchivedOK, Answers
<1> QED
  BY <1>1, <1>3, <1>5, QuietRequest DEF Refuse, Goto

(* A request has read a document, and what it may do with it.              *)
LEMMA LoadStep ==
  ASSUME IInv, NEW r \in Requests, status[r] = "idle",
         NEW d \in Documents, NEW expected \in Expected,
         NEW contents \in Contents, AsExpected(d, expected),
         Load(r, d, expected, contents),
         d \in Policies => /\ docs[d] # Absent
                          /\ \/ contents = NoContents
                             \/ /\ contents \in PolicyContents
                                /\ Ordered(contents),
         d = Workflow => contents \in WorkflowContents,
         UNCHANGED <<docs, created, history, decisions>>
  PROVE  IInv'
<1> DEFINE q == [doc |-> d, expected |-> expected, base |-> docs[d],
                 contents |-> contents]
<1>1. docs[d] \in Row /\ Whole(docs[d])
  BY DEF IInv, TypeOK, DocumentsOK
<1>2. q \in Request
  BY <1>1 DEF Request
<1>3. status'[r] = "loaded" /\ request'[r] = q
  BY DEF IInv, TypeOK, Load, Goto
<1>4. /\ q.doc = d /\ q.expected = expected /\ q.base = docs[d]
      /\ q.contents = contents
  OBVIOUS
<1> HIDE DEF q
<1>5. LoadedOK(r)'
  BY <1>1, <1>3, <1>4 DEF LoadedOK, Remembered, Whole, AsExpected
<1>6. \A h \in history' : h.by # r
  BY DEF IInv, ArchivedOK
<1>7. ArchivedOK(r)'
  BY <1>3, <1>6 DEF ArchivedOK
<1> QED
  BY <1>2, <1>5, <1>7, QuietRequest DEF Load, Goto, q

(* An update that is refused or has read its policy.                       *)
LEMMA LoadUpdateStep ==
  ASSUME IInv, NEW r \in Requests, LoadUpdate(r)
  PROVE  IInv'
<1>1. PICK p \in Policies, expected \in Expected, payload \in Payloads :
        \/ \E answer \in {"not_found", "conflict", "invalid"} : Refuse(r, answer)
        \/ /\ Exists(p) /\ AsExpected(p, expected)
           /\ Ordered(Patched(docs[p].contents, payload))
           /\ Load(r, p, expected, Patched(docs[p].contents, payload))
  BY DEF LoadUpdate
<1>2. status[r] = "idle" /\ UNCHANGED <<docs, created, history, decisions>>
  BY DEF LoadUpdate
<1>3. CASE \E answer \in {"not_found", "conflict", "invalid"} :
             Refuse(r, answer)
  BY <1>2, <1>3, RefuseStep DEF Answers
<1>4. CASE /\ Exists(p) /\ AsExpected(p, expected)
           /\ Ordered(Patched(docs[p].contents, payload))
           /\ Load(r, p, expected, Patched(docs[p].contents, payload))
  <2>1. PICK edited : edited = Patched(docs[p].contents, payload)
    OBVIOUS
  <2>2. edited \in PolicyContents /\ Ordered(edited)
    BY <1>4, <2>1, PatchedType, Constants
    DEF IInv, DocumentsOK, PolicyShape
  <2>3. docs[p] # Absent /\ p \in Documents /\ p # Workflow
    BY <1>4, AbsentType, Constants DEF Exists, Documents
  <2>4. Load(r, p, expected, edited) /\ edited \in Contents
    BY <1>4, <2>1, <2>2 DEF Contents
  <2> QED
    BY <1>2, <1>4, <2>2, <2>3, <2>4, LoadStep
<1> QED
  BY <1>1, <1>3, <1>4

(* A deletion that is refused or has read its policy.                      *)
LEMMA LoadDeleteStep ==
  ASSUME IInv, NEW r \in Requests, LoadDelete(r)
  PROVE  IInv'
<1>1. PICK p \in Policies, expected \in Expected :
        \/ \E answer \in {"not_found", "conflict"} : Refuse(r, answer)
        \/ /\ Exists(p) /\ AsExpected(p, expected)
           /\ Load(r, p, expected, NoContents)
  BY DEF LoadDelete
<1>2. status[r] = "idle" /\ UNCHANGED <<docs, created, history, decisions>>
  BY DEF LoadDelete
<1>3. CASE \E answer \in {"not_found", "conflict"} : Refuse(r, answer)
  BY <1>2, <1>3, RefuseStep DEF Answers
<1>4. CASE /\ Exists(p) /\ AsExpected(p, expected)
           /\ Load(r, p, expected, NoContents)
  <2>1. docs[p] # Absent /\ p \in Documents /\ p # Workflow
    BY <1>4, AbsentType, Constants DEF Exists, Documents
  <2> QED
    BY <1>2, <1>4, <2>1, AbsentType, LoadStep
<1> QED
  BY <1>1, <1>3, <1>4

(* A change of the workflow configuration that is refused or has read it.  *)
LEMMA LoadWorkflowStep ==
  ASSUME IInv, NEW r \in Requests, LoadWorkflow(r)
  PROVE  IInv'
<1>1. PICK expected \in Expected :
        \/ Refuse(r, "conflict")
        \/ /\ AsExpected(Workflow, expected)
           /\ \E contents \in WorkflowContents :
                Load(r, Workflow, expected, contents)
  BY DEF LoadWorkflow
<1>2. status[r] = "idle" /\ UNCHANGED <<docs, created, history, decisions>>
  BY DEF LoadWorkflow
<1>3. CASE Refuse(r, "conflict")
  BY <1>2, <1>3, RefuseStep DEF Answers
<1>4. ASSUME AsExpected(Workflow, expected), NEW contents \in WorkflowContents,
             Load(r, Workflow, expected, contents)
      PROVE  IInv'
  <2>1. Workflow \in Documents /\ Workflow \notin Policies
        /\ contents \in Contents
    BY Constants DEF Documents, Contents
  <2> QED
    BY <1>2, <1>4, <2>1, LoadStep
<1> QED
  BY <1>1, <1>3, <1>4

-----------------------------------------------------------------------------
(* The versions agree: the row is what the request has read, all of it,    *)
(* since an old version of a row that exists is below the present one.     *)
LEMMA CurrentIsBase ==
  ASSUME IInv, NEW r \in Requests, status[r] = "loaded", Current(r)
  PROVE  docs[request[r].doc] = request[r].base
<1> DEFINE d == request[r].doc
           b == request[r].base
<1>1. d \in Documents /\ b \in Row
  BY DEF IInv, TypeOK, Request
<1>2. Whole(docs[d]) /\ Whole(b) /\ Remembered(d, b) /\ HistoryComplete
  BY <1>1 DEF IInv, DocumentsOK, LoadedOK
<1>3. docs[d].version = b.version /\ b.version \in Nat
  BY <1>1 DEF Current, Row
<1>4. ~Exists(d) => docs[d] = b
  BY <1>2, <1>3 DEF Exists, Whole
<1>5. ASSUME Exists(d) PROVE ~InArchive(d, b) /\ b # Absent
  BY <1>2, <1>3, <1>5, AbsentType DEF HistoryComplete, InArchive, Exists
<1> QED
  BY <1>2, <1>4, <1>5 DEF Remembered

(* What the one transaction of a request does.                             *)
Becomes(r) ==
    IF Deletes(r) THEN Absent
    ELSE [version |-> request[r].base.version + 1,
          contents |-> request[r].contents]

(* The row becomes what the request has made of what it has read.          *)
LEMMA ApplyDoes ==
  ASSUME IInv, NEW r \in Requests, status[r] = "loaded", Apply(r)
  PROVE  /\ docs[request[r].doc] = request[r].base
         /\ docs' = [docs EXCEPT ![request[r].doc] = Becomes(r)]
         /\ Becomes(r) \in Row
         /\ history' = IF request[r].base = Absent THEN history
                       ELSE history \cup {Archived(r)}
<1> DEFINE q == request[r]
<1>1. Current(r)
  BY DEF Apply
<1>2. docs[q.doc] = q.base
  BY <1>1, CurrentIsBase
<1>3. q \in Request /\ q.base \in Row /\ q.contents \in Contents
  BY DEF IInv, TypeOK, Request
<1>4. Merged(docs[q.doc].contents, q.base.contents, q.contents) = q.contents
  BY <1>2, <1>3, MergedIsNew
<1>5. docs' = [docs EXCEPT ![q.doc] = Becomes(r)]
  BY <1>4 DEF Apply, Becomes
<1>6. Becomes(r) \in Row
  BY <1>3, AbsentType DEF Becomes, Row
<1> QED
  BY <1>2, <1>5, <1>6 DEF Apply

(* The same in terms of one document, the row before and the row after.    *)
LEMMA ApplyFacts ==
  ASSUME IInv, NEW r \in Requests, status[r] = "loaded", Apply(r)
  PROVE  \E d \in Documents, b \in Row, new \in Row :
           /\ d = request[r].doc /\ b = request[r].base
           /\ docs[d] = b /\ docs'[d] = new
           /\ docs' \in [Documents -> Row]
           /\ \A e \in Documents : e # d => docs'[e] = docs[e]
           /\ new # Absent => new.version = b.version + 1
           /\ new # Absent /\ d \in Policies =>
                new.contents \in PolicyContents /\ Ordered(new.contents)
           /\ d \in Policies => b # Absent
           /\ d = Workflow => new # Absent
           /\ Whole(b)
           /\ Archived(r) \in Archive
           /\ Archived(r).doc = d /\ Archived(r).version = b.version
           /\ Archived(r).contents = b.contents /\ Archived(r).by = r
           /\ history' = IF b = Absent THEN history
                         ELSE history \cup {Archived(r)}
<1> DEFINE q == request[r]
<1>1. /\ q.doc \in Documents /\ q.base \in Row /\ q.contents \in Contents
      /\ q.base.version \in Nat /\ q.base.contents \in Contents
  BY DEF IInv, TypeOK, Request, Row
<1>2. docs \in [Documents -> Row]
  BY DEF IInv, TypeOK
<1>3. /\ docs[q.doc] = q.base
      /\ docs' = [docs EXCEPT ![q.doc] = Becomes(r)]
      /\ Becomes(r) \in Row
      /\ history' = IF q.base = Absent THEN history
                    ELSE history \cup {Archived(r)}
  BY ApplyDoes
<1>4. /\ docs' \in [Documents -> Row] /\ docs'[q.doc] = Becomes(r)
      /\ \A e \in Documents : e # q.doc => docs'[e] = docs[e]
  BY <1>1, <1>2, <1>3
<1>5. /\ q.doc \in Policies =>
           /\ q.base # Absent
           /\ \/ q.contents = NoContents
              \/ q.contents \in PolicyContents /\ Ordered(q.contents)
      /\ q.doc = Workflow => q.contents \in WorkflowContents
      /\ Whole(q.base)
  BY DEF IInv, LoadedOK
<1>6. Deletes(r) <=> q.contents = NoContents
  BY DEF Deletes
<1>7. Deletes(r) => Becomes(r) = Absent
  BY DEF Becomes
<1>8. /\ Becomes(r) # Absent => Becomes(r).version = q.base.version + 1
      /\ Becomes(r) # Absent /\ q.doc \in Policies =>
           Becomes(r).contents \in PolicyContents /\ Ordered(Becomes(r).contents)
      /\ q.doc = Workflow => Becomes(r) # Absent
  <2>1. CASE Deletes(r)
    BY <1>5, <1>6, <1>7, <2>1, ContentsDiffer
  <2>2. CASE ~Deletes(r)
    <3>1. Becomes(r).version = q.base.version + 1
          /\ Becomes(r).contents = q.contents
      BY <2>2 DEF Becomes
    <3>2. Becomes(r) # Absent
      BY <1>1, <3>1, AbsentType
    <3> QED
      BY <1>5, <1>6, <2>2, <3>1, <3>2
  <2> QED
    BY <2>1, <2>2
<1>9. /\ Archived(r) \in Archive
      /\ Archived(r).doc = q.doc /\ Archived(r).version = q.base.version
      /\ Archived(r).contents = q.base.contents /\ Archived(r).by = r
  BY <1>1 DEF Archived, Archive
<1> HIDE DEF q
<1> QED
  BY <1>1, <1>3, <1>4, <1>5, <1>8, <1>9 DEF q

(* The transaction forgets nothing: what it replaces it has archived.      *)
LEMMA ApplyRemembers ==
  ASSUME IInv, NEW r \in Requests, status[r] = "loaded", Apply(r)
  PROVE  NothingForgotten
<1>1. PICK d \in Documents, b \in Row :
        /\ docs[d] = b /\ \A e \in Documents : e # d => docs'[e] = docs[e]
        /\ Archived(r).doc = d /\ Archived(r).version = b.version
        /\ Archived(r).contents = b.contents
        /\ history' = IF b = Absent THEN history
                      ELSE history \cup {Archived(r)}
  BY ApplyFacts
<1>2. history \subseteq history'
  BY <1>1
<1>3. ASSUME NEW e \in Documents, NEW row \in Row, Remembered(e, row)
      PROVE  Remembered(e, row)'
  <2>1. CASE InArchive(e, row)
    BY <1>2, <2>1 DEF Remembered, InArchive
  <2>2. CASE docs[e] = row /\ e # d
    BY <1>1, <2>2 DEF Remembered
  <2>3. CASE docs[e] = row /\ e = d /\ b # Absent
    BY <1>1, <2>3 DEF Remembered, InArchive
  <2>4. CASE row = Absent
    BY <2>4 DEF Remembered
  <2> QED
    BY <1>1, <1>3, <2>1, <2>2, <2>3, <2>4 DEF Remembered
<1> QED
  BY <1>2, <1>3 DEF NothingForgotten

(* The transaction keeps the rows and the history in agreement.            *)
LEMMA ApplyKeepsDocuments ==
  ASSUME IInv, NEW r \in Requests, status[r] = "loaded", Apply(r),
         created' = created
  PROVE  DocumentsOK'
<1>1. PICK d \in Documents, b \in Row, new \in Row :
        /\ docs[d] = b /\ docs'[d] = new
        /\ \A e \in Documents : e # d => docs'[e] = docs[e]
        /\ new # Absent => new.version = b.version + 1
        /\ new # Absent /\ d \in Policies =>
             new.contents \in PolicyContents /\ Ordered(new.contents)
        /\ d \in Policies => b # Absent
        /\ d = Workflow => new # Absent
        /\ Whole(b)
        /\ Archived(r) \in Archive
        /\ Archived(r).doc = d /\ Archived(r).version = b.version
        /\ history' = IF b = Absent THEN history
                      ELSE history \cup {Archived(r)}
  BY ApplyFacts
<1> DEFINE a == Archived(r)
<1>2. /\ DocumentsOK /\ HistoryComplete /\ history \subseteq Archive
      /\ b.version \in Nat /\ \A e \in Documents : docs[e].version \in Nat
  BY DEF IInv, TypeOK, DocumentsOK, Row
<1>3. /\ b # Absent <=> b.version > 0
      /\ new = Absent => new.version = 0
      /\ new # Absent => new.version > 0
  BY <1>1, <1>2, AbsentType DEF Whole
<1>4. \A h \in history : h.doc = d => b # Absent
  <2>1. d = Workflow /\ b = Absent => Unborn(d)
    BY <1>1, <1>3 DEF Unborn, Exists
  <2>2. d \in Policies \/ d = Workflow
    BY DEF Documents
  <2> QED
    BY <1>1, <1>2, <2>1, <2>2 DEF DocumentsOK
<1>5. \A h \in history : h.doc = d => h.version < b.version
  BY <1>1, <1>2, <1>3, <1>4 DEF HistoryComplete, Exists
<1>6. b # Absent /\ b.version > 1 =>
        \E h \in history : h.doc = d /\ h.version = b.version - 1
  BY <1>1, <1>2 DEF HistoryComplete
<1>7. \A h \in history : h.version \in Nat /\ h.doc \in Documents
  BY <1>2 DEF Archive
<1> HIDE DEF a
<1>8. a.doc = d /\ a.version = b.version
      /\ history' = IF b = Absent THEN history ELSE history \cup {a}
  BY <1>1 DEF a
<1>9. HistoryComplete'
  <2>1. \A g, h \in history' : g.doc = h.doc /\ g.version = h.version => g = h
    BY <1>2, <1>5, <1>7, <1>8 DEF HistoryComplete
  <2>2. ASSUME NEW h \in history', Exists(h.doc)'
        PROVE  h.version < docs'[h.doc].version
    <3>1. CASE h.doc = d
      <4>1. docs'[d].version = b.version + 1
        BY <1>1, <1>3, <2>2, <3>1 DEF Exists
      <4> QED
        BY <1>2, <1>5, <1>7, <1>8, <3>1, <4>1
    <3>2. CASE h.doc # d
      <4>1. h \in history /\ docs'[h.doc] = docs[h.doc]
        BY <1>1, <1>7, <1>8, <3>2
      <4> QED
        BY <1>2, <2>2, <4>1 DEF HistoryComplete, Exists
    <3> QED
      BY <3>1, <3>2
  <2>3. \A h \in history' : h.version > 1 =>
          \E g \in history' : g.doc = h.doc /\ g.version = h.version - 1
    BY <1>2, <1>6, <1>8 DEF HistoryComplete
  <2>4. ASSUME NEW e \in Documents, docs'[e].version > 1
        PROVE  \E h \in history' : h.doc = e /\ h.version = docs'[e].version - 1
    <3>1. CASE e = d
      <4>1. new.version = b.version + 1 /\ b # Absent
        BY <1>1, <1>2, <1>3, <2>4, <3>1
      <4> QED
        BY <1>1, <1>2, <1>8, <3>1, <4>1
    <3>2. CASE e # d
      <4>1. history \subseteq history' /\ docs'[e] = docs[e]
        BY <1>1, <1>8, <3>2
      <4> QED
        BY <1>2, <2>4, <4>1 DEF HistoryComplete
    <3> QED
      BY <3>1, <3>2
  <2> QED
    BY <2>1, <2>2, <2>3, <2>4 DEF HistoryComplete
<1>10. \A e \in Documents : Whole(docs[e])'
  BY <1>1, <1>2, <1>3 DEF DocumentsOK, Whole
<1>11. ASSUME NEW e \in Documents, Unborn(e)'
       PROVE  docs'[e] = Absent /\ \A h \in history' : h.doc # e
  <2>1. CASE e = d
    <3>1. d \in Policies
      BY <1>1, <1>3, <1>11, <2>1 DEF Unborn, Exists, Documents
    <3>2. Unborn(d)
      BY <1>11, <2>1, <3>1, Constants DEF Unborn
    <3> QED
      BY <1>1, <1>2, <3>1, <3>2 DEF DocumentsOK
  <2>2. CASE e # d
    <3>1. Unborn(e)
      BY <1>1, <1>11, <2>2 DEF Unborn, Exists
    <3> QED
      BY <1>1, <1>2, <1>8, <2>2, <3>1 DEF DocumentsOK
  <2> QED
    BY <2>1, <2>2
<1>12. WindowOrdered' /\ PolicyShape'
  BY <1>1, <1>2, <1>3
  DEF DocumentsOK, WindowOrdered, PolicyShape, Exists, Documents
<1> QED
  BY <1>9, <1>10, <1>11, <1>12 DEF DocumentsOK

(* A transaction that takes effect: what remains to be shown.              *)
LEMMA ApplyStep ==
  ASSUME IInv, NEW r \in Requests, status[r] = "loaded", Apply(r),
         UNCHANGED <<created, decisions>>,
         \E to, q : /\ status' = [status EXCEPT ![r] = to]
                   /\ to \in {"idle", "loaded", "committed"} \cup Answers
                   /\ request' = [request EXCEPT ![r] = q] /\ q \in Request,
         LoadedOK(r)', ArchivedOK(r)'
  PROVE  IInv'
<1>1. /\ status' \in [Requests -> {"idle", "loaded", "committed"} \cup Answers]
      /\ request' \in [Requests -> Request]
      /\ \A s \in Requests : s # r => status'[s] = status[s]
                                     /\ request'[s] = request[s]
  BY DEF IInv, TypeOK
<1>2. /\ docs' \in [Documents -> Row]
      /\ Archived(r) \in Archive /\ Archived(r).by = r
      /\ history' \subseteq history \cup {Archived(r)}
  BY ApplyFacts
<1>3. TypeOK'
  BY <1>1, <1>2 DEF IInv, TypeOK, decisions
<1>4. NothingForgotten /\ DocumentsOK'
  BY ApplyRemembers, ApplyKeepsDocuments
<1>5. \A s \in Requests : s # r => LoadedOK(s)' /\ ArchivedOK(s)'
  BY <1>1, <1>2, <1>4, OtherRequest DEF IInv
<1>6. \A n \in Decisions : UsedOK(n)' /\ MissedOK(n)'
  BY <1>4, OtherDecision DEF IInv, decisions
<1> QED
  BY <1>3, <1>4, <1>5, <1>6 DEF IInv

(* A commit that is acknowledged.                                          *)
LEMMA CommitStep ==
  ASSUME IInv, NEW r \in Requests, Commit(r)
  PROVE  IInv'
<1>1. PICK to \in {"ok", "committed"} : status' = [status EXCEPT ![r] = to]
  BY DEF Commit, Goto
<1>2. PICK q : q = [request[r] EXCEPT !.contents = NoContents]
  OBVIOUS
<1>3. /\ status[r] = "loaded" /\ Apply(r) /\ UNCHANGED <<created, decisions>>
      /\ request' = [request EXCEPT ![r] = q]
  BY <1>2 DEF Commit
<1>4. request[r] \in Request
  BY DEF IInv, TypeOK
<1>5. /\ q \in Request /\ q.doc = request[r].doc
      /\ q.base = request[r].base /\ q.expected = request[r].expected
  BY <1>2, <1>4, AbsentType DEF Request
<1>6. status'[r] = to /\ request'[r] = q
  BY <1>1, <1>3 DEF IInv, TypeOK
<1>7. LoadedOK(r)'
  BY <1>6 DEF LoadedOK
<1>8. request[r].base # Absent =>
        \E h \in history' : /\ h.by = r /\ h.doc = request[r].doc
                            /\ h.version = request[r].base.version
                            /\ h.contents = request[r].base.contents
  BY <1>3, ApplyFacts
<1>9. q.expected # NULL => q.base.version = q.expected
  BY <1>3, <1>5 DEF IInv, LoadedOK
<1>10. ArchivedOK(r)'
  BY <1>5, <1>6, <1>8, <1>9 DEF ArchivedOK
<1> QED
  BY <1>1, <1>3, <1>5, <1>7, <1>10, ApplyStep DEF Answers

(* A commit that took effect and is answered 503.                          *)
LEMMA CommitUnacknowledgedStep ==
  ASSUME IInv, NEW r \in Requests, CommitUnacknowledged(r)
  PROVE  IInv'
<1>1. /\ status[r] = "loaded" /\ Apply(r) /\ UNCHANGED <<created, decisions>>
      /\ status' = [status EXCEPT ![r] = "unavailable"]
      /\ request' = [request EXCEPT ![r] = NoRequest]
  BY DEF CommitUnacknowledged, Refuse, Goto
<1>2. NoRequest \in Request
  BY AbsentType, Constants DEF NoRequest, Request, Documents, NULL, Expected
<1>3. status'[r] = "unavailable"
  BY <1>1 DEF IInv, TypeOK
<1>4. LoadedOK(r)' /\ ArchivedOK(r)'
  BY <1>3 DEF LoadedOK, ArchivedOK
<1> QED
  BY <1>1, <1>2, <1>4, ApplyStep DEF Answers

(* The row is read again for the answer.                                   *)
LEMMA RefreshStep ==
  ASSUME IInv, NEW r \in Requests, Refresh(r)
  PROVE  IInv'
<1>1. PICK to \in {"ok", "error"} : status' = [status EXCEPT ![r] = to]
  BY DEF Refresh, Goto
<1>2. /\ status[r] = "committed" /\ request' = request
      /\ UNCHANGED <<docs, created, history, decisions>>
  BY DEF Refresh
<1>3. request' = [request EXCEPT ![r] = request[r]] /\ request[r] \in Request
  BY <1>2 DEF IInv, TypeOK
<1>4. status'[r] = to
  BY <1>1 DEF IInv, TypeOK
<1>5. LoadedOK(r)'
  BY <1>4 DEF LoadedOK
<1>6. ArchivedOK(r)'
  BY <1>2, <1>4 DEF IInv, ArchivedOK
<1> QED
  BY <1>1, <1>2, <1>3, <1>5, <1>6, QuietRequest DEF Answers

(* Every step of a request keeps the invariant.                            *)
LEMMA RequestStep ==
  ASSUME IInv, NEW r \in Requests,
         \/ LoadUpdate(r) \/ LoadDelete(r) \/ LoadWorkflow(r)
         \/ Commit(r) \/ Stale(r) \/ CommitFails(r)
         \/ CommitUnacknowledged(r) \/ Refresh(r)
  PROVE  IInv'
<1>1. CASE Stale(r) \/ CommitFails(r)
  BY <1>1, RefuseStep DEF Stale, CommitFails, Answers
<1> QED
  BY <1>1, LoadUpdateStep, LoadDeleteStep, LoadWorkflowStep, CommitStep,
     CommitUnacknowledgedStep, RefreshStep

-----------------------------------------------------------------------------
(* What one decision has taken or found of one document is replaced.       *)
LEMMA EditedTable ==
  ASSUME NEW f \in [Decisions -> [Documents -> Row]],
         NEW n \in Decisions, NEW d \in Documents, NEW row \in Row
  PROVE  [f EXCEPT ![n][d] = row] \in [Decisions -> [Documents -> Row]]
<1>1. [f[n] EXCEPT ![d] = row] \in [Documents -> Row]
  OBVIOUS
<1> QED
  BY <1>1

(* A step of a decision or of its replay: what remains to be shown.        *)
LEMMA QuietDecision ==
  ASSUME IInv, NEW n \in Decisions, UNCHANGED documents,
         \E to \in Stages : stage' = [stage EXCEPT ![n] = to],
         \/ used' = used
         \/ \E d \in Documents : used' = [used EXCEPT ![n][d] = docs[d]],
         \/ found' = found
         \/ \E d \in Documents, row \in Row :
              found' = [found EXCEPT ![n][d] = row],
         UsedOK(n)', MissedOK(n)'
  PROVE  IInv'
<1>1. stage' \in [Decisions -> Stages]
  BY DEF IInv, TypeOK
<1>2. used' \in [Decisions -> [Documents -> Row]]
  <2>1. /\ used \in [Decisions -> [Documents -> Row]]
        /\ \A d \in Documents : docs[d] \in Row
    BY DEF IInv, TypeOK
  <2>2. ASSUME NEW d \in Documents, used' = [used EXCEPT ![n][d] = docs[d]]
        PROVE  used' \in [Decisions -> [Documents -> Row]]
    <3>1. PICK row \in Row : row = docs[d]
      BY <2>1
    <3> QED
      BY <2>1, <2>2, <3>1, EditedTable
  <2> QED
    BY <2>1, <2>2
<1>3. found' \in [Decisions -> [Documents -> Row]]
  <2>1. found \in [Decisions -> [Documents -> Row]]
    BY DEF IInv, TypeOK
  <2>2. ASSUME NEW d \in Documents, NEW row \in Row,
               found' = [found EXCEPT ![n][d] = row]
        PROVE  found' \in [Decisions -> [Documents -> Row]]
    BY <2>1, <2>2, EditedTable
  <2> QED
    BY <2>1, <2>2
<1>4. TypeOK'
  BY <1>1, <1>2, <1>3 DEF IInv, TypeOK, documents
<1>5. NothingForgotten /\ DocumentsOK'
  BY UnchangedRemembers, UnchangedDocuments DEF IInv, documents
<1>6. \A r \in Requests : LoadedOK(r)' /\ ArchivedOK(r)'
  BY <1>5, OtherRequest DEF IInv, documents
<1>7. \A m \in Decisions : m # n => /\ stage'[m] = stage[m]
                                    /\ used'[m] = used[m]
                                    /\ found'[m] = found[m]
  BY DEF IInv, TypeOK
<1>8. \A m \in Decisions : m # n => UsedOK(m)' /\ MissedOK(m)'
  BY <1>5, <1>7, OtherDecision DEF IInv
<1> QED
  BY <1>4, <1>5, <1>6, <1>8 DEF IInv

(* What a decision takes is a row as it is.                                *)
LEMMA UseStep ==
  ASSUME IInv, NEW n \in Decisions, NEW d \in Documents,
         NEW to \in {"workflow", "log"},
         stage[n] \in {"policies", "workflow"},
         d \in Policies => stage[n] = "policies",
         stage' = [stage EXCEPT ![n] = to],
         used' = [used EXCEPT ![n][d] = docs[d]],
         UNCHANGED <<documents, found>>
  PROVE  IInv'
<1>1. stage'[n] = to
  BY DEF IInv, TypeOK
<1>2. /\ used'[n][d] = docs[d]
      /\ \A e \in Documents : e # d => used'[n][e] = used[n][e]
  BY DEF IInv, TypeOK
<1>3. Whole(docs[d]) /\ docs' = docs /\ history' = history
      /\ UsedOK(n) /\ found' = found
  BY DEF IInv, DocumentsOK, documents
<1>4. \A e \in Documents : found[n][e] = Absent
  BY <1>3 DEF UsedOK
<1>5. \A e \in Documents : Remembered(e, used'[n][e])
  BY <1>2, <1>3 DEF UsedOK, Remembered
<1>6. \A e \in Documents : Remembered(e, used[n][e])'
  BY <1>3, <1>5 DEF Remembered, InArchive
<1>7. \A e \in Documents : Whole(used[n][e])'
  BY <1>2, <1>3 DEF UsedOK, Whole
<1>8. \A p, q \in Policies :
        used'[n][p] # Absent /\ used'[n][q] # Absent => p = q
  BY <1>2, <1>3 DEF UsedOK, Documents
<1>9. UsedOK(n)'
  BY <1>1, <1>3, <1>4, <1>6, <1>7, <1>8 DEF UsedOK
<1>10. MissedOK(n)'
  BY <1>1 DEF MissedOK
<1> QED
  BY <1>9, <1>10, QuietDecision DEF Stages

(* A decision takes one of the policies, or none.                          *)
LEMMA UsePolicyStep ==
  ASSUME IInv, NEW n \in Decisions, UsePolicy(n)
  PROVE  IInv'
<1>1. /\ stage[n] = "policies" /\ UNCHANGED <<documents, found>>
      /\ stage' = [stage EXCEPT ![n] = "workflow"]
  BY DEF UsePolicy, Reach
<1>2. CASE used' = used
  <2>1. stage'[n] = "workflow"
    BY <1>1 DEF IInv, TypeOK
  <2>2. UsedOK(n) /\ docs' = docs /\ history' = history /\ found' = found
    BY <1>1 DEF IInv, documents
  <2>3. UsedOK(n)'
    BY <1>1, <1>2, <2>1, <2>2 DEF UsedOK, Whole, Remembered, InArchive
  <2>4. MissedOK(n)'
    BY <2>1 DEF MissedOK
  <2> QED
    BY <1>1, <1>2, <2>3, <2>4, QuietDecision DEF Stages
<1>3. CASE \E p \in Policies : used' = [used EXCEPT ![n][p] = docs[p]]
  BY <1>1, <1>3, UseStep DEF Documents
<1> QED
  BY <1>2, <1>3 DEF UsePolicy

(* A decision takes the workflow configuration.                            *)
LEMMA UseWorkflowStep ==
  ASSUME IInv, NEW n \in Decisions, UseWorkflow(n)
  PROVE  IInv'
<1>1. Workflow \in Documents /\ Workflow \notin Policies
  BY Constants DEF Documents
<1> QED
  BY <1>1, UseStep DEF UseWorkflow, Reach

(* A decision is logged.                                                   *)
LEMMA LogStep ==
  ASSUME IInv, NEW n \in Decisions, Log(n)
  PROVE  IInv'
<1>1. /\ UNCHANGED <<documents, used, found>>
      /\ stage' = [stage EXCEPT ![n] = "replay_workflow"]
  BY DEF Log, Reach
<1>2. stage'[n] = "replay_workflow"
  BY <1>1 DEF IInv, TypeOK
<1>3. UsedOK(n) /\ docs' = docs /\ history' = history
  BY <1>1 DEF IInv, documents
<1>4. UsedOK(n)'
  BY <1>1, <1>2, <1>3 DEF UsedOK, Whole, Remembered, InArchive
<1>5. MissedOK(n)'
  BY <1>2 DEF MissedOK
<1> QED
  BY <1>1, <1>4, <1>5, QuietDecision DEF Stages

(* The version that is looked up, when the record is still at it or has    *)
(* it in the history: it is what the decision has used.                    *)
LEMMA LookedUp ==
  ASSUME IInv, NEW n \in Decisions, NEW d \in Documents,
         used[n][d] # Absent
  PROVE  /\ InRecord(d, used[n][d].version) => docs[d] = used[n][d]
         /\ ~InRecord(d, used[n][d].version) => InArchive(d, used[n][d])
         /\ \A h \in InHistory(d, used[n][d].version) :
              InArchive(d, used[n][d]) =>
                [version |-> h.version, contents |-> h.contents] = used[n][d]
<1>1. /\ used[n][d] \in Row /\ docs[d] \in Row /\ history \subseteq Archive
      /\ Whole(docs[d]) /\ Whole(used[n][d])
      /\ Remembered(d, used[n][d]) /\ HistoryComplete
  BY DEF IInv, TypeOK, DocumentsOK, UsedOK
<1>2. PICK row : row = used[n][d]
  OBVIOUS
<1>3. row.version \in Nat /\ row.version # 0 /\ row # Absent
  BY <1>1, <1>2 DEF Row, Whole
<1>4. ASSUME docs[d].version = row.version PROVE ~InArchive(d, row)
  <2>1. Exists(d)
    BY <1>3, <1>4 DEF Exists
  <2> QED
    BY <1>1, <1>3, <1>4, <2>1 DEF HistoryComplete, InArchive
<1>5. ASSUME NEW h \in InHistory(d, row.version), InArchive(d, row)
      PROVE  [version |-> h.version, contents |-> h.contents] = row
  <2>1. h.version = row.version /\ h.contents = row.contents
    BY <1>1, <1>5 DEF HistoryComplete, InArchive, InHistory
  <2>2. row = [version |-> row.version, contents |-> row.contents]
    BY <1>1, <1>2 DEF Row
  <2> QED
    BY <2>1, <2>2
<1> QED
  BY <1>1, <1>2, <1>3, <1>4, <1>5 DEF InRecord, Remembered

(* A replay that has found a document found it as it was used.             *)
LEMMA FoundStep ==
  ASSUME IInv, NEW n \in Decisions, NEW d \in Documents,
         NEW to \in {"replay_policy", "replayed"},
         stage' = [stage EXCEPT ![n] = to],
         found' = [found EXCEPT ![n][d] = used[n][d]],
         UNCHANGED <<documents, used>>
  PROVE  IInv'
<1>1. stage'[n] = to
  BY DEF IInv, TypeOK
<1>2. \A e \in Documents : found'[n][e] \in {found[n][e], used[n][e]}
  BY DEF IInv, TypeOK
<1>3. UsedOK(n) /\ docs' = docs /\ history' = history
  BY DEF IInv, documents
<1>4. UsedOK(n)'
  BY <1>1, <1>2, <1>3 DEF UsedOK, Whole, Remembered, InArchive
<1>5. MissedOK(n)'
  BY <1>1 DEF MissedOK
<1>6. used[n][d] \in Row
  BY DEF IInv, TypeOK
<1> QED
  BY <1>4, <1>5, <1>6, QuietDecision DEF Stages

(* A replay goes on to a stage at which nothing has been missed, or has    *)
(* missed what is in the history.                                          *)
LEMMA GoOnStep ==
  ASSUME IInv, NEW n \in Decisions,
         NEW to \in {"replay_policy", "replayed", "old_workflow", "old_policy"},
         stage' = [stage EXCEPT ![n] = to],
         UNCHANGED <<documents, used, found>>,
         to = "old_workflow" =>
           \A d \in Referred(n, {Workflow}) : InArchive(d, used[n][d]),
         to = "old_policy" =>
           \A d \in Referred(n, Policies) : InArchive(d, used[n][d])
  PROVE  IInv'
<1>1. stage'[n] = to
  BY DEF IInv, TypeOK
<1>2. UsedOK(n) /\ docs' = docs /\ history' = history
  BY DEF IInv, documents
<1>3. UsedOK(n)'
  BY <1>1, <1>2 DEF UsedOK, Whole, Remembered, InArchive
<1>4. MissedOK(n)'
  BY <1>1, <1>2 DEF MissedOK, Referred, InArchive
<1> QED
  BY <1>3, <1>4, QuietDecision DEF Stages

(* The replay looks the workflow configuration up.                         *)
LEMMA ReplayWorkflowStep ==
  ASSUME IInv, NEW n \in Decisions, ReplayWorkflow(n)
  PROVE  IInv'
<1>1. \A d \in Referred(n, {Workflow}) :
        d \in Documents /\ used[n][d] # Absent
  BY DEF Referred, Documents
<1>2. \A d, e \in Referred(n, {Workflow}) : d = e
  BY DEF Referred
<1>3. CASE ReadRecord(n, {Workflow}, "replay_workflow", "old_workflow",
                      "replay_policy")
  <2>1. UNCHANGED <<documents, used>>
    BY <1>3 DEF ReadRecord
  <2>2. CASE Reach(n, "replay_policy") /\ found' = found
    BY <2>1, <2>2, GoOnStep DEF Reach
  <2>3. ASSUME NEW d \in Referred(n, {Workflow}), InRecord(d, used[n][d].version),
               found' = [found EXCEPT ![n][d] = docs[d]],
               Reach(n, "replay_policy")
        PROVE  IInv'
    BY <1>1, <2>1, <2>3, LookedUp, FoundStep DEF Reach
  <2>4. ASSUME NEW d \in Referred(n, {Workflow}), ~InRecord(d, used[n][d].version),
               Reach(n, "old_workflow"), found' = found
        PROVE  IInv'
    <3>1. InArchive(d, used[n][d])
      BY <1>1, <2>4, LookedUp
    <3>2. \A e \in Referred(n, {Workflow}) : InArchive(e, used[n][e])
      BY <1>2, <3>1
    <3> QED
      BY <2>1, <2>4, <3>2, GoOnStep DEF Reach
  <2> QED
    BY <1>3, <2>2, <2>3, <2>4 DEF ReadRecord
<1>4. CASE ReadHistory(n, {Workflow}, "old_workflow", "replay_policy")
  <2>1. stage[n] = "old_workflow" /\ UNCHANGED <<documents, used>>
    BY <1>4 DEF ReadHistory
  <2>2. PICK d \in Referred(n, {Workflow}) :
          LET rows == InHistory(d, used[n][d].version)
          IN IF rows = {} THEN Reach(n, "not_found") /\ UNCHANGED found
             ELSE \E h \in rows :
                    /\ found' = [found EXCEPT ![n][d] =
                         [version |-> h.version, contents |-> h.contents]]
                    /\ Reach(n, "replay_policy")
    BY <1>4 DEF ReadHistory
  <2>3. InArchive(d, used[n][d])
    BY <2>1 DEF IInv, MissedOK
  <2>4. InHistory(d, used[n][d].version) # {}
    BY <2>3 DEF InArchive, InHistory
  <2>5. found' = [found EXCEPT ![n][d] = used[n][d]]
        /\ Reach(n, "replay_policy")
    BY <1>1, <2>2, <2>3, <2>4, LookedUp
  <2> QED
    BY <1>1, <2>1, <2>5, FoundStep DEF Reach
<1> QED
  BY <1>3, <1>4 DEF ReplayWorkflow

(* The replay looks the policy up.                                         *)
LEMMA ReplayPolicyStep ==
  ASSUME IInv, NEW n \in Decisions, ReplayPolicy(n)
  PROVE  IInv'
<1>1. \A d \in Referred(n, Policies) : d \in Documents /\ used[n][d] # Absent
  BY DEF Referred, Documents
<1>2. \A d, e \in Referred(n, Policies) : d = e
  BY DEF Referred, IInv, UsedOK
<1>3. CASE ReadRecord(n, Policies, "replay_policy", "old_policy", "replayed")
  <2>1. UNCHANGED <<documents, used>>
    BY <1>3 DEF ReadRecord
  <2>2. CASE Reach(n, "replayed") /\ found' = found
    BY <2>1, <2>2, GoOnStep DEF Reach
  <2>3. ASSUME NEW d \in Referred(n, Policies), InRecord(d, used[n][d].version),
               found' = [found EXCEPT ![n][d] = docs[d]],
               Reach(n, "replayed")
        PROVE  IInv'
    BY <1>1, <2>1, <2>3, LookedUp, FoundStep DEF Reach
  <2>4. ASSUME NEW d \in Referred(n, Policies), ~InRecord(d, used[n][d].version),
               Reach(n, "old_policy"), found' = found
        PROVE  IInv'
    <3>1. InArchive(d, used[n][d])
      BY <1>1, <2>4, LookedUp
    <3>2. \A e \in Referred(n, Policies) : InArchive(e, used[n][e])
      BY <1>2, <3>1
    <3> QED
      BY <2>1, <2>4, <3>2, GoOnStep DEF Reach
  <2> QED
    BY <1>3, <2>2, <2>3, <2>4 DEF ReadRecord
<1>4. CASE ReadHistory(n, Policies, "old_policy", "replayed")
  <2>1. stage[n] = "old_policy" /\ UNCHANGED <<documents, used>>
    BY <1>4 DEF ReadHistory
  <2>2. PICK d \in Referred(n, Policies) :
          LET rows == InHistory(d, used[n][d].version)
          IN IF rows = {} THEN Reach(n, "not_found") /\ UNCHANGED found
             ELSE \E h \in rows :
                    /\ found' = [found EXCEPT ![n][d] =
                         [version |-> h.version, contents |-> h.contents]]
                    /\ Reach(n, "replayed")
    BY <1>4 DEF ReadHistory
  <2>3. InArchive(d, used[n][d])
    BY <2>1 DEF IInv, MissedOK
  <2>4. InHistory(d, used[n][d].version) # {}
    BY <2>3 DEF InArchive, InHistory
  <2>5. found' = [found EXCEPT ![n][d] = used[n][d]]
        /\ Reach(n, "replayed")
    BY <1>1, <2>2, <2>3, <2>4, LookedUp
  <2> QED
    BY <1>1, <2>1, <2>5, FoundStep DEF Reach
<1> QED
  BY <1>3, <1>4 DEF ReplayPolicy

-----------------------------------------------------------------------------
(* Every step keeps the invariant.                                         *)
LEMMA Step ==
  ASSUME IInv, [Next]_vars
  PROVE  IInv'
<1>1. CASE UNCHANGED vars
  <2>1. NothingForgotten /\ DocumentsOK' /\ TypeOK'
    BY <1>1, UnchangedRemembers, UnchangedDocuments DEF IInv, TypeOK, vars
  <2>2. \A r \in Requests : LoadedOK(r)' /\ ArchivedOK(r)'
    BY <1>1, <2>1, OtherRequest DEF IInv, vars
  <2>3. \A n \in Decisions : UsedOK(n)' /\ MissedOK(n)'
    BY <1>1, <2>1, OtherDecision DEF IInv, vars
  <2> QED
    BY <2>1, <2>2, <2>3 DEF IInv
<1>2. CASE CreatePolicy
  BY <1>2, CreateStep
<1>3. ASSUME NEW r \in Requests,
             \/ LoadUpdate(r) \/ LoadDelete(r) \/ LoadWorkflow(r)
             \/ Commit(r) \/ Stale(r) \/ CommitFails(r)
             \/ CommitUnacknowledged(r) \/ Refresh(r)
      PROVE  IInv'
  BY <1>3, RequestStep
<1>4. ASSUME NEW n \in Decisions,
             \/ UsePolicy(n) \/ UseWorkflow(n) \/ Log(n)
             \/ ReplayWorkflow(n) \/ ReplayPolicy(n)
      PROVE  IInv'
  BY <1>4, UsePolicyStep, UseWorkflowStep, LogStep, ReplayWorkflowStep,
     ReplayPolicyStep
<1> QED
  BY <1>1, <1>2, <1>3, <1>4 DEF Next

(* The invariant: rows, history, requests and decisions agree.             *)
THEOREM Invariance == Spec => []IInv
  BY Start, Step, PTL DEF Spec

(* Every old version is in the history, once and without a gap, however    *)
(* many requests change a document at the same time.                       *)
THEOREM History == Spec => []HistoryComplete
<1>1. IInv => HistoryComplete
  BY DEF IInv, DocumentsOK
<1> QED
  BY <1>1, Invariance, PTL

(* No two updates, each right for the policy it has read, leave a policy   *)
(* that becomes valid after it has expired.                                *)
THEOREM Ordering == Spec => []WindowOrdered
<1>1. IInv => WindowOrdered
  BY DEF IInv, DocumentsOK
<1> QED
  BY <1>1, Invariance, PTL

(* A replay finds what the decision used, whatever is changed or deleted   *)
(* while the decision is made or between the statements of the replay.     *)
THEOREM Replays == Spec => []ReplayFaithful
<1>1. IInv => ReplayFaithful
  BY DEF IInv, UsedOK, MissedOK, ReplayFaithful
<1> QED
  BY <1>1, Invariance, PTL

(* An answer 200 is about this request's own change at the version it      *)
(* expected, and an answer 4xx means that there was none.                  *)
THEOREM Answering == Spec => []AnswersHonest
<1>1. ASSUME IInv, NEW r \in Requests
      PROVE  LET q == request[r]
                 mine == {h \in history : h.by = r}
             IN /\ status[r] \in {"ok", "error"} /\ q.base # Absent =>
                     \E h \in mine :
                       /\ h.doc = q.doc
                       /\ h.contents = q.base.contents
                       /\ q.expected # NULL => h.version = q.expected
                /\ status[r] \in {"conflict", "not_found", "invalid"} =>
                     mine = {}
  BY <1>1 DEF IInv, ArchivedOK
<1>2. IInv => AnswersHonest
  BY <1>1 DEF AnswersHonest
<1> QED
  BY <1>2, Invariance, PTL
=============================================================================
