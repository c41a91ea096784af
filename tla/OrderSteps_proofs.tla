--------------------------- MODULE OrderSteps_proofs ---------------------------
(***************************************************************************)
(* What the statements of the purchasing service and of an agent run do to *)
(* the purchase-order table and to the run, whatever else shares the       *)
(* table: the lemmas that the proofs about Purchasing and ReorderPipeline  *)
(* have in common.                                                         *)
(***************************************************************************)
EXTENDS PurchasingService, PurchasingAgent, TLAPS

-----------------------------------------------------------------------------
(***************************************************************************)
(* Type correctness.                                                       *)
(***************************************************************************)

\* PurchasingRepository.update keeps the rows well formed.
LEMMA SetStatusType ==
    ASSUME TableTypeOK, NEW p \in PO, NEW s \in Status, SetStatus(p, s)
    PROVE  order' \in [PO -> Row]
BY DEF TableTypeOK, SetStatus, Row

\* A step of a run leaves a run at a known place.
LEMMA GotoType ==
    ASSUME AgentTypeOK, NEW a \in Run, NEW pc \in Step, Goto(a, pc)
    PROVE  run' \in [Run -> RunState] /\ result' \in [Run -> Result]
BY DEF AgentTypeOK, Goto, RunState

\* A run that returns has a known result.
LEMMA ReturnType ==
    ASSUME AgentTypeOK, NEW a \in Run, NEW r \in Result, Return(a, r)
    PROVE  run' \in [Run -> RunState] /\ result' \in [Run -> Result]
BY DEF AgentTypeOK, Return, RunState, Step

LEMMA RaiseType ==
    ASSUME AgentTypeOK, NEW a \in Run, Raise(a)
    PROVE  run' \in [Run -> RunState] /\ result' \in [Run -> Result]
<1>1. "failed" \in Result  BY DEF Result
<1> QED  BY <1>1, ReturnType DEF Raise

\* update_status writes a workflow status, and only for the order of the run.
LEMMA UpdateStatusType ==
    ASSUME AgentTypeOK, NEW a \in Run, NEW s \in WorkflowStatus, UpdateStatus(a, s)
    PROVE  workflow' \in [PO -> WorkflowStatus \cup {NoWorkflow}]
BY DEF AgentTypeOK, UpdateStatus, Ordered, RunState

\* A row as POST inserts it, and whatever an edit makes of a row, is a row.
LEMMA EmptyRowType == ASSUME NEW s \in Status \cup NoRow PROVE EmptyRow(s) \in Row
<1>1. \E k \in Key : TRUE  BY TableAssumption
<1> QED  BY <1>1 DEF EmptyRow, Row, SentAt

LEMMA WritableType ==
    ASSUME NEW row \in Row, NEW new \in Writable(row) PROVE new \in Row
BY ServiceAssumption DEF Writable, Row

-----------------------------------------------------------------------------
\* What the managers and the clients of the service do keeps the types.
LEMMA ServiceStepType ==
    ASSUME TableTypeOK, ServiceTypeOK, ServiceNext
    PROVE  TableTypeOK' /\ ServiceTypeOK'
<1> USE DEF TableTypeOK, ServiceTypeOK
<1>2. ASSUME NEW p \in PO, ApproveBegin(p) PROVE TableTypeOK' /\ ServiceTypeOK'
  BY <1>2 DEF ApproveBegin, Txn
<1>3. ASSUME NEW p \in PO, DispatchSupplierEmail(p) PROVE TableTypeOK' /\ ServiceTypeOK'
  BY <1>3, TableAssumption DEF DispatchSupplierEmail, EnqueueMail, Txn
<1>4. ASSUME NEW p \in PO, ApproveCommit(p) PROVE TableTypeOK' /\ ServiceTypeOK'
  <2>1. "approved" \in Status  BY DEF Status, ActiveStatus
  <2>2. order' \in [PO -> Row]  BY <1>4, <2>1, SetStatusType DEF ApproveCommit
  <2> QED  BY <1>4, <2>2 DEF ApproveCommit, Approve, Approver, Txn
<1>5. ASSUME NEW p \in PO, ApproveRollback(p) PROVE TableTypeOK' /\ ServiceTypeOK'
  BY <1>5 DEF ApproveRollback, Txn
<1>6. ASSUME NEW p \in PO, RejectPO(p) PROVE TableTypeOK' /\ ServiceTypeOK'
  <2>1. "rejected" \in Status  BY DEF Status, FinalStatus
  <2> QED  BY <1>6, <2>1, SetStatusType DEF RejectPO
<1>7. ASSUME NEW p \in PO, NEW row \in Writable(EmptyRow("draft")), CreateOrder(p, row)
      PROVE  TableTypeOK' /\ ServiceTypeOK'
  <2>1. EmptyRow("draft") \in Row  BY EmptyRowType DEF Status, ActiveStatus
  <2>2. row \in Row  BY <2>1, WritableType
  <2> QED  BY <1>7, <2>2 DEF CreateOrder, CreateRow
<1>8. ASSUME NEW c \in Client, NEW p \in PO, SendPO(c, p) PROVE TableTypeOK' /\ ServiceTypeOK'
  BY <1>8 DEF SendPO, Row, Status, InFlightStatus, SentAt
<1>9. ASSUME NEW c \in Client, NEW p \in PO, NEW s \in ToolTargets, TransitionRead(c, p, s)
      PROVE  TableTypeOK' /\ ServiceTypeOK'
  <2>1. s \in Status  BY ServiceAssumption
  <2>2. Transition(p, s) \in ClientState  BY <2>1 DEF ClientState
  <2> QED  BY <1>9, <2>2 DEF TransitionRead, tableVars
<1>10. ASSUME NEW c \in Client, TransitionWrite(c) PROVE TableTypeOK' /\ ServiceTypeOK'
  <2>1. client[c].po \in PO /\ client[c].to \in Status
    BY <1>10 DEF TransitionWrite, ClientState, Idle, Transition, Edit
  <2>2. Idle \in ClientState  BY DEF ClientState
  <2>3. order' \in [PO -> Row]  BY <1>10, <2>1, SetStatusType DEF TransitionWrite
  <2>4. approvals' \in [PO -> SUBSET Approver]
    BY <1>10, <2>1 DEF TransitionWrite, Approve, Approver
  <2> QED  BY <1>10, <2>2, <2>3, <2>4 DEF TransitionWrite
<1>11. ASSUME NEW c \in Client, NEW p \in PO, EditRead(c, p)
       PROVE  TableTypeOK' /\ ServiceTypeOK'
  <2>1. Edit(p, order[p]) \in ClientState  BY DEF ClientState
  <2> QED  BY <1>11, <2>1 DEF EditRead, tableVars
<1>12. ASSUME NEW c \in Client, EditSave(c) PROVE TableTypeOK' /\ ServiceTypeOK'
  <2>1. client[c].po \in PO /\ client[c].row \in Row
    BY <1>12 DEF EditSave, ClientState, Idle, Transition, Edit
  <2>2. Writable(client[c].row) \subseteq Row  BY <2>1, WritableType
  <2>3. Idle \in ClientState  BY DEF ClientState
  <2>4. order' \in [PO -> Row]  BY <1>12, <2>1, <2>2 DEF EditSave
  <2> QED  BY <1>12, <2>3, <2>4 DEF EditSave
<1> QED
  BY <1>2, <1>3, <1>4, <1>5, <1>6, <1>7, <1>8, <1>9, <1>10, <1>11, <1>12 DEF ServiceNext

\* An UPDATE made by a run keeps the types.
LEMMA WriteThenType ==
    ASSUME TableTypeOK, AgentTypeOK, NEW a \in Run, NEW s \in Status, NEW pc \in Step, WriteThen(a, s, pc)
    PROVE  TableTypeOK' /\ AgentTypeOK'
<1> USE DEF TableTypeOK
<1>1. Ordered(a) \in PO  BY DEF Ordered, AgentTypeOK, RunState
<1>2. order' \in [PO -> Row]  BY <1>1, SetStatusType DEF WriteThen
<1>3. run' \in [Run -> RunState] /\ result' \in [Run -> Result]
  BY GotoType, RaiseType DEF WriteThen
<1> QED  BY <1>2, <1>3 DEF WriteThen, AgentTypeOK

\* A check made by a run keeps the types.
LEMMA CheckThenType ==
    ASSUME TableTypeOK, AgentTypeOK, NEW a \in Run, NEW passes, NEW pc \in Step, CheckThen(a, passes, pc)
    PROVE  TableTypeOK' /\ AgentTypeOK'
<1>1. run' \in [Run -> RunState] /\ result' \in [Run -> Result]
  BY GotoType, RaiseType DEF CheckThen
<1> QED  BY <1>1 DEF CheckThen, TableTypeOK, AgentTypeOK, tableVars

\* So does a change of the workflow record.
LEMMA RecordType ==
    ASSUME TableTypeOK, AgentTypeOK, NEW a \in Run, NEW at, NEW s \in WorkflowStatus, NEW pc \in Step,
           Record(a, at, s, pc)
    PROVE  TableTypeOK' /\ AgentTypeOK'
<1>1. run' \in [Run -> RunState] /\ result' \in [Run -> Result]
  BY GotoType, RaiseType DEF Record
<1>2. workflow' \in [PO -> WorkflowStatus \cup {NoWorkflow}]
  BY UpdateStatusType DEF Record
<1> QED  BY <1>1, <1>2 DEF Record, TableTypeOK, AgentTypeOK, tableVars

LEMMA RecordAndReturnType ==
    ASSUME TableTypeOK, AgentTypeOK, NEW a \in Run, NEW at, NEW s \in WorkflowStatus, NEW r \in Result,
           RecordAndReturn(a, at, s, r)
    PROVE  TableTypeOK' /\ AgentTypeOK'
<1>1. run' \in [Run -> RunState] /\ result' \in [Run -> Result]
  BY ReturnType, RaiseType DEF RecordAndReturn
<1>2. workflow' \in [PO -> WorkflowStatus \cup {NoWorkflow}]
  BY UpdateStatusType DEF RecordAndReturn
<1> QED  BY <1>1, <1>2 DEF RecordAndReturn, TableTypeOK, AgentTypeOK, tableVars


\* Every statement of an agent run keeps the types.
LEMMA StartRunType ==
    ASSUME TableTypeOK, AgentTypeOK, NEW a \in Run, NEW k \in Key, NEW ctx \in Contexts,
           StartRun(a, k, ctx)
    PROVE  TableTypeOK' /\ AgentTypeOK'
<1>1. run[a] \in RunState  BY DEF AgentTypeOK
<1>2. [run[a] EXCEPT !.pc = "draft_insert", !.key = k, !.ctx = ctx] \in RunState
  BY <1>1 DEF RunState, Step
<1>3. ASSUME NEW p \in PO, NEW d \in BOOLEAN
      PROVE  [run[a] EXCEPT !.pc = "workflow_read", !.key = k, !.ctx = ctx, !.po = p,
                            !.drafted = d] \in RunState
  BY <1>1 DEF RunState, Step
<1>4. run' = [run EXCEPT ![a] = run'[a]] /\ run'[a] \in RunState
  BY <1>2, <1>3 DEF StartRun, AgentTypeOK
<1>5. run' \in [Run -> RunState]  BY <1>4 DEF AgentTypeOK
<1> QED  BY <1>5 DEF StartRun, AgentTypeOK, TableTypeOK, tableVars

LEMMA AdvanceType ==
    ASSUME TableTypeOK, AgentTypeOK, NEW a \in Run, Advance(a)
    PROVE  TableTypeOK' /\ AgentTypeOK'
<1>2. AgentTypeOK /\ TableTypeOK /\ Ordered(a) \in PO
  BY DEF AgentTypeOK, Ordered, RunState
<1>4. ASSUME DraftInsert(a) PROVE TableTypeOK' /\ AgentTypeOK'
  <2>1. EmptyRow("draft") \in Row  BY EmptyRowType DEF Status, ActiveStatus
  <2>2. [EmptyRow("draft") EXCEPT !.key = run[a].key] \in Row
    BY <1>2, <2>1 DEF Row, AgentTypeOK, RunState
  <2>3. order' \in [PO -> Row]  BY <1>2, <1>4, <2>2 DEF DraftInsert, CreateRow, TableTypeOK
  <2>4. run' \in [Run -> RunState] /\ result' \in [Run -> Result]
    <3>1. CASE Raise(a)  BY <1>2, <3>1, RaiseType
    <3>2. run[a] \in RunState  BY <1>2 DEF AgentTypeOK
    <3>3. ASSUME NEW p \in PO
          PROVE  [run[a] EXCEPT !.pc = "workflow_read", !.po = p, !.drafted = TRUE] \in RunState
      BY <3>2 DEF RunState, Step
    <3>4. CASE ~Raise(a)
      <4>1. run' = [run EXCEPT ![a] = run'[a]] /\ run'[a] \in RunState /\ UNCHANGED result
        BY <1>2, <1>4, <3>3, <3>4 DEF DraftInsert, AgentTypeOK
      <4> QED  BY <1>2, <4>1 DEF AgentTypeOK
    <3> QED  BY <3>1, <3>4
  <2> QED  BY <1>2, <1>4, <2>3, <2>4 DEF DraftInsert, TableTypeOK, AgentTypeOK
<1>5. ASSUME WorkflowRead(a) PROVE TableTypeOK' /\ AgentTypeOK'
  <2>1. run' \in [Run -> RunState] /\ result' \in [Run -> Result]
    BY <1>2, <1>5, GotoType DEF WorkflowRead, Step
  <2> QED  BY <1>2, <1>5, <2>1 DEF WorkflowRead, TableTypeOK, AgentTypeOK, tableVars
<1>6. ASSUME WorkflowInsert(a) PROVE TableTypeOK' /\ AgentTypeOK'
  <2>1. run' \in [Run -> RunState] /\ result' \in [Run -> Result]
    BY <1>2, <1>6, GotoType, RaiseType DEF WorkflowInsert, Step
  <2>2. workflow' \in [PO -> WorkflowStatus \cup {NoWorkflow}]
    BY <1>2, <1>6 DEF WorkflowInsert, AgentTypeOK, WorkflowStatus
  <2> QED  BY <1>2, <1>6, <2>1, <2>2 DEF WorkflowInsert, TableTypeOK, AgentTypeOK, tableVars
<1>7. ASSUME PendingRead(a) PROVE TableTypeOK' /\ AgentTypeOK'
  <2>1. {"pending_write", "gate"} \subseteq Step  BY DEF Step
  <2> QED  BY <1>7, <2>1, CheckThenType DEF PendingRead
<1>8. ASSUME PendingWrite(a) PROVE TableTypeOK' /\ AgentTypeOK'
  <2>1. "pending_approval" \in Status /\ "gate" \in Step  BY DEF Status, ActiveStatus, Step
  <2> QED  BY <1>8, <2>1, WriteThenType DEF PendingWrite
<1>9. ASSUME ApprovalGate(a) PROVE TableTypeOK' /\ AgentTypeOK'
  <2>1. Decisions(a) \subseteq {"return"} \cup Step  BY DEF Decisions, Step
  <2>2. "pending_approval" \in Result /\ "pending_approval" \in WorkflowStatus
    BY DEF Result, WorkflowStatus
  <2>3. run' \in [Run -> RunState] /\ result' \in [Run -> Result]
    BY <1>2, <1>9, <2>1, <2>2, GotoType, ReturnType, RaiseType DEF ApprovalGate
  <2>4. workflow' \in [PO -> WorkflowStatus \cup {NoWorkflow}]
    BY <1>2, <1>9, <2>2, UpdateStatusType DEF ApprovalGate
  <2> QED  BY <1>2, <1>9, <2>3, <2>4 DEF ApprovalGate, TableTypeOK, AgentTypeOK, tableVars
<1>10. ASSUME RunApproves(a) PROVE TableTypeOK' /\ AgentTypeOK'
  <2>1. "approved" \in Status /\ "record_approved" \in Step
    BY DEF Status, ActiveStatus, Step
  <2>2. order' \in [PO -> Row] /\ approvals' \in [PO -> SUBSET Approver]
    BY <1>2, <1>10, <2>1, SetStatusType DEF RunApproves, Approve, Approver, TableTypeOK
  <2>3. run' \in [Run -> RunState] /\ result' \in [Run -> Result]
    BY <1>2, <1>10, <2>1, GotoType, RaiseType DEF RunApproves
  <2> QED  BY <1>2, <1>10, <2>2, <2>3 DEF RunApproves, TableTypeOK, AgentTypeOK
<1>11. ASSUME RunRejects(a) PROVE TableTypeOK' /\ AgentTypeOK'
  <2>1. "rejected" \in Status /\ "record_rejected" \in Step  BY DEF Status, FinalStatus, Step
  <2>2. order' \in [PO -> Row]
    BY <1>2, <1>11, <2>1, SetStatusType DEF RunRejects, TableTypeOK
  <2>3. run' \in [Run -> RunState] /\ result' \in [Run -> Result]
    BY <1>2, <1>11, <2>1, GotoType, RaiseType DEF RunRejects
  <2> QED  BY <1>2, <1>11, <2>2, <2>3 DEF RunRejects, TableTypeOK, AgentTypeOK
<1>12. ASSUME SendEmail(a) PROVE TableTypeOK' /\ AgentTypeOK'
  <2>1. {"email_sent_read", "fail"} \subseteq Step  BY DEF Step
  <2>2. run' \in [Run -> RunState] /\ result' \in [Run -> Result]
    BY <1>2, <1>12, <2>1, GotoType DEF SendEmail
  <2>3. mails' \in [PO -> 0..MaxMails]
    BY <1>2, <1>12, TableAssumption DEF SendEmail, EnqueueMail, TableTypeOK
  <2> QED  BY <1>2, <1>12, <2>2, <2>3 DEF SendEmail, TableTypeOK, AgentTypeOK
<1>13. ASSUME EmailSentRead(a) PROVE TableTypeOK' /\ AgentTypeOK'
  <2>1. "email_sent_write" \in Step  BY DEF Step
  <2> QED  BY <1>13, <2>1, CheckThenType DEF EmailSentRead
<1>14. ASSUME EmailSentWrite(a) PROVE TableTypeOK' /\ AgentTypeOK'
  <2>1. "record_email_sent" \in Step  BY DEF Step
  <2>2. order' \in [PO -> Row]
    BY <1>2, <1>14 DEF EmailSentWrite, TableTypeOK, Row, Status, InFlightStatus, SentAt
  <2>3. run' \in [Run -> RunState] /\ result' \in [Run -> Result]
    BY <1>2, <1>14, <2>1, GotoType, RaiseType DEF EmailSentWrite
  <2> QED  BY <1>2, <1>14, <2>2, <2>3 DEF EmailSentWrite, TableTypeOK, AgentTypeOK
<1>15. ASSUME WaitingRead(a) PROVE TableTypeOK' /\ AgentTypeOK'
  <2>1. "waiting_write" \in Step  BY DEF Step
  <2> QED  BY <1>15, <2>1, CheckThenType DEF WaitingRead
<1>16. ASSUME WaitingWrite(a) PROVE TableTypeOK' /\ AgentTypeOK'
  <2>1. "waiting_confirmation" \in Status /\ "record_waiting" \in Step
    BY DEF Status, InFlightStatus, Step
  <2> QED  BY <1>16, <2>1, WriteThenType DEF WaitingWrite
<1>17. ASSUME Poll(a) PROVE TableTypeOK' /\ AgentTypeOK'
  <2>1. {"confirm_read", "fail", "time_out"} \subseteq Step  BY DEF Step
  <2>2. run' \in [Run -> RunState] /\ result' \in [Run -> Result]
    <3>1. CASE run' = [run EXCEPT ![a].attempt = @ + 1] /\ UNCHANGED result
               /\ run[a].attempt + 1 # MaxAttempts
      BY <1>2, <3>1, AgentAssumption DEF AgentTypeOK, RunState
    <3> QED  BY <1>2, <1>17, <2>1, <3>1, GotoType, RaiseType DEF Poll
  <2> QED  BY <1>2, <1>17, <2>2 DEF Poll, TableTypeOK, AgentTypeOK, tableVars
<1>18. ASSUME ConfirmRead(a) PROVE TableTypeOK' /\ AgentTypeOK'
  <2>1. "confirm_write" \in Step  BY DEF Step
  <2> QED  BY <1>18, <2>1, CheckThenType DEF ConfirmRead
<1>19. ASSUME ConfirmWrite(a) PROVE TableTypeOK' /\ AgentTypeOK'
  <2>1. "confirmed" \in Status /\ "record_confirmed" \in Step  BY DEF Status, FinalStatus, Step
  <2> QED  BY <1>19, <2>1, WriteThenType DEF ConfirmWrite
<1>20. ASSUME MarkFailed(a) PROVE TableTypeOK' /\ AgentTypeOK'
  <2>1. "failed" \in Status /\ "record_failed" \in Step  BY DEF Status, FinalStatus, Step
  <2> QED  BY <1>20, <2>1, WriteThenType DEF MarkFailed
<1>21. ASSUME MarkTimeout(a) PROVE TableTypeOK' /\ AgentTypeOK'
  <2>1. "timeout" \in Status /\ "record_timeout" \in Step  BY DEF Status, FinalStatus, Step
  <2> QED  BY <1>21, <2>1, WriteThenType DEF MarkTimeout
<1>22. ASSUME RecordWorkflow(a) PROVE TableTypeOK' /\ AgentTypeOK'
  <2>1. /\ {"send", "waiting_read", "poll"} \subseteq Step
        /\ {"approved", "email_sent", "waiting_confirmation", "rejected", "confirmed",
            "failed", "timeout"} \subseteq WorkflowStatus
        /\ {"rejected", "confirmed", "failed", "timeout"} \subseteq Result
    BY DEF Step, WorkflowStatus, Result
  <2> QED  BY <1>22, <2>1, RecordType, RecordAndReturnType DEF RecordWorkflow
<1> QED
  BY <1>4, <1>5, <1>6, <1>7, <1>8, <1>9, <1>10, <1>11, <1>12, <1>13, <1>14, <1>15, <1>16, <1>17,
     <1>18, <1>19, <1>20, <1>21, <1>22 DEF Advance

LEMMA RunStepType ==
    ASSUME TableTypeOK, AgentTypeOK, NEW a \in Run, RunNext(a)
    PROVE  TableTypeOK' /\ AgentTypeOK'
<1>1. ASSUME NEW k \in Key, NEW ctx \in Context, StartRun(a, k, ctx)
      PROVE  TableTypeOK' /\ AgentTypeOK'
  <2>1. ctx \in Contexts  BY AgentAssumption
  <2> QED  BY <1>1, <2>1, StartRunType
<1>2. CASE Advance(a)  BY <1>2, AdvanceType
<1>3. CASE CrashRun(a)
  <2>1. run' \in [Run -> RunState] /\ result' \in [Run -> Result]
    BY <1>3, GotoType DEF CrashRun, Step
  <2> QED  BY <1>3, <2>1 DEF CrashRun, TableTypeOK, AgentTypeOK, tableVars
<1> QED  BY <1>1, <1>2, <1>3 DEF RunNext

-----------------------------------------------------------------------------
(***************************************************************************)
(* Where a run is after a step, by the kinds of step there are.            *)
(***************************************************************************)
\* A step of one run leaves the others where they are.
LEMMA RunsElsewhere ==
    ASSUME AgentTypeOK, NEW a \in Run, RunNext(a), NEW b \in Run, b # a
    PROVE  run'[b] = run[b]
BY DEF AgentTypeOK, RunNext, Advance, StartRun, DraftInsert, WorkflowRead, WorkflowInsert,
       PendingRead, PendingWrite, ApprovalGate, RunApproves, RunRejects, SendEmail,
       EmailSentRead, EmailSentWrite, WaitingRead, WaitingWrite, Poll, ConfirmRead, ConfirmWrite,
       MarkFailed, MarkTimeout, RecordWorkflow, CrashRun, CheckThen, WriteThen, Record,
       RecordAndReturn, Goto, Return, Raise

\* What each kind of step does to the run that takes it.
LEMMA RunGoes ==
    ASSUME AgentTypeOK, NEW a \in Run, NEW pc, Goto(a, pc)
    PROVE  run'[a].pc = pc /\ run'[a].po = run[a].po /\ run'[a].ctx = run[a].ctx
BY DEF Goto, AgentTypeOK, RunState

LEMMA RunEnds ==
    ASSUME AgentTypeOK, NEW a \in Run, NEW r, Return(a, r)
    PROVE  run'[a].pc = "done" /\ run'[a].po = run[a].po /\ run'[a].ctx = run[a].ctx
BY DEF Return, AgentTypeOK, RunState

LEMMA RunRaises ==
    ASSUME AgentTypeOK, NEW a \in Run, Raise(a)
    PROVE  run'[a].pc = "done" /\ run'[a].po = run[a].po /\ run'[a].ctx = run[a].ctx
BY RunEnds DEF Raise

LEMMA RunStarts ==
    ASSUME AgentTypeOK, NEW a \in Run, NEW k \in Key, NEW ctx \in Context, StartRun(a, k, ctx)
    PROVE  run'[a].pc \in {"draft_insert", "workflow_read"} /\ run'[a].ctx = ctx
<1>1. PICK new :
          /\ new = [run[a] EXCEPT !.pc = "draft_insert", !.key = k, !.ctx = ctx]
             \/ \E p \in PO, d \in BOOLEAN :
                    new = [run[a] EXCEPT !.pc = "workflow_read", !.key = k, !.ctx = ctx,
                                         !.po = p, !.drafted = d]
          /\ run' = [run EXCEPT ![a] = new]
  BY DEF StartRun, AgentTypeOK
<1>2. run[a] \in RunState  BY DEF AgentTypeOK
<1>3. new.pc \in {"draft_insert", "workflow_read"} /\ new.ctx = ctx  BY <1>1, <1>2 DEF RunState
<1> QED  BY <1>1, <1>3 DEF AgentTypeOK

LEMMA RunDrafts ==
    ASSUME AgentTypeOK, NEW a \in Run, DraftInsert(a)
    PROVE  run'[a].pc \in {"workflow_read", "done"} /\ run'[a].ctx = run[a].ctx
<1>1. CASE Raise(a)  BY <1>1, RunRaises
<1>2. CASE ~Raise(a)
  <2>1. PICK new :
            /\ \E p \in PO : new = [run[a] EXCEPT !.pc = "workflow_read", !.po = p, !.drafted = TRUE]
            /\ run' = [run EXCEPT ![a] = new]
    BY <1>2 DEF DraftInsert, AgentTypeOK
  <2>2. run[a] \in RunState  BY DEF AgentTypeOK
  <2>3. new.pc = "workflow_read" /\ new.ctx = run[a].ctx  BY <2>1, <2>2 DEF RunState
  <2> QED  BY <2>1, <2>3 DEF AgentTypeOK
<1> QED  BY <1>1, <1>2

LEMMA RunPolls ==
    ASSUME AgentTypeOK, NEW a \in Run, Poll(a)
    PROVE  /\ run'[a].pc \in {"poll", "done", "confirm_read", "fail", "time_out"}
           /\ run'[a].po = run[a].po /\ run'[a].ctx = run[a].ctx
<1>1. CASE run' = [run EXCEPT ![a].attempt = @ + 1]
  <2>1. run[a] \in RunState  BY DEF AgentTypeOK
  <2>2. run'[a].pc = run[a].pc /\ run'[a].po = run[a].po /\ run'[a].ctx = run[a].ctx
    BY <1>1, <2>1 DEF AgentTypeOK, RunState
  <2> QED  BY <2>2 DEF Poll, At
<1> QED  BY <1>1, RunGoes, RunRaises DEF Poll

-----------------------------------------------------------------------------
(***************************************************************************)
(* What a service call holds: it asks for what it may be asked for, and    *)
(* nobody holds a row to write back where nobody edits.                    *)
(***************************************************************************)
HeldIsAllowed ==
    \A c \in Client :
        /\ client[c].op = "transition" => client[c].to \in ToolTargets
        /\ client[c].op = "edit" => Editing

LEMMA HeldService ==
    ASSUME ServiceTypeOK, HeldIsAllowed, ServiceNext
    PROVE  HeldIsAllowed'
<1>2. ASSUME UNCHANGED client PROVE HeldIsAllowed'  BY <1>2 DEF HeldIsAllowed
<1>3. ASSUME NEW c \in Client, client' = [client EXCEPT ![c] = Idle] PROVE HeldIsAllowed'
  BY <1>3 DEF HeldIsAllowed, ServiceTypeOK, Idle
<1>4. ASSUME NEW c \in Client, NEW p \in PO, NEW s \in ToolTargets, TransitionRead(c, p, s)
      PROVE  HeldIsAllowed'
  BY <1>4 DEF HeldIsAllowed, ServiceTypeOK, TransitionRead, Transition
<1>5. ASSUME NEW c \in Client, NEW p \in PO, EditRead(c, p) PROVE HeldIsAllowed'
  BY <1>5 DEF HeldIsAllowed, ServiceTypeOK, EditRead, Edit
<1>6. ASSUME NEW c \in Client, TransitionWrite(c) \/ EditSave(c) PROVE HeldIsAllowed'
  BY <1>3, <1>6 DEF TransitionWrite, EditSave
<1> QED
  BY <1>2, <1>4, <1>5, <1>6
  DEF ServiceNext, ApproveBegin, DispatchSupplierEmail, ApproveCommit, ApproveRollback, RejectPO,
      CreateOrder, SendPO

=============================================================================
