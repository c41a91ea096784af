-------------------------- MODULE Purchasing_proofs --------------------------
(***************************************************************************)
(* Theorems about Purchasing for every value of its constants.             *)
(***************************************************************************)
EXTENDS Purchasing, OrderSteps_proofs

-----------------------------------------------------------------------------
LEMMA InitType == Init => TypeOK
<1> SUFFICES ASSUME Init PROVE TypeOK  OBVIOUS
<1>1. TableTypeOK
  <2>1. EmptyRow("unborn") \in Row  BY EmptyRowType DEF NoRow
  <2> QED  BY <2>1, TableAssumption DEF Init, TableInit, TableTypeOK, Txn
<1>2. ServiceTypeOK  BY DEF Init, ServiceInit, ServiceTypeOK, ClientState
<1>3. SweepTypeOK
  <2>1. 0 \in 0..MaxSweepFaults  BY SweepAssumption
  <2> QED  BY <2>1 DEF Init, SweepInit, SweepTypeOK, Notice
<1>4. AgentTypeOK
  <2>1. \E k \in Key : TRUE  BY TableAssumption
  <2>2. 1 \in PO  BY TableAssumption DEF PO
  <2>3. 0 \in 0..MaxAttempts - 1  BY AgentAssumption
  <2> QED  BY <2>1, <2>2, <2>3
           DEF Init, AgentInit, NewRun, AgentTypeOK, RunState, Step, Contexts, Result, NoWorkflow
<1> QED  BY <1>1, <1>2, <1>3, <1>4 DEF TypeOK

\* An escalation that is cut off keeps the types, and so does one that is not.
LEMMA EscalationType ==
    ASSUME SweepTypeOK, NEW p \in PO, Escalation(p) \/ CutOff(p)
    PROVE  notice' \in [PO -> Notice] /\ lost' \subseteq PO /\ sweepFaults' \in 0..MaxSweepFaults
<1>1. CASE Escalation(p)
  <2>1. notice' \in [PO -> Notice] /\ UNCHANGED sweepFaults
    BY <1>1 DEF SweepTypeOK, Escalation, Duplicate, Escalated, Notice
  <2>2. lost' \subseteq PO  BY <1>1 DEF SweepTypeOK, Escalation, Duplicate, Escalated
  <2> QED  BY <2>1, <2>2 DEF SweepTypeOK
<1>2. CASE CutOff(p)
  <2>1. notice' \in [PO -> Notice] /\ lost' \subseteq PO
    BY <1>2 DEF SweepTypeOK, CutOff, Notice
  <2>2. sweepFaults' \in 0..MaxSweepFaults  BY <1>2, SweepAssumption DEF SweepTypeOK, CutOff
  <2> QED  BY <2>1, <2>2
<1> QED  BY <1>1, <1>2

\* What the sweep and the clock do keeps the types.
LEMMA SweepStepType ==
    ASSUME TypeOK, SweepNext, UNCHANGED <<client, agentVars>>
    PROVE  TypeOK'
<1> USE DEF TypeOK, TableTypeOK, SweepTypeOK
<1>1. ServiceTypeOK' /\ AgentTypeOK'  BY DEF agentVars, ServiceTypeOK, AgentTypeOK
<1>2. CASE SweepStart  BY <1>1, <1>2 DEF SweepStart, tableVars
<1>3. CASE SweepCrash
  <2>1. ASSUME NEW p \in saved, CutOff(p) PROVE TypeOK'
    BY <1>1, <1>3, <2>1, EscalationType DEF SweepCrash, tableVars
  <2>2. CASE sweepFaults < MaxSweepFaults /\ sweepFaults' = sweepFaults + 1
             /\ UNCHANGED <<notice, lost>>
    <3>1. sweepFaults' \in 0..MaxSweepFaults  BY <2>2, SweepAssumption
    <3> QED  BY <1>1, <1>3, <2>2, <3>1 DEF SweepCrash, tableVars
  <2> QED  BY <1>3, <2>1, <2>2 DEF SweepCrash
<1>4. ASSUME NEW p \in PO, AgeOrder(p) PROVE TypeOK'
  BY <1>1, <1>4 DEF AgeOrder, sweepVars, Row, SentAt
<1>5. ASSUME NEW p \in PO, SweepSave(p) PROVE TypeOK'
  <2>1. "timeout" \in Status  BY DEF Status, FinalStatus
  <2>2. order' \in [PO -> Row]  BY <1>5, <2>1, SetStatusType DEF SweepSave
  <2>3. notice' \in [PO -> Notice]  BY <1>5 DEF SweepSave, Notice
  <2>4. sweep' \subseteq PO /\ saved' \subseteq PO /\ lost' \subseteq PO  BY <1>5 DEF SweepSave
  <2> QED  BY <1>1, <1>5, <2>2, <2>3, <2>4 DEF SweepSave
<1>6. ASSUME NEW p \in PO, SweepEscalate(p) PROVE TypeOK'
  BY <1>1, <1>6, EscalationType DEF SweepEscalate, tableVars
<1> QED  BY <1>2, <1>3, <1>4, <1>5, <1>6 DEF SweepNext

\* So does a deletion.
LEMMA DestroyOrderType ==
    ASSUME TypeOK, NEW p \in PO, DestroyOrder(p)
    PROVE  TypeOK'
<1>1. EmptyRow("deleted") \in Row  BY EmptyRowType DEF NoRow
<1>2. TableTypeOK' /\ AgentTypeOK'
  BY <1>1 DEF DestroyOrder, TypeOK, TableTypeOK, AgentTypeOK
<1>3. notice' \in [PO -> Notice]  BY DEF DestroyOrder, TypeOK, SweepTypeOK, Notice
<1> QED  BY <1>2, <1>3 DEF DestroyOrder, TypeOK, ServiceTypeOK, SweepTypeOK

LEMMA StepType == TypeOK /\ [Next]_vars => TypeOK'
<1> SUFFICES ASSUME TypeOK, [Next]_vars PROVE TypeOK'  OBVIOUS
<1>1. CASE UNCHANGED vars
  BY <1>1 DEF vars, tableVars, sweepVars, agentVars, TypeOK, TableTypeOK, ServiceTypeOK,
              SweepTypeOK, AgentTypeOK
<1>2. CASE ServiceNext /\ UNCHANGED <<sweepVars, agentVars>>
  BY <1>2, ServiceStepType DEF TypeOK, sweepVars, agentVars, SweepTypeOK, AgentTypeOK
<1>3. ASSUME NEW a \in Run, RunNext(a), UNCHANGED <<client, sweepVars>> PROVE TypeOK'
  BY <1>3, RunStepType DEF TypeOK, sweepVars, ServiceTypeOK, SweepTypeOK
<1> QED  BY <1>1, <1>2, <1>3, SweepStepType, DestroyOrderType DEF Next

\* Every variable of the purchasing subsystem keeps its type: no race of managers,
\* clients, runs and sweep leaves an order without a known status, a run at an
\* unknown step or past its last polling attempt.
THEOREM TypeCorrect == Spec => []TypeOK
<1>1. Init => TypeOK  BY InitType
<1>2. TypeOK /\ [Next]_vars => TypeOK'  BY StepType
<1> QED  BY <1>1, <1>2, PTL DEF Spec

-----------------------------------------------------------------------------
(***************************************************************************)
(* The approval gate.                                                      *)
(*                                                                         *)
(* PastGateWasApproved is not inductive: a client or a run that read an    *)
(* order some time ago still writes what it read.  Every such copy in hand *)
(* of a status past the gate belongs to an order that was approved.        *)
(***************************************************************************)
Approved(p) == approvals[p] # {}

\* A transition asked for leads past the gate only for an approved order, or is
\* itself the approval.
HeldTransitionsApproved ==
    \A c \in Client :
        client[c].op = "transition" /\ PastGate(client[c].to) /\ client[c].to # "approved"
            => Approved(client[c].po)

\* A row held by a PATCH is past the gate only if its order was approved.
HeldRowsApproved ==
    \A c \in Client :
        client[c].op = "edit" /\ PastGate(client[c].row.status) => Approved(client[c].po)

\* A run about to write a status past the gate is about an approved order.
HeldChecksApproved ==
    \A a \in Run :
        run[a].pc \in {"email_sent_write", "waiting_write", "confirm_write"}
            => Approved(run[a].po)

GateInv ==
    /\ TypeOK
    /\ PastGateWasApproved
    /\ HeldTransitionsApproved
    /\ HeldRowsApproved
    /\ HeldChecksApproved

LEMMA GateInit == Init => GateInv
<1> SUFFICES ASSUME Init PROVE GateInv  OBVIOUS
<1>1. TypeOK  BY InitType
<1>2. PastGateWasApproved
  BY DEF PastGateWasApproved, PastGate, Init, TableInit, EmptyRow, InFlightStatus
<1>3. HeldTransitionsApproved /\ HeldRowsApproved
  BY DEF HeldTransitionsApproved, HeldRowsApproved, Init, ServiceInit, Idle
<1>4. HeldChecksApproved  BY DEF HeldChecksApproved, Init, AgentInit, NewRun
<1> QED  BY <1>1, <1>2, <1>3, <1>4 DEF GateInv

\* A step that changes one order, and takes it past the gate only if it has been
\* approved, keeps the others where they were.
LEMMA OneOrderChanges ==
    ASSUME TypeOK, PastGateWasApproved,
           \A p \in PO : Approved(p) => Approved(p)',
           NEW q \in PO, NEW row,
           order' = [order EXCEPT ![q] = row],
           PastGate(row.status) => Approved(q)'
    PROVE  PastGateWasApproved'
BY DEF PastGateWasApproved, TypeOK, TableTypeOK, PastGate, Approved

\* The same for a change of the status alone.
LEMMA OneStatusChanges ==
    ASSUME TypeOK, PastGateWasApproved,
           \A p \in PO : Approved(p) => Approved(p)',
           NEW q \in PO, NEW s,
           SetStatus(q, s),
           PastGate(s) => Approved(q)'
    PROVE  PastGateWasApproved'
<1>1. order' = [order EXCEPT ![q] = [order[q] EXCEPT !.status = s]]
  BY DEF SetStatus, TypeOK, TableTypeOK
<1>2. [order[q] EXCEPT !.status = s].status = s  BY DEF TypeOK, TableTypeOK, Row
<1> QED  BY <1>1, <1>2, OneOrderChanges

\* Nothing takes an approval back.
LEMMA ApprovalsGrow ==
    ASSUME TypeOK, [Next]_vars, NEW p \in PO, Approved(p)
    PROVE  Approved(p)'
<1>1. ASSUME NEW q \in PO, NEW who, Approve(q, who) PROVE Approved(p)'
  BY <1>1 DEF Approve, Approved, TypeOK, TableTypeOK
<1>2. ASSUME UNCHANGED approvals PROVE Approved(p)'  BY <1>2 DEF Approved
<1>3. ASSUME ServiceNext PROVE Approved(p)'
  <2>1. ASSUME NEW c \in Client, TransitionWrite(c) PROVE Approved(p)'
    <3>1. client[c].po \in PO
      BY <2>1 DEF TypeOK, ServiceTypeOK, TransitionWrite, ClientState, Idle, Transition, Edit
    <3> QED  BY <1>1, <1>2, <2>1, <3>1 DEF TransitionWrite
  <2> QED
    BY <1>1, <1>2, <1>3, <2>1
    DEF ServiceNext, ApproveBegin, DispatchSupplierEmail, ApproveCommit, ApproveRollback,
        RejectPO, SendPO, CreateOrder, TransitionRead, EditRead, EditSave, tableVars
<1>4. ASSUME SweepNext PROVE Approved(p)'
  BY <1>2, <1>4 DEF SweepNext, SweepStart, SweepCrash, AgeOrder, SweepSave, SweepEscalate,
                    tableVars
<1>5. ASSUME NEW a \in Run, RunNext(a) PROVE Approved(p)'
  <2>1. Ordered(a) \in PO  BY DEF TypeOK, AgentTypeOK, Ordered, RunState
  <2>2. CASE RunApproves(a)  BY <1>1, <1>2, <2>1, <2>2 DEF RunApproves
  <2> QED
    BY <1>2, <1>5, <2>2
    DEF RunNext, Advance, StartRun, DraftInsert, WorkflowRead, WorkflowInsert, PendingRead, PendingWrite,
        ApprovalGate, RunRejects, SendEmail, EmailSentRead, EmailSentWrite, WaitingRead,
        WaitingWrite, Poll, ConfirmRead, ConfirmWrite, MarkFailed, MarkTimeout, RecordWorkflow,
        CrashRun, CheckThen, WriteThen, Record, RecordAndReturn, tableVars
<1>6. ASSUME NEW q \in PO, DestroyOrder(q) PROVE Approved(p)'  BY <1>2, <1>6 DEF DestroyOrder
<1> QED  BY <1>2, <1>3, <1>4, <1>5, <1>6 DEF Next, vars, tableVars

\* The managers and the clients keep the gate: what a client writes late was read
\* from an approved order, or is an approval.
LEMMA GateService ==
    ASSUME GateInv, TypeOK', ServiceNext, UNCHANGED <<sweepVars, agentVars>>,
           \A p \in PO : Approved(p) => Approved(p)'
    PROVE  GateInv'
<1> DEFINE Copies == HeldTransitionsApproved /\ HeldRowsApproved
<1>1. TypeOK /\ TableTypeOK /\ ServiceTypeOK /\ AgentTypeOK /\ PastGateWasApproved
  BY DEF GateInv, TypeOK
<1>2. HeldChecksApproved'
  BY <1>1 DEF GateInv, HeldChecksApproved, agentVars, AgentTypeOK, RunState
<1>3. \A c \in Client : client[c] # Idle => client[c].po \in PO
  BY <1>1 DEF ServiceTypeOK, ClientState, Transition, Edit
<1>4. ASSUME UNCHANGED order PROVE PastGateWasApproved'
  BY <1>1, <1>4 DEF PastGateWasApproved, Approved
<1>5. ASSUME UNCHANGED client PROVE Copies'
  BY <1>1, <1>3, <1>5 DEF GateInv, HeldTransitionsApproved, HeldRowsApproved, Idle
<1>6. ASSUME NEW c \in Client, client' = [client EXCEPT ![c] = Idle] PROVE Copies'
  BY <1>1, <1>3, <1>6
  DEF GateInv, HeldTransitionsApproved, HeldRowsApproved, Idle, ServiceTypeOK
<1>7. ASSUME NEW p \in PO, ApproveBegin(p) \/ DispatchSupplierEmail(p) \/ ApproveRollback(p)
      PROVE  PastGateWasApproved' /\ Copies'
  BY <1>4, <1>5, <1>7 DEF ApproveBegin, DispatchSupplierEmail, ApproveRollback
<1>8. ASSUME NEW p \in PO, ApproveCommit(p) PROVE PastGateWasApproved' /\ Copies'
  <2>1. Approved(p)'  BY <1>1, <1>8 DEF ApproveCommit, Approve, Approved, TableTypeOK
  <2> QED  BY <1>1, <1>5, <1>8, <2>1, OneStatusChanges DEF ApproveCommit
<1>9. ASSUME NEW p \in PO, RejectPO(p) PROVE PastGateWasApproved' /\ Copies'
  <2>1. ~PastGate("rejected")  BY DEF PastGate, InFlightStatus
  <2> QED  BY <1>1, <1>5, <1>9, <2>1, OneStatusChanges DEF RejectPO
<1>10. ASSUME NEW p \in PO, NEW row \in Writable(EmptyRow("draft")), CreateOrder(p, row)
       PROVE  PastGateWasApproved' /\ Copies'
  <2>1. row.status = "draft"  BY DEF Writable, EmptyRow
  <2>2. ~PastGate(row.status)  BY <2>1 DEF PastGate, InFlightStatus
  <2> QED  BY <1>1, <1>5, <1>10, <2>2, OneOrderChanges DEF CreateOrder, CreateRow
<1>11. ASSUME NEW c \in Client, NEW p \in PO, SendPO(c, p) PROVE PastGateWasApproved' /\ Copies'
  <2>1. Approved(p)'
    BY <1>1, <1>11 DEF SendPO, PastGateWasApproved, PastGate, Approved
  <2>2. order' = [order EXCEPT ![p] = [order[p] EXCEPT !.status = "sent", !.sentAt = "recent"]]
    BY <1>1, <1>11 DEF SendPO, TableTypeOK
  <2> QED  BY <1>1, <1>5, <1>11, <2>1, <2>2, OneOrderChanges DEF SendPO
<1>12. ASSUME NEW c \in Client, NEW p \in PO, NEW s \in ToolTargets, TransitionRead(c, p, s)
       PROVE  PastGateWasApproved' /\ Copies'
  <2>1. order[p].status \in Status
    BY <1>1, <1>12 DEF TransitionRead, Exists, TableTypeOK, Row
  <2>2. PastGate(s) /\ s # "approved" => PastGate(order[p].status)
    BY <1>12, <2>1 DEF TransitionRead, LEGAL_TRANSITIONS, PastGate, Status, ActiveStatus,
                       InFlightStatus, FinalStatus
  <2>3. PastGate(s) /\ s # "approved" => Approved(p)
    BY <1>1, <2>2 DEF PastGateWasApproved, Approved
  <2>4. Copies'
    BY <1>1, <1>3, <1>12, <2>3
    DEF TransitionRead, Transition, GateInv, HeldTransitionsApproved, HeldRowsApproved,
        ServiceTypeOK, Idle
  <2> QED  BY <1>4, <1>12, <2>4 DEF TransitionRead, tableVars
<1>13. ASSUME NEW c \in Client, TransitionWrite(c) PROVE PastGateWasApproved' /\ Copies'
  <2>1. PICK p \in PO : p = client[c].po  BY <1>3, <1>13 DEF TransitionWrite, Idle
  <2>2. CASE UNCHANGED order  BY <1>4, <1>6, <1>13, <2>2 DEF TransitionWrite
  <2>3. CASE ~Refused(p, client[c].to)
    <3>1. PICK s : s = client[c].to  OBVIOUS
    <3>2. PastGate(s) => Approved(p)'
      BY <1>1, <1>13, <2>1, <2>3, <3>1
      DEF TransitionWrite, Approve, Approved, TableTypeOK, GateInv, HeldTransitionsApproved
    <3> QED  BY <1>1, <1>6, <1>13, <2>1, <2>3, <3>1, <3>2, OneStatusChanges DEF TransitionWrite
  <2> QED  BY <1>13, <2>1, <2>2, <2>3 DEF TransitionWrite
<1>14. ASSUME NEW c \in Client, NEW p \in PO, EditRead(c, p)
       PROVE  PastGateWasApproved' /\ Copies'
  <2>1. PastGate(order[p].status) => Approved(p)  BY <1>1 DEF PastGateWasApproved, Approved
  <2>2. Copies'
    BY <1>1, <1>3, <1>14, <2>1
    DEF EditRead, Edit, GateInv, HeldTransitionsApproved, HeldRowsApproved, ServiceTypeOK, Idle
  <2> QED  BY <1>4, <1>14, <2>2 DEF EditRead, tableVars
<1>15. ASSUME NEW c \in Client, EditSave(c) PROVE PastGateWasApproved' /\ Copies'
  <2>1. PICK p \in PO : p = client[c].po  BY <1>3, <1>15 DEF EditSave, Idle
  <2>2. CASE UNCHANGED order  BY <1>4, <1>6, <1>15, <2>2 DEF EditSave
  <2>3. ASSUME NEW row \in Writable(client[c].row), order' = [order EXCEPT ![p] = row]
        PROVE  PastGateWasApproved'
    <3>1. row.status = client[c].row.status  BY DEF Writable
    <3>2. PastGate(row.status) => Approved(p)
      BY <1>15, <2>1, <3>1 DEF EditSave, GateInv, HeldRowsApproved
    <3> QED  BY <1>1, <2>3, <3>2, OneOrderChanges
  <2> QED  BY <1>6, <1>15, <2>1, <2>2, <2>3 DEF EditSave
<1>16. PastGateWasApproved' /\ Copies'
  BY <1>7, <1>8, <1>9, <1>10, <1>11, <1>12, <1>13, <1>14, <1>15 DEF ServiceNext
<1> QED  BY <1>2, <1>16 DEF GateInv

\* The copies held by clients stay good when the clients do nothing.
LEMMA CopiesKept ==
    ASSUME GateInv, UNCHANGED client, \A p \in PO : Approved(p) => Approved(p)'
    PROVE  HeldTransitionsApproved' /\ HeldRowsApproved'
<1>1. \A c \in Client : client[c].op \in {"transition", "edit"} => client[c].po \in PO
  BY DEF GateInv, TypeOK, ServiceTypeOK, ClientState, Idle, Transition, Edit
<1> QED  BY <1>1 DEF GateInv, HeldTransitionsApproved, HeldRowsApproved

\* The sweep and the clock keep the gate: neither takes an order past it.
LEMMA GateSweep ==
    ASSUME GateInv, TypeOK', SweepNext, UNCHANGED <<client, agentVars>>,
           \A p \in PO : Approved(p) => Approved(p)'
    PROVE  GateInv'
<1>1. TypeOK /\ TableTypeOK /\ AgentTypeOK /\ PastGateWasApproved
  BY DEF GateInv, TypeOK
<1>2. HeldChecksApproved'
  BY <1>1 DEF GateInv, HeldChecksApproved, agentVars, AgentTypeOK, RunState
<1>3. ASSUME UNCHANGED order PROVE PastGateWasApproved'
  BY <1>1, <1>3 DEF PastGateWasApproved, Approved
<1>4. ASSUME NEW p \in PO, AgeOrder(p) PROVE PastGateWasApproved'
  <2>1. order' = [order EXCEPT ![p] = [order[p] EXCEPT !.sentAt = "overdue"]]
    BY <1>1, <1>4 DEF AgeOrder, TableTypeOK
  <2>2. [order[p] EXCEPT !.sentAt = "overdue"].status = order[p].status
    BY <1>1 DEF TableTypeOK, Row
  <2>3. PastGate(order[p].status) => Approved(p)  BY <1>1 DEF PastGateWasApproved, Approved
  <2> QED  BY <1>1, <2>1, <2>2, <2>3, OneOrderChanges
<1>5. ASSUME NEW p \in PO, SweepSave(p) PROVE PastGateWasApproved'
  <2>1. ~PastGate("timeout")  BY DEF PastGate, InFlightStatus
  <2> QED  BY <1>1, <1>3, <1>5, <2>1, OneStatusChanges DEF SweepSave
<1>6. PastGateWasApproved'
  BY <1>3, <1>4, <1>5 DEF SweepNext, SweepStart, SweepCrash, SweepEscalate, tableVars
<1> QED  BY <1>2, <1>6, CopiesKept DEF GateInv

\* Runs keep the gate: whatever a run writes late it checked on an approved order.
LEMMA GateRun ==
    ASSUME GateInv, TypeOK', NEW a \in Run, RunNext(a), UNCHANGED <<client, sweepVars>>,
           \A p \in PO : Approved(p) => Approved(p)'
    PROVE  GateInv'
<1>1. TypeOK /\ TableTypeOK /\ AgentTypeOK /\ PastGateWasApproved /\ Ordered(a) \in PO
  BY DEF GateInv, TypeOK, AgentTypeOK, RunState, Ordered
<1>2. \A b \in Run : run[b].po \in PO  BY <1>1 DEF AgentTypeOK, RunState
<1> DEFINE Checked == {"email_sent_write", "waiting_write", "confirm_write"}
<1>3. ASSUME UNCHANGED order PROVE PastGateWasApproved'
  BY <1>1, <1>3 DEF PastGateWasApproved, Approved
<1>4. ASSUME NEW pc, Goto(a, pc), pc \in Checked => Approved(Ordered(a))
      PROVE  HeldChecksApproved'
  BY <1>1, <1>2, <1>4 DEF Goto, GateInv, HeldChecksApproved, AgentTypeOK, RunState, Ordered
<1>5. ASSUME NEW r, Return(a, r) PROVE HeldChecksApproved'
  BY <1>1, <1>2, <1>5 DEF Return, GateInv, HeldChecksApproved, AgentTypeOK, RunState
<1>6. ASSUME Raise(a) PROVE HeldChecksApproved'  BY <1>5, <1>6 DEF Raise
<1>7. ASSUME NEW passes, NEW pc, CheckThen(a, passes, pc),
             Exists(Ordered(a)) /\ passes /\ pc \in Checked => Approved(Ordered(a))
      PROVE  PastGateWasApproved' /\ HeldChecksApproved'
  BY <1>3, <1>4, <1>6, <1>7 DEF CheckThen, tableVars
<1>8. ASSUME NEW s, NEW pc, WriteThen(a, s, pc), pc \notin Checked,
             PastGate(s) => Approved(Ordered(a))
      PROVE  PastGateWasApproved' /\ HeldChecksApproved'
  <2>1. PICK p \in PO : p = Ordered(a)  BY <1>1
  <2>2. PastGate(s) => Approved(p)'  BY <1>8, <2>1
  <2> QED  BY <1>1, <1>3, <1>4, <1>6, <1>8, <2>1, <2>2, OneStatusChanges DEF WriteThen
<1>9. ASSUME run' = [run EXCEPT ![a] = run'[a]], run'[a].pc \notin Checked
      PROVE  HeldChecksApproved'
  BY <1>1, <1>2, <1>9 DEF GateInv, HeldChecksApproved, AgentTypeOK
<1>10. ASSUME NEW k \in Key, NEW ctx \in Context, StartRun(a, k, ctx)
       PROVE  PastGateWasApproved' /\ HeldChecksApproved'
  <2>1. run[a] \in RunState  BY <1>1 DEF AgentTypeOK
  <2>2. run' = [run EXCEPT ![a] = run'[a]] /\ run'[a].pc \in {"draft_insert", "workflow_read"}
    BY <1>1, <1>10, <2>1 DEF StartRun, AgentTypeOK, RunState
  <2> QED  BY <1>3, <1>9, <1>10, <2>2 DEF StartRun, tableVars
<1>11. ASSUME DraftInsert(a) PROVE PastGateWasApproved' /\ HeldChecksApproved'
  <2>1. CASE Raise(a) /\ UNCHANGED order  BY <1>3, <1>6, <2>1
  <2>2. CASE \E p \in PO :
               /\ CreateRow(p, [EmptyRow("draft") EXCEPT !.key = run[a].key])
               /\ run' = [run EXCEPT ![a] =
                             [@ EXCEPT !.pc = "workflow_read", !.po = p, !.drafted = TRUE]]
    <3>1. run[a] \in RunState  BY <1>1 DEF AgentTypeOK
    <3>2. run' = [run EXCEPT ![a] = run'[a]] /\ run'[a].pc = "workflow_read"
      BY <1>1, <2>2, <3>1 DEF AgentTypeOK, RunState
    <3>3. PICK row : row = [EmptyRow("draft") EXCEPT !.key = run[a].key]  OBVIOUS
    <3>4. row.status = "draft"  BY <3>3 DEF EmptyRow
    <3>5. ~PastGate(row.status)  BY <3>4 DEF PastGate, InFlightStatus
    <3>6. PastGateWasApproved'  BY <1>1, <2>2, <3>3, <3>5, OneOrderChanges DEF CreateRow
    <3> QED  BY <1>9, <3>2, <3>6
  <2> QED  BY <1>11, <2>1, <2>2 DEF DraftInsert
<1>12. ASSUME WorkflowRead(a) \/ WorkflowInsert(a)
       PROVE  PastGateWasApproved' /\ HeldChecksApproved'
  BY <1>3, <1>4, <1>6, <1>12 DEF WorkflowRead, WorkflowInsert, tableVars
<1>13. ASSUME PendingRead(a) PROVE PastGateWasApproved' /\ HeldChecksApproved'
  BY <1>7, <1>13 DEF PendingRead
<1>14. ASSUME PendingWrite(a) PROVE PastGateWasApproved' /\ HeldChecksApproved'
  <2>1. ~PastGate("pending_approval")  BY DEF PastGate, InFlightStatus
  <2> QED  BY <1>8, <1>14, <2>1 DEF PendingWrite
<1>15. ASSUME ApprovalGate(a) PROVE PastGateWasApproved' /\ HeldChecksApproved'
  <2>1. \A d \in Decisions(a) : d \notin Checked  BY DEF Decisions
  <2> QED  BY <1>3, <1>4, <1>5, <1>6, <1>15, <2>1 DEF ApprovalGate, tableVars
<1>16. ASSUME RunApproves(a) PROVE PastGateWasApproved' /\ HeldChecksApproved'
  <2>1. CASE Raise(a) /\ UNCHANGED order  BY <1>3, <1>6, <2>1
  <2>2. ASSUME NEW who, Approve(Ordered(a), who), SetStatus(Ordered(a), "approved"),
               Goto(a, "record_approved")
        PROVE  PastGateWasApproved' /\ HeldChecksApproved'
    <3>1. PICK p \in PO : p = Ordered(a)  BY <1>1
    <3>2. Approved(p)'  BY <1>1, <2>2, <3>1 DEF Approve, Approved, TableTypeOK
    <3> QED  BY <1>1, <1>4, <2>2, <3>1, <3>2, OneStatusChanges
  <2> QED  BY <1>16, <2>1, <2>2 DEF RunApproves
<1>17. ASSUME RunRejects(a) PROVE PastGateWasApproved' /\ HeldChecksApproved'
  <2>1. ~PastGate("rejected")  BY DEF PastGate, InFlightStatus
  <2> QED  BY <1>1, <1>3, <1>4, <1>6, <1>17, <2>1, OneStatusChanges DEF RunRejects
<1>18. ASSUME SendEmail(a) PROVE PastGateWasApproved' /\ HeldChecksApproved'
  BY <1>3, <1>4, <1>18 DEF SendEmail
<1>19. PastGate(StatusOf(a)) => Approved(Ordered(a))
  BY <1>1 DEF PastGateWasApproved, Approved, StatusOf
<1>20. ASSUME EmailSentRead(a) PROVE PastGateWasApproved' /\ HeldChecksApproved'
  <2>1. Sendable(Ordered(a)) => Approved(Ordered(a))
    BY <1>19 DEF Sendable, StatusOf, PastGate, InFlightStatus
  <2> QED  BY <1>7, <1>20, <2>1 DEF EmailSentRead
<1>21. ASSUME EmailSentWrite(a) PROVE PastGateWasApproved' /\ HeldChecksApproved'
  <2>1. CASE Raise(a) /\ UNCHANGED order  BY <1>3, <1>6, <2>1
  <2>2. CASE ~(Raise(a) /\ UNCHANGED order)
    <3>1. PICK p \in PO : p = Ordered(a)  BY <1>1
    <3>2. Approved(p)
      BY <1>21, <3>1 DEF EmailSentWrite, At, Ordered, GateInv, HeldChecksApproved
    <3>3. order' = [order EXCEPT ![p] = [order[p] EXCEPT
                        !.status = "email_sent", !.sentAt = "recent", !.messageId = TRUE]]
      BY <1>1, <1>21, <2>2, <3>1 DEF EmailSentWrite, TableTypeOK
    <3>4. PastGateWasApproved'  BY <1>1, <3>2, <3>3, OneOrderChanges
    <3> QED  BY <1>4, <1>21, <2>2, <3>4 DEF EmailSentWrite
  <2> QED  BY <2>1, <2>2
<1>22. ASSUME WaitingRead(a) PROVE PastGateWasApproved' /\ HeldChecksApproved'
  <2>1. StatusOf(a) = "email_sent" => Approved(Ordered(a))
    BY <1>19 DEF PastGate, InFlightStatus
  <2> QED  BY <1>7, <1>22, <2>1 DEF WaitingRead
<1>23. ASSUME WaitingWrite(a) PROVE PastGateWasApproved' /\ HeldChecksApproved'
  <2>1. Approved(Ordered(a))
    BY <1>23 DEF WaitingWrite, At, Ordered, GateInv, HeldChecksApproved
  <2> QED  BY <1>8, <1>23, <2>1 DEF WaitingWrite
<1>24. ASSUME Poll(a) PROVE PastGateWasApproved' /\ HeldChecksApproved'
  <2>1. CASE run' = [run EXCEPT ![a].attempt = @ + 1]
    <3>1. run' = [run EXCEPT ![a] = run'[a]] /\ run'[a].pc = run[a].pc
      BY <1>1, <2>1 DEF AgentTypeOK, RunState
    <3> QED  BY <1>3, <1>9, <1>24, <3>1 DEF Poll, At, tableVars
  <2> QED  BY <1>3, <1>4, <1>6, <1>24, <2>1 DEF Poll, tableVars
<1>25. ASSUME ConfirmRead(a) PROVE PastGateWasApproved' /\ HeldChecksApproved'
  <2>1. StatusOf(a) = "waiting_confirmation" => Approved(Ordered(a))
    BY <1>19 DEF PastGate, InFlightStatus
  <2> QED  BY <1>7, <1>25, <2>1 DEF ConfirmRead
<1>26. ASSUME ConfirmWrite(a) PROVE PastGateWasApproved' /\ HeldChecksApproved'
  <2>1. Approved(Ordered(a))
    BY <1>26 DEF ConfirmWrite, At, Ordered, GateInv, HeldChecksApproved
  <2> QED  BY <1>8, <1>26, <2>1 DEF ConfirmWrite
<1>27. ASSUME MarkFailed(a) \/ MarkTimeout(a) PROVE PastGateWasApproved' /\ HeldChecksApproved'
  <2>1. ~PastGate("failed") /\ ~PastGate("timeout")  BY DEF PastGate, InFlightStatus
  <2> QED  BY <1>8, <1>27, <2>1 DEF MarkFailed, MarkTimeout
<1>28. ASSUME RecordWorkflow(a) PROVE PastGateWasApproved' /\ HeldChecksApproved'
  BY <1>3, <1>4, <1>5, <1>6, <1>28 DEF RecordWorkflow, Record, RecordAndReturn, tableVars
<1>29. ASSUME CrashRun(a) PROVE PastGateWasApproved' /\ HeldChecksApproved'
  BY <1>3, <1>4, <1>29 DEF CrashRun, tableVars
<1>30. PastGateWasApproved' /\ HeldChecksApproved'
  BY <1>10, <1>11, <1>12, <1>13, <1>14, <1>15, <1>16, <1>17, <1>18, <1>20, <1>21, <1>22, <1>23,
     <1>24, <1>25, <1>26, <1>27, <1>28, <1>29 DEF RunNext, Advance
<1> QED  BY <1>30, CopiesKept DEF GateInv

\* A deleted order is past no gate.
LEMMA GateDestroy ==
    ASSUME GateInv, TypeOK', NEW p \in PO, DestroyOrder(p),
           \A q \in PO : Approved(q) => Approved(q)'
    PROVE  GateInv'
<1>1. ~PastGate(EmptyRow("deleted").status)  BY DEF PastGate, EmptyRow, InFlightStatus
<1>2. PastGateWasApproved'  BY <1>1, OneOrderChanges DEF GateInv, DestroyOrder
<1>3. HeldChecksApproved'
  BY DEF GateInv, TypeOK, AgentTypeOK, RunState, HeldChecksApproved, DestroyOrder
<1> QED  BY <1>2, <1>3, CopiesKept DEF GateInv, DestroyOrder

LEMMA GateStep == GateInv /\ [Next]_vars => GateInv'
<1> SUFFICES ASSUME GateInv, [Next]_vars PROVE GateInv'  OBVIOUS
<1>1. TypeOK /\ TypeOK'  BY StepType DEF GateInv
<1>2. \A p \in PO : Approved(p) => Approved(p)'  BY <1>1, ApprovalsGrow
<1>3. CASE UNCHANGED vars
  <2>1. PastGateWasApproved' /\ HeldChecksApproved'
    BY <1>3 DEF vars, tableVars, agentVars, GateInv, PastGateWasApproved, HeldChecksApproved,
                Approved
  <2> QED  BY <1>1, <1>2, <1>3, <2>1, CopiesKept DEF vars, GateInv
<1>4. CASE Next
  BY <1>1, <1>2, <1>4, GateService, GateSweep, GateRun, GateDestroy DEF Next
<1> QED  BY <1>3, <1>4

\* Whatever managers, the tool, PATCHes, runs and the sweep write late and without a
\* lock, no order is ever past the approval gate that nobody approved.
THEOREM GateHolds == Spec => []PastGateWasApproved
<1>1. Init => GateInv  BY GateInit
<1>2. GateInv /\ [Next]_vars => GateInv'  BY GateStep
<1>3. GateInv => PastGateWasApproved  BY DEF GateInv
<1> QED  BY <1>1, <1>2, <1>3, PTL DEF Spec

-----------------------------------------------------------------------------
(***************************************************************************)
(* The subsystem implements the supplier-mail gate, provided approval      *)
(* transactions that have handed a mail to the broker do commit.  (When    *)
(* one is lost, the mail is out and the gate closes again: TLC shows it.)  *)
(***************************************************************************)
IsOpen(p) == Approved(p) \/ txn[p] # "none"

GateStep_(p) == MailGate!Open(p) \/ MailGate!Send(p)

LEMMA GateSame ==
    ASSUME \A p \in PO : IsOpen(p)' <=> IsOpen(p)
    PROVE  GateOf' = GateOf
BY DEF GateOf, IsOpen, Approved

LEMMA GateOpens ==
    ASSUME NEW q \in PO, IsOpen(q)', \A p \in PO \ {q} : IsOpen(p)' <=> IsOpen(p),
           UNCHANGED mails
    PROVE  MailGate!Open(q)
<1>1. GateOf' = [GateOf EXCEPT ![q] = "open"]  BY DEF GateOf, IsOpen, Approved
<1> QED  BY <1>1 DEF MailGate!Open

\* A mail leaves through an open gate, and leaves it open.
LEMMA MailLeaves ==
    ASSUME NEW q \in PO, IsOpen(q), \A p \in PO : IsOpen(p)' <=> IsOpen(p), EnqueueMail(q)
    PROVE  MailGate!Send(q)
<1>1. GateOf[q] = "open"  BY DEF GateOf, IsOpen, Approved
<1>2. GateOf' = GateOf  BY GateSame
<1> QED  BY <1>1, <1>2 DEF EnqueueMail, MailGate!Send

\* An approval opens one gate.
LEMMA ApproveOpens ==
    ASSUME TypeOK, NEW q \in PO, NEW who, Approve(q, who), UNCHANGED <<txn, mails>>
    PROVE  MailGate!Open(q)
<1>1. \A p \in PO \ {q} : IsOpen(p)' <=> IsOpen(p)
  BY DEF Approve, IsOpen, Approved, TypeOK, TableTypeOK
<1>2. IsOpen(q)'  BY DEF Approve, IsOpen, Approved, TypeOK, TableTypeOK
<1> QED  BY <1>1, <1>2, GateOpens

LEMMA ServiceRefines ==
    ASSUME GateInv, ~CommitMayFail, ServiceNext
    PROVE  (\E q \in PO : GateStep_(q)) \/ UNCHANGED <<GateOf, mails>>
<1> DEFINE Refines == (\E q \in PO : GateStep_(q)) \/ UNCHANGED <<GateOf, mails>>
<1>1. TypeOK /\ TableTypeOK /\ ServiceTypeOK  BY DEF GateInv, TypeOK
<1>2. ASSUME UNCHANGED <<txn, mails, approvals>> PROVE Refines
  <2>1. \A p \in PO : IsOpen(p)' <=> IsOpen(p)  BY <1>2 DEF IsOpen, Approved
  <2> QED  BY <1>2, <2>1, GateSame
<1>3. ASSUME NEW p \in PO, ApproveBegin(p) PROVE Refines
  <2>1. IsOpen(p)' /\ \A q \in PO \ {p} : IsOpen(q)' <=> IsOpen(q)
    BY <1>1, <1>3 DEF ApproveBegin, IsOpen, Approved, TableTypeOK
  <2> QED  BY <1>3, <2>1, GateOpens DEF ApproveBegin, GateStep_
<1>4. ASSUME NEW p \in PO, DispatchSupplierEmail(p) PROVE Refines
  <2>1. IsOpen(p) /\ \A q \in PO : IsOpen(q)' <=> IsOpen(q)
    BY <1>1, <1>4 DEF DispatchSupplierEmail, IsOpen, Approved, TableTypeOK
  <2>2. CASE EnqueueMail(p)  BY <2>1, <2>2, MailLeaves DEF GateStep_
  <2>3. CASE UNCHANGED mails  BY <2>1, <2>3, GateSame
  <2> QED  BY <1>4, <2>2, <2>3 DEF DispatchSupplierEmail
<1>5. ASSUME NEW p \in PO, ApproveCommit(p) PROVE Refines
  <2>1. \A q \in PO : IsOpen(q)' <=> IsOpen(q)
    BY <1>1, <1>5 DEF ApproveCommit, Approve, IsOpen, Approved, TableTypeOK
  <2> QED  BY <1>5, <2>1, GateSame DEF ApproveCommit
<1>6. ASSUME NEW c \in Client, TransitionWrite(c) PROVE Refines
  <2>1. PICK p \in PO : p = client[c].po
    BY <1>1, <1>6 DEF TransitionWrite, ServiceTypeOK, ClientState, Idle, Transition, Edit
  <2>2. CASE Approve(p, "tool")
    BY <1>1, <1>6, <2>1, <2>2, ApproveOpens DEF TransitionWrite, GateStep_
  <2> QED  BY <1>2, <1>6, <2>1, <2>2 DEF TransitionWrite
<1> QED
  BY <1>2, <1>3, <1>4, <1>5, <1>6
  DEF ServiceNext, ApproveRollback, RejectPO, SendPO, CreateOrder, TransitionRead, EditRead,
      EditSave, tableVars

LEMMA RunRefines ==
    ASSUME GateInv, NEW a \in Run, RunNext(a)
    PROVE  (\E q \in PO : GateStep_(q)) \/ UNCHANGED <<GateOf, mails>>
<1> DEFINE Refines == (\E q \in PO : GateStep_(q)) \/ UNCHANGED <<GateOf, mails>>
<1>1. TypeOK  BY DEF GateInv
<1>2. PICK p \in PO : p = Ordered(a)  BY <1>1 DEF TypeOK, AgentTypeOK, RunState, Ordered
<1>3. ASSUME UNCHANGED <<txn, mails, approvals>> PROVE Refines
  <2>1. \A q \in PO : IsOpen(q)' <=> IsOpen(q)  BY <1>3 DEF IsOpen, Approved
  <2> QED  BY <1>3, <2>1, GateSame
<1>4. CASE RunApproves(a)
  <2>1. ASSUME NEW who, Approve(p, who) PROVE Refines
    BY <1>1, <1>4, <2>1, ApproveOpens DEF RunApproves, GateStep_
  <2> QED  BY <1>2, <1>3, <1>4, <2>1 DEF RunApproves
<1>5. CASE SendEmail(a)
  <2>1. CASE Sendable(p) /\ EnqueueMail(p)
    <3>1. IsOpen(p)
      BY <2>1 DEF Sendable, GateInv, PastGateWasApproved, PastGate, InFlightStatus, IsOpen,
                  Approved
    <3>2. \A q \in PO : IsOpen(q)' <=> IsOpen(q)  BY <1>5 DEF SendEmail, IsOpen, Approved
    <3> QED  BY <2>1, <3>1, <3>2, MailLeaves DEF GateStep_
  <2> QED  BY <1>2, <1>3, <1>5, <2>1 DEF SendEmail
<1> QED
  BY <1>3, <1>4, <1>5
  DEF RunNext, Advance, StartRun, DraftInsert, CreateRow, WorkflowRead, WorkflowInsert, PendingRead,
      PendingWrite, ApprovalGate, RunRejects, EmailSentRead, EmailSentWrite, WaitingRead,
      WaitingWrite, Poll, ConfirmRead, ConfirmWrite, MarkFailed, MarkTimeout, RecordWorkflow,
      CrashRun, CheckThen, WriteThen, Record, RecordAndReturn, tableVars

LEMMA StepRefines ==
    ASSUME ~CommitMayFail
    PROVE  GateInv /\ [Next]_vars => [MailGate!Next]_<<GateOf, mails>>
<1> SUFFICES ASSUME GateInv, [Next]_vars PROVE [MailGate!Next]_<<GateOf, mails>>  OBVIOUS
<1> DEFINE Refines == (\E q \in PO : GateStep_(q)) \/ UNCHANGED <<GateOf, mails>>
<1>1. ASSUME UNCHANGED <<txn, mails, approvals>> PROVE Refines
  <2>1. \A q \in PO : IsOpen(q)' <=> IsOpen(q)  BY <1>1 DEF IsOpen, Approved
  <2> QED  BY <1>1, <2>1, GateSame
<1>2. ASSUME SweepNext PROVE Refines
  BY <1>1, <1>2 DEF SweepNext, SweepStart, SweepCrash, AgeOrder, SweepSave, SweepEscalate,
                    tableVars
<1>3. ASSUME NEW p \in PO, DestroyOrder(p) PROVE Refines  BY <1>1, <1>3 DEF DestroyOrder
<1>4. Refines
  BY <1>1, <1>2, <1>3, ServiceRefines, RunRefines DEF Next, vars, tableVars
<1> QED  BY <1>4 DEF GateStep_, MailGate!Next

LEMMA InitRefines == Init => MailGate!Init
BY DEF Init, TableInit, MailGate!Init, GateOf

\* approve_po's and the agent's paths to the supplier implement the gate: no mail
\* leaves for an order whose gate has not opened, and no gate closes again.
THEOREM MailGateImplemented ==
    ASSUME ~CommitMayFail
    PROVE  Spec => ImplementsMailGate
<1>1. Init => GateInv /\ MailGate!Init  BY GateInit, InitRefines
<1>2. GateInv /\ [Next]_vars => GateInv'  BY GateStep
<1>3. GateInv /\ [Next]_vars => [MailGate!Next]_MailGate!gateVars
  BY StepRefines DEF MailGate!gateVars
<1> QED  BY <1>1, <1>2, <1>3, PTL DEF Spec, ImplementsMailGate, MailGate!Spec

\* A mail is counted only behind an open gate: what MailWasApproved says, of the gate.
LEMMA MailBehindGate == MailWasApproved <=> \A p \in PO : mails[p] > 0 => GateOf[p] = "open"
BY DEF MailWasApproved, GateOf

\* The supplier of an order is mailed only once the order is approved or while its
\* approval is committing; it is the gate that is argued about, not the code again.
THEOREM NoMailBeforeApproval ==
    ASSUME ~CommitMayFail
    PROVE  Spec => []MailWasApproved
<1>1. Init => GateInv /\ MailWasApproved
  BY GateInit DEF Init, TableInit, MailWasApproved
<1>2. GateInv /\ MailWasApproved /\ [Next]_vars => (GateInv /\ MailWasApproved)'
  <2> SUFFICES ASSUME GateInv, MailWasApproved, [Next]_vars PROVE GateInv' /\ MailWasApproved'
    OBVIOUS
  <2>1. GateInv'  BY GateStep
  <2>2. [MailGate!Next]_<<GateOf, mails>>  BY StepRefines
  <2>3. GateOf \in [PO -> {"open", "closed"}] /\ mails \in [PO -> Nat]
    BY TableAssumption DEF GateOf, GateInv, TypeOK, TableTypeOK
  <2>4. \A p \in PO : mails[p] > 0 => GateOf[p] = "open"  BY MailBehindGate
  <2>5. \A p \in PO : mails'[p] > 0 => GateOf'[p] = "open"
    BY <2>2, <2>3, <2>4 DEF MailGate!Next, MailGate!Open, MailGate!Send
  <2>6. MailWasApproved'  BY <2>5 DEF MailWasApproved, GateOf
  <2> QED  BY <2>1, <2>6
<1> QED  BY <1>1, <1>2, PTL DEF Spec

-----------------------------------------------------------------------------
(***************************************************************************)
(* The unique index.                                                       *)
(*                                                                         *)
(* UniqueActive is not inductive: ApproveCommit writes 'approved' without  *)
(* looking at the other rows.  What it looked at when it began still holds *)
(* because its row is locked and its index entry keeps the others out.     *)
(***************************************************************************)

\* The order of an open approval transaction is at the gate.
LockedAtGate ==
    \A p \in PO : txn[p] # "none" => order[p].status \in {"draft", "pending_approval"}

\* No other order of its key is approved, or about to be.
LockedAlone ==
    \A p \in PO : \A q \in PO \ {p} :
        txn[p] # "none" /\ order[q].key = order[p].key
            => order[q].status # "approved" /\ txn[q] = "none"

IndexInv == TypeOK /\ UniqueActive /\ LockedAtGate /\ LockedAlone

LEMMA IndexInit == Init => IndexInv
<1> SUFFICES ASSUME Init PROVE IndexInv  OBVIOUS
<1>1. TypeOK  BY InitType
<1>2. \A p \in PO : order[p].status \notin ActiveStatus /\ txn[p] = "none"
  BY DEF Init, TableInit, EmptyRow, ActiveStatus
<1> QED  BY <1>1, <1>2 DEF IndexInv, UniqueActive, LockedAtGate, LockedAlone

\* A write the index lets through, or that it need not look at, to a row without a
\* transaction.
LEMMA RowWritten ==
    ASSUME IndexInv, TypeOK', NEW p \in PO, NEW row, txn[p] = "none", UNCHANGED txn,
           order' = [order EXCEPT ![p] = row],
           row.status \in ActiveStatus
               => ~IndexBusy(p, row.key, row.status) /\ ~Taken(p, row.key, row.status)
    PROVE  IndexInv'
<1>1. TypeOK /\ TableTypeOK /\ UniqueActive /\ LockedAtGate /\ LockedAlone
  BY DEF IndexInv, TypeOK
<1>2. order'[p] = row /\ \A q \in PO \ {p} : order'[q] = order[q]  BY <1>1 DEF TableTypeOK
<1>3. UniqueActive'
  <2>1. \A q \in PO \ {p} : row.status \in ActiveStatus /\ order[q].status = row.status
                                => order[q].key # row.key
    BY DEF Taken
  <2> QED  BY <1>1, <1>2, <2>1 DEF UniqueActive
<1>4. LockedAtGate'  BY <1>1, <1>2 DEF LockedAtGate
<1>5. LockedAlone'
  <2>1. \A q \in PO \ {p} : txn[q] # "none" /\ order[q].key = row.key => row.status # "approved"
    BY DEF IndexBusy, ActiveStatus
  <2> QED  BY <1>1, <1>2, <2>1 DEF LockedAlone
<1> QED  BY <1>3, <1>4, <1>5 DEF IndexInv

\* PurchasingRepository.update, under the same condition.
LEMMA StatusWritten ==
    ASSUME IndexInv, TypeOK', NEW p \in PO, NEW s, txn[p] = "none", UNCHANGED txn,
           SetStatus(p, s),
           s \in ActiveStatus
               => ~IndexBusy(p, order[p].key, s) /\ ~Taken(p, order[p].key, s)
    PROVE  IndexInv'
<1>1. order' = [order EXCEPT ![p] = [order[p] EXCEPT !.status = s]]
  BY DEF SetStatus, IndexInv, TypeOK, TableTypeOK
<1>2. /\ [order[p] EXCEPT !.status = s].status = s
      /\ [order[p] EXCEPT !.status = s].key = order[p].key
  BY DEF IndexInv, TypeOK, TableTypeOK, Row
<1> QED  BY <1>1, <1>2, RowWritten

LEMMA NothingWritten ==
    ASSUME IndexInv, TypeOK', UNCHANGED <<order, txn>> PROVE IndexInv'
BY DEF IndexInv, UniqueActive, LockedAtGate, LockedAlone

\* An approval: the row is looked at and locked, written, or let go.
LEMMA IndexApproval ==
    ASSUME IndexInv, TypeOK', NEW p \in PO,
           ApproveBegin(p) \/ DispatchSupplierEmail(p) \/ ApproveCommit(p) \/ ApproveRollback(p)
    PROVE  IndexInv'
<1>1. TypeOK /\ TableTypeOK /\ UniqueActive /\ LockedAtGate /\ LockedAlone
  BY DEF IndexInv, TypeOK
<1>2. CASE ApproveBegin(p)
  <2>1. order' = order /\ txn' = [txn EXCEPT ![p] = "updated"]  BY <1>2 DEF ApproveBegin
  <2>2. UniqueActive' /\ LockedAtGate'
    BY <1>1, <1>2, <2>1 DEF UniqueActive, LockedAtGate, ApproveBegin, TableTypeOK
  <2>3. \A q \in PO \ {p} : order[q].key = order[p].key
                                => order[q].status # "approved" /\ txn[q] = "none"
    BY <1>2 DEF ApproveBegin, CanWrite, IndexBusy, Taken, ActiveStatus
  <2>4. LockedAlone'  BY <1>1, <2>1, <2>3 DEF LockedAlone, TableTypeOK
  <2> QED  BY <2>2, <2>4 DEF IndexInv
<1>3. CASE DispatchSupplierEmail(p)
  <2>1. order' = order /\ \A q \in PO : txn[q] # "none" <=> txn'[q] # "none"
    BY <1>1, <1>3 DEF DispatchSupplierEmail, TableTypeOK
  <2> QED  BY <1>1, <2>1 DEF IndexInv, UniqueActive, LockedAtGate, LockedAlone
<1>4. CASE ApproveCommit(p)
  <2>1. /\ order'[p].status = "approved" /\ order'[p].key = order[p].key
        /\ \A q \in PO \ {p} : order'[q] = order[q]
        /\ txn'[p] = "none" /\ \A q \in PO \ {p} : txn'[q] = txn[q]
    BY <1>1, <1>4 DEF ApproveCommit, SetStatus, TableTypeOK, Row
  <2>2. \A q \in PO \ {p} : order[q].key = order[p].key
                                => order[q].status # "approved" /\ txn[q] = "none"
    BY <1>1, <1>4 DEF LockedAlone, ApproveCommit
  <2>3. UniqueActive'  BY <1>1, <2>1, <2>2 DEF UniqueActive
  <2>4. LockedAtGate' /\ LockedAlone'  BY <1>1, <2>1, <2>2 DEF LockedAtGate, LockedAlone
  <2> QED  BY <2>3, <2>4 DEF IndexInv
<1>5. CASE ApproveRollback(p)
  <2>1. order' = order /\ \A q \in PO : txn'[q] # "none" => txn[q] # "none"
    BY <1>1, <1>5 DEF ApproveRollback, TableTypeOK
  <2>2. \A q \in PO : txn[q] = "none" => txn'[q] = "none"  BY <2>1
  <2> QED  BY <1>1, <2>1, <2>2 DEF IndexInv, UniqueActive, LockedAtGate, LockedAlone
<1> QED  BY <1>2, <1>3, <1>4, <1>5

\* Every other statement of the service reaches the row and the index, or waits.
LEMMA IndexService == ASSUME IndexInv, TypeOK', ServiceNext PROVE IndexInv'
<1>1. TypeOK /\ TableTypeOK /\ ServiceTypeOK  BY DEF IndexInv, TypeOK
<1>2. ASSUME NEW p \in PO, RejectPO(p) PROVE IndexInv'
  BY <1>2, StatusWritten DEF RejectPO, ActiveStatus
<1>3. ASSUME NEW p \in PO, NEW row \in Writable(EmptyRow("draft")), CreateOrder(p, row)
      PROVE  IndexInv'
  BY <1>3, RowWritten DEF CreateOrder, CreateRow, CanWrite
<1>4. ASSUME NEW c \in Client, NEW p \in PO, SendPO(c, p) PROVE IndexInv'
  <2> DEFINE row == [order[p] EXCEPT !.status = "sent", !.sentAt = "recent"]
  <2>1. order' = [order EXCEPT ![p] = row]  BY <1>1, <1>4 DEF SendPO, TableTypeOK
  <2>2. row.status \notin ActiveStatus  BY <1>1 DEF TableTypeOK, Row, ActiveStatus
  <2> QED  BY <1>4, <2>1, <2>2, RowWritten DEF SendPO
<1>5. ASSUME NEW c \in Client, TransitionWrite(c) PROVE IndexInv'
  <2>1. PICK p \in PO : p = client[c].po
    BY <1>1, <1>5 DEF TransitionWrite, ServiceTypeOK, ClientState, Idle, Transition, Edit
  <2>2. PICK s : s = client[c].to  OBVIOUS
  <2>3. CASE UNCHANGED order  BY <1>5, <2>3, NothingWritten DEF TransitionWrite
  <2>4. CASE ~UNCHANGED order
    <3>1. SetStatus(p, s) /\ ~Refused(p, s) /\ CanWrite(p, order[p].key, s) /\ UNCHANGED txn
      BY <1>5, <2>1, <2>2, <2>4 DEF TransitionWrite
    <3> QED  BY <3>1, StatusWritten DEF Refused, CanWrite
  <2> QED  BY <2>3, <2>4
<1>6. ASSUME NEW c \in Client, EditSave(c) PROVE IndexInv'
  <2>1. PICK p \in PO : p = client[c].po
    BY <1>1, <1>6 DEF EditSave, ServiceTypeOK, ClientState, Idle, Transition, Edit
  <2>2. PICK row \in Writable(client[c].row) :
            /\ CanWrite(p, row.key, row.status)
            /\ IF Taken(p, row.key, row.status)
               THEN UNCHANGED order
               ELSE order' = [order EXCEPT ![p] = row]
    BY <1>6, <2>1 DEF EditSave
  <2>3. UNCHANGED txn  BY <1>6 DEF EditSave
  <2>4. CASE Taken(p, row.key, row.status)  BY <2>2, <2>3, <2>4, NothingWritten
  <2>5. CASE ~Taken(p, row.key, row.status)
    BY <2>2, <2>3, <2>5, RowWritten DEF CanWrite
  <2> QED  BY <2>4, <2>5
<1> QED
  BY <1>2, <1>3, <1>4, <1>5, <1>6, IndexApproval, NothingWritten
  DEF ServiceNext, TransitionRead, EditRead, tableVars

LEMMA IndexSweep == ASSUME IndexInv, TypeOK', SweepNext PROVE IndexInv'
<1>1. TypeOK /\ TableTypeOK /\ UniqueActive /\ LockedAtGate /\ LockedAlone
  BY DEF IndexInv, TypeOK
<1>2. ASSUME NEW p \in PO, AgeOrder(p) PROVE IndexInv'
  <2>1. \A q \in PO : order'[q].status = order[q].status /\ order'[q].key = order[q].key
    BY <1>1, <1>2 DEF AgeOrder, TableTypeOK, Row
  <2>2. txn' = txn  BY <1>2 DEF AgeOrder
  <2> QED  BY <1>1, <2>1, <2>2 DEF IndexInv, UniqueActive, LockedAtGate, LockedAlone
<1>3. ASSUME NEW p \in PO, SweepSave(p) PROVE IndexInv'
  BY <1>3, StatusWritten, NothingWritten DEF SweepSave, ActiveStatus
<1> QED
  BY <1>2, <1>3, NothingWritten DEF SweepNext, SweepStart, SweepCrash, SweepEscalate, tableVars

LEMMA IndexRun == ASSUME IndexInv, TypeOK', NEW a \in Run, RunNext(a) PROVE IndexInv'
<1>1. TypeOK /\ TableTypeOK  BY DEF IndexInv, TypeOK
<1>2. PICK p \in PO : p = Ordered(a)  BY <1>1 DEF TypeOK, AgentTypeOK, RunState, Ordered
<1>3. ASSUME NEW s, NEW pc, WriteThen(a, s, pc) PROVE IndexInv'
  <2>1. CASE Refused(p, s)  BY <1>2, <1>3, <2>1, NothingWritten DEF WriteThen
  <2>2. CASE ~Refused(p, s)
    <3>1. SetStatus(p, s) /\ CanWrite(p, order[p].key, s) /\ UNCHANGED txn
      BY <1>2, <1>3, <2>2 DEF WriteThen
    <3> QED  BY <2>2, <3>1, StatusWritten DEF Refused, CanWrite
  <2> QED  BY <2>1, <2>2
<1>4. CASE DraftInsert(a)
  <2>1. CASE UNCHANGED order  BY <1>4, <2>1, NothingWritten DEF DraftInsert
  <2>2. CASE ~UNCHANGED order
    <3>1. PICK q \in PO : CreateRow(q, [EmptyRow("draft") EXCEPT !.key = run[a].key])
      BY <1>4, <2>2 DEF DraftInsert
    <3>2. UNCHANGED txn  BY <1>4 DEF DraftInsert
    <3> QED  BY <3>1, <3>2, RowWritten DEF CreateRow, CanWrite
  <2> QED  BY <2>1, <2>2
<1>5. CASE RunApproves(a)
  <2>1. CASE UNCHANGED order  BY <1>5, <2>1, NothingWritten DEF RunApproves
  <2>2. CASE ~UNCHANGED order
    <3>1. /\ SetStatus(p, "approved") /\ ~Refused(p, "approved")
          /\ CanWrite(p, order[p].key, "approved") /\ UNCHANGED txn
      BY <1>2, <1>5, <2>2 DEF RunApproves
    <3> QED  BY <3>1, StatusWritten DEF Refused, CanWrite
  <2> QED  BY <2>1, <2>2
<1>6. CASE RunRejects(a)
  BY <1>2, <1>6, StatusWritten, NothingWritten DEF RunRejects, ActiveStatus
<1>7. CASE EmailSentWrite(a)
  <2>1. CASE UNCHANGED order  BY <1>7, <2>1, NothingWritten DEF EmailSentWrite
  <2>2. CASE ~UNCHANGED order
    <3> DEFINE row == [order[p] EXCEPT !.status = "email_sent", !.sentAt = "recent",
                                       !.messageId = TRUE]
    <3>1. order' = [order EXCEPT ![p] = row] /\ txn[p] = "none" /\ UNCHANGED txn
      BY <1>1, <1>2, <1>7, <2>2 DEF EmailSentWrite, TableTypeOK
    <3>2. row.status \notin ActiveStatus  BY <1>1 DEF TableTypeOK, Row, ActiveStatus
    <3> QED  BY <3>1, <3>2, RowWritten
  <2> QED  BY <2>1, <2>2
<1>8. CASE PendingWrite(a) \/ WaitingWrite(a) \/ ConfirmWrite(a) \/ MarkFailed(a) \/ MarkTimeout(a)
  BY <1>3, <1>8 DEF PendingWrite, WaitingWrite, ConfirmWrite, MarkFailed, MarkTimeout
<1> QED
  BY <1>4, <1>5, <1>6, <1>7, <1>8, NothingWritten
  DEF RunNext, Advance, StartRun, WorkflowRead, WorkflowInsert, PendingRead, ApprovalGate,
      SendEmail, EmailSentRead, WaitingRead, Poll, ConfirmRead, RecordWorkflow, CrashRun,
      CheckThen, Record, RecordAndReturn, tableVars

LEMMA IndexStep == IndexInv /\ [Next]_vars => IndexInv'
<1> SUFFICES ASSUME IndexInv, [Next]_vars PROVE IndexInv'  OBVIOUS
<1>1. TypeOK'  BY StepType DEF IndexInv
<1>2. ASSUME NEW p \in PO, DestroyOrder(p) PROVE IndexInv'
  <2>1. EmptyRow("deleted").status \notin ActiveStatus  BY DEF EmptyRow, ActiveStatus
  <2> QED  BY <1>1, <1>2, <2>1, RowWritten DEF DestroyOrder
<1>3. CASE UNCHANGED vars  BY <1>1, <1>3, NothingWritten DEF vars, tableVars
<1> QED  BY <1>1, <1>2, <1>3, IndexService, IndexSweep, IndexRun DEF Next

LEMMA IndexInvHolds == Spec => []IndexInv
BY IndexInit, IndexStep, PTL DEF Spec

\* The partial unique index and the row locks keep two orders of one key from ever
\* sharing an active status, the approval that commits blindly included.
THEOREM ActiveOrdersAreUnique == Spec => []UniqueActive
<1>1. IndexInv => UniqueActive  BY DEF IndexInv
<1> QED  BY <1>1, IndexInvHolds, PTL

-----------------------------------------------------------------------------
(***************************************************************************)
(* Who decides: what a service call holds is what it may be asked for.     *)
(***************************************************************************)
HeldInv == TypeOK /\ HeldIsAllowed

LEMMA HeldStep == HeldInv /\ [Next]_vars => HeldInv'
<1> SUFFICES ASSUME HeldInv, [Next]_vars PROVE HeldInv'  OBVIOUS
<1>1. TypeOK /\ ServiceTypeOK /\ TypeOK'  BY StepType DEF HeldInv, TypeOK
<1>2. ASSUME UNCHANGED client PROVE HeldInv'  BY <1>1, <1>2 DEF HeldInv, HeldIsAllowed
<1>3. CASE ServiceNext  BY <1>1, <1>3, HeldService DEF HeldInv
<1> QED  BY <1>2, <1>3 DEF Next, DestroyOrder, vars


LEMMA HeldInvHolds == Spec => []HeldInv
<1>1. Init => HeldInv
  BY InitType DEF HeldInv, HeldIsAllowed, Init, ServiceInit, Idle
<1> QED  BY <1>1, HeldStep, PTL DEF Spec

\* No run stands before the approval.
NobodyElseApproves ==
    \A a \in Run : run[a].ctx # "callback" /\ run[a].pc # "approve"

ManagersInv == HeldInv /\ NobodyElseApproves /\ OnlyManagersApprove

LEMMA ManagersRun ==
    ASSUME Production, "callback" \notin Context, ManagersInv, NEW a \in Run, RunNext(a)
    PROVE  NobodyElseApproves' /\ UNCHANGED approvals
<1>1. TypeOK /\ AgentTypeOK /\ run[a] \in RunState
  BY DEF ManagersInv, HeldInv, TypeOK, AgentTypeOK
<1>2. run[a].ctx # "callback" /\ run[a].pc # "approve"  BY DEF ManagersInv, NobodyElseApproves
<1>3. ASSUME run'[a].ctx # "callback" /\ run'[a].pc # "approve" PROVE NobodyElseApproves'
  BY <1>1, <1>3, RunsElsewhere DEF ManagersInv, NobodyElseApproves
<1>4. ASSUME NEW pc, Goto(a, pc), pc # "approve" PROVE NobodyElseApproves'
  BY <1>1, <1>2, <1>3, <1>4, RunGoes
<1>5. ASSUME NEW r, Return(a, r) PROVE NobodyElseApproves'
  BY <1>1, <1>2, <1>3, <1>5, RunEnds
<1>6. ASSUME Raise(a) PROVE NobodyElseApproves'  BY <1>5, <1>6 DEF Raise
<1>7. ASSUME NEW k \in Key, NEW ctx \in Context, StartRun(a, k, ctx)
      PROVE  NobodyElseApproves' /\ UNCHANGED approvals
  <2>1. run'[a].ctx = ctx /\ run'[a].pc # "approve"  BY <1>1, <1>7, RunStarts
  <2>2. ctx # "callback"  OBVIOUS
  <2> QED  BY <1>3, <1>7, <2>1, <2>2 DEF StartRun, tableVars
<1>8. CASE DraftInsert(a)  BY <1>1, <1>2, <1>3, <1>8, RunDrafts DEF DraftInsert
<1>9. CASE ApprovalGate(a)
  <2>1. Decisions(a) = {"return"}  BY <1>2 DEF Decisions
  <2> QED  BY <1>5, <1>6, <1>9, <2>1 DEF ApprovalGate, tableVars
<1>10. CASE Poll(a)  BY <1>1, <1>2, <1>3, <1>10, RunPolls DEF Poll, tableVars
<1>11. CASE RunApproves(a)  BY <1>2, <1>11 DEF RunApproves, At
<1> QED
  BY <1>4, <1>5, <1>6, <1>7, <1>8, <1>9, <1>10, <1>11
  DEF RunNext, Advance, WorkflowRead, WorkflowInsert, PendingRead, PendingWrite, RunRejects,
      SendEmail, EmailSentRead, EmailSentWrite, WaitingRead, WaitingWrite, ConfirmRead,
      ConfirmWrite, MarkFailed, MarkTimeout, RecordWorkflow, CrashRun, CheckThen, WriteThen,
      Record, RecordAndReturn, tableVars

LEMMA ManagersStep ==
    ASSUME Production, "callback" \notin Context, "approved" \notin ToolTargets
    PROVE  ManagersInv /\ [Next]_vars => ManagersInv'
<1> SUFFICES ASSUME ManagersInv, [Next]_vars PROVE ManagersInv'  OBVIOUS
<1>1. HeldInv /\ HeldInv' /\ TypeOK /\ TableTypeOK
  BY HeldStep DEF ManagersInv, HeldInv, TypeOK
<1>2. ASSUME UNCHANGED <<approvals, run>> PROVE ManagersInv'
  BY <1>1, <1>2 DEF ManagersInv, NobodyElseApproves, OnlyManagersApprove
<1>3. ASSUME NEW p \in PO, ApproveCommit(p), UNCHANGED run PROVE ManagersInv'
  <2>1. \A q \in PO : approvals'[q] \subseteq approvals[q] \cup {"manager"}
    BY <1>1, <1>3 DEF ApproveCommit, Approve, TableTypeOK
  <2> QED  BY <1>1, <1>3, <2>1 DEF ManagersInv, NobodyElseApproves, OnlyManagersApprove
<1>4. ASSUME NEW c \in Client, TransitionWrite(c) PROVE UNCHANGED approvals
  <2>1. client[c].to # "approved"
    BY <1>1, <1>4 DEF HeldInv, HeldIsAllowed, TransitionWrite
  <2> QED  BY <1>4, <2>1 DEF TransitionWrite
<1>5. CASE ServiceNext /\ UNCHANGED <<sweepVars, agentVars>>
  BY <1>2, <1>3, <1>4, <1>5
  DEF ServiceNext, ApproveBegin, DispatchSupplierEmail, ApproveRollback, RejectPO, CreateOrder,
      SendPO, TransitionRead, EditRead, EditSave, tableVars, agentVars
<1>6. CASE SweepNext /\ UNCHANGED <<client, agentVars>>
  BY <1>2, <1>6
  DEF SweepNext, SweepStart, SweepCrash, AgeOrder, SweepSave, SweepEscalate, tableVars, agentVars
<1>7. ASSUME NEW a \in Run, RunNext(a) PROVE ManagersInv'
  BY <1>1, <1>7, ManagersRun DEF ManagersInv, OnlyManagersApprove
<1> QED  BY <1>2, <1>5, <1>6, <1>7 DEF Next, DestroyOrder, vars, tableVars, agentVars

\* In production, with no callback and a tool that is not asked to approve, whatever
\* auto_approve, the retries and the races do, only managers' approvals count.
THEOREM ManagersDecide ==
    ASSUME Production, "callback" \notin Context, "approved" \notin ToolTargets
    PROVE  Spec => []OnlyManagersApprove
<1>1. Init => ManagersInv
  BY InitType DEF ManagersInv, HeldInv, HeldIsAllowed, NobodyElseApproves, OnlyManagersApprove,
                  Init, TableInit, ServiceInit, Idle, AgentInit, NewRun
<1>2. ManagersInv /\ [Next]_vars => ManagersInv'  BY ManagersStep
<1>3. ManagersInv => OnlyManagersApprove  BY DEF ManagersInv
<1> QED  BY <1>1, <1>2, <1>3, PTL DEF Spec

-----------------------------------------------------------------------------
(***************************************************************************)
(* Decisions are serialised.                                               *)
(***************************************************************************)
Decided(p) ==
    order'[p].status = "approved" /\ order[p].status # "approved"
        => order[p].status \in {"draft", "pending_approval"}

\* A write of another status decides nothing.
LEMMA OtherStatusWritten ==
    ASSUME TypeOK, NEW p \in PO, NEW row, order' = [order EXCEPT ![p] = row],
           row.status # "approved"
    PROVE  \A q \in PO : Decided(q)
BY DEF Decided, TypeOK, TableTypeOK

LEMMA StatusDecides ==
    ASSUME TypeOK, NEW p \in PO, NEW s, SetStatus(p, s),
           s = "approved" => order[p].status \in {"draft", "pending_approval"}
    PROVE  \A q \in PO : Decided(q)
BY DEF Decided, SetStatus, TypeOK, TableTypeOK, Row

LEMMA DecisionsStep ==
    ASSUME ~Editing, "approved" \notin ToolTargets, IndexInv, HeldInv, [Next]_vars
    PROVE  \A p \in PO : Decided(p)
<1> DEFINE Serial == \A p \in PO : Decided(p)
<1>1. TypeOK /\ TableTypeOK /\ ServiceTypeOK /\ HeldIsAllowed /\ LockedAtGate
  BY DEF IndexInv, HeldInv, TypeOK
<1>2. ASSUME UNCHANGED order PROVE Serial  BY <1>2 DEF Decided
<1>3. ASSUME NEW p \in PO, ApproveCommit(p) PROVE Serial
  BY <1>1, <1>3, StatusDecides DEF ApproveCommit, LockedAtGate
<1>4. ASSUME NEW p \in PO, RejectPO(p) PROVE Serial  BY <1>1, <1>4, StatusDecides DEF RejectPO
<1>5. ASSUME NEW p \in PO, NEW row \in Writable(EmptyRow("draft")), CreateOrder(p, row)
      PROVE  Serial
  <2>1. row.status = "draft"  BY DEF Writable, EmptyRow
  <2> QED  BY <1>1, <1>5, <2>1, OtherStatusWritten DEF CreateOrder, CreateRow
<1>6. ASSUME NEW c \in Client, NEW p \in PO, SendPO(c, p) PROVE Serial
  BY <1>1, <1>6 DEF SendPO, Decided, TableTypeOK, Row
<1>7. ASSUME NEW c \in Client, TransitionWrite(c) PROVE Serial
  <2>1. PICK p \in PO : p = client[c].po
    BY <1>1, <1>7 DEF TransitionWrite, ServiceTypeOK, ClientState, Idle, Transition, Edit
  <2>2. PICK s : s = client[c].to  OBVIOUS
  <2>3. s # "approved"  BY <1>1, <1>7, <2>2 DEF HeldIsAllowed, TransitionWrite
  <2> QED  BY <1>1, <1>2, <1>7, <2>1, <2>2, <2>3, StatusDecides DEF TransitionWrite
<1>8. ASSUME NEW c \in Client PROVE ~EditSave(c)  BY <1>1 DEF HeldIsAllowed, EditSave
<1>9. CASE ServiceNext
  BY <1>2, <1>3, <1>4, <1>5, <1>6, <1>7, <1>8, <1>9
  DEF ServiceNext, ApproveBegin, DispatchSupplierEmail, ApproveRollback, TransitionRead, EditRead,
      tableVars
<1>10. ASSUME NEW p \in PO, AgeOrder(p) PROVE Serial
  BY <1>1, <1>10 DEF AgeOrder, Decided, TableTypeOK, Row
<1>11. ASSUME NEW p \in PO, SweepSave(p) PROVE Serial
  BY <1>1, <1>2, <1>11, StatusDecides DEF SweepSave
<1>12. CASE SweepNext
  BY <1>2, <1>10, <1>11, <1>12 DEF SweepNext, SweepStart, SweepCrash, SweepEscalate, tableVars
<1>13. ASSUME NEW a \in Run, RunNext(a) PROVE Serial
  <2>1. PICK p \in PO : p = Ordered(a)
    BY <1>1 DEF TypeOK, AgentTypeOK, RunState, Ordered
  <2>2. ASSUME NEW s, NEW pc, WriteThen(a, s, pc), s # "approved" PROVE Serial
    BY <1>1, <1>2, <2>1, <2>2, StatusDecides DEF WriteThen
  <2>3. CASE DraftInsert(a)
    <3>1. CASE UNCHANGED order  BY <1>2, <3>1
    <3>2. CASE ~UNCHANGED order
      <4>1. PICK q \in PO : CreateRow(q, [EmptyRow("draft") EXCEPT !.key = run[a].key])
        BY <2>3, <3>2 DEF DraftInsert
      <4>2. [EmptyRow("draft") EXCEPT !.key = run[a].key].status = "draft"  BY DEF EmptyRow
      <4> QED  BY <1>1, <4>1, <4>2, OtherStatusWritten DEF CreateRow
    <3> QED  BY <3>1, <3>2
  <2>4. CASE RunApproves(a)
    BY <1>1, <1>2, <2>1, <2>4, StatusDecides DEF RunApproves, StatusOf
  <2>5. CASE RunRejects(a)  BY <1>1, <1>2, <2>1, <2>5, StatusDecides DEF RunRejects
  <2>6. CASE EmailSentWrite(a)
    BY <1>1, <1>2, <2>1, <2>6 DEF EmailSentWrite, Decided, TableTypeOK, Row
  <2>7. CASE PendingWrite(a) \/ WaitingWrite(a) \/ ConfirmWrite(a) \/ MarkFailed(a)
             \/ MarkTimeout(a)
    BY <2>2, <2>7 DEF PendingWrite, WaitingWrite, ConfirmWrite, MarkFailed, MarkTimeout
  <2> QED
    BY <1>2, <1>13, <2>3, <2>4, <2>5, <2>6, <2>7
    DEF RunNext, Advance, StartRun, WorkflowRead, WorkflowInsert, PendingRead, ApprovalGate,
        SendEmail, EmailSentRead, WaitingRead, Poll, ConfirmRead, RecordWorkflow, CrashRun,
        CheckThen, Record, RecordAndReturn, tableVars
<1>14. ASSUME NEW p \in PO PROVE ~DestroyOrder(p)  BY DEF DestroyOrder
<1> QED  BY <1>2, <1>9, <1>12, <1>13, <1>14 DEF Next, vars, tableVars

\* Where nobody edits and the tool does not approve, the row lock serialises the
\* decisions: no approval lands on an order that was rejected or went on meanwhile.
THEOREM RowLockSerialisesDecisions ==
    ASSUME ~Editing, "approved" \notin ToolTargets
    PROVE  Spec => DecisionsAreSerialised
<1>1. IndexInv /\ HeldInv /\ [Next]_vars
          => [\A p \in PO : order'[p].status = "approved" /\ order[p].status # "approved"
                                => order[p].status \in {"draft", "pending_approval"}]_vars
  BY DecisionsStep DEF Decided
<1> QED  BY <1>1, IndexInvHolds, HeldInvHolds, PTL DEF Spec, DecisionsAreSerialised

-----------------------------------------------------------------------------
(***************************************************************************)
(* Workflow records.  A run that goes on to record the mail has sent it.   *)
(***************************************************************************)
Mailing ==
    {"email_sent_read", "email_sent_write", "record_email_sent", "waiting_read", "waiting_write",
     "record_waiting", "poll", "confirm_read", "confirm_write", "record_confirmed", "time_out",
     "record_timeout"}

MailingRunsMailed == \A a \in Run : run[a].pc \in Mailing => mails[run[a].po] > 0

MailedInv == TypeOK /\ MailingRunsMailed /\ WorkflowWasMailed

LEMMA MailsGrow ==
    ASSUME TypeOK, [Next]_vars, NEW p \in PO, mails[p] > 0
    PROVE  mails'[p] > 0
<1>1. ASSUME NEW q \in PO, EnqueueMail(q) PROVE mails'[p] > 0
  BY <1>1, TableAssumption DEF EnqueueMail, TypeOK, TableTypeOK
<1>2. ASSUME UNCHANGED mails PROVE mails'[p] > 0  BY <1>2
<1>3. ASSUME NEW q \in PO, DispatchSupplierEmail(q) PROVE mails'[p] > 0
  BY <1>1, <1>2, <1>3 DEF DispatchSupplierEmail
<1>4. ASSUME NEW a \in Run, SendEmail(a) PROVE mails'[p] > 0
  BY <1>1, <1>2, <1>4 DEF SendEmail, TypeOK, AgentTypeOK, Ordered, RunState
<1>5. CASE ServiceNext
  BY <1>2, <1>3, <1>5
  DEF ServiceNext, ApproveBegin, ApproveCommit, ApproveRollback, RejectPO, CreateOrder, SendPO,
      TransitionRead, TransitionWrite, EditRead, EditSave, tableVars
<1>6. CASE SweepNext
  BY <1>2, <1>6 DEF SweepNext, SweepStart, SweepCrash, AgeOrder, SweepSave, SweepEscalate, tableVars
<1>7. ASSUME NEW a \in Run, RunNext(a) PROVE mails'[p] > 0
  BY <1>2, <1>4, <1>7
  DEF RunNext, Advance, StartRun, DraftInsert, WorkflowRead, WorkflowInsert, PendingRead,
      PendingWrite, ApprovalGate, RunApproves, RunRejects, EmailSentRead, EmailSentWrite,
      WaitingRead, WaitingWrite, Poll, ConfirmRead, ConfirmWrite, MarkFailed, MarkTimeout,
      RecordWorkflow, CrashRun, CheckThen, WriteThen, Record, RecordAndReturn, tableVars
<1> QED  BY <1>2, <1>5, <1>6, <1>7 DEF Next, DestroyOrder, vars, tableVars

\* A step of a run goes on from a mail that was sent.
LEMMA MailingGoesOn ==
    ASSUME MailedInv, NEW a \in Run, RunNext(a), run'[a].pc \in Mailing
    PROVE  run'[a].po = run[a].po /\ (run[a].pc \in Mailing \/ mails'[run[a].po] > 0)
<1>1. TypeOK /\ TableTypeOK /\ AgentTypeOK /\ Ordered(a) \in PO
  BY DEF MailedInv, TypeOK, AgentTypeOK, Ordered, RunState
<1>2. CASE \E k \in Key, ctx \in Context : StartRun(a, k, ctx)
  BY <1>1, <1>2, RunStarts DEF Mailing
<1>3. CASE DraftInsert(a)  BY <1>1, <1>3, RunDrafts DEF Mailing
<1>4. CASE SendEmail(a)
  <2>1. CASE EnqueueMail(Ordered(a))
    <3>1. mails'[Ordered(a)] > 0
      BY <1>1, <2>1, TableAssumption DEF EnqueueMail, TableTypeOK
    <3>2. run'[a].po = run[a].po  BY <1>1, <1>4, RunGoes DEF SendEmail
    <3> QED  BY <3>1, <3>2 DEF Ordered
  <2>2. CASE Goto(a, "fail")  BY <1>1, <2>2, RunGoes DEF Mailing
  <2> QED  BY <1>4, <2>1, <2>2 DEF SendEmail
<1>5. CASE Poll(a)  BY <1>1, <1>5, RunPolls DEF Poll, At, Mailing
<1>6. CASE ApprovalGate(a)
  <2>1. \A d \in Decisions(a) : d \notin Mailing  BY DEF Decisions, Mailing
  <2> QED  BY <1>1, <1>6, <2>1, RunGoes, RunEnds, RunRaises DEF ApprovalGate, Mailing
<1>7. CASE RecordWorkflow(a)
  BY <1>1, <1>7, RunGoes, RunEnds, RunRaises
  DEF RecordWorkflow, Record, RecordAndReturn, At, Mailing
<1>8. ASSUME NEW s, NEW pc, WriteThen(a, s, pc)
      PROVE  run'[a].pc \in {pc, "done"} /\ run'[a].po = run[a].po
  BY <1>1, <1>8, RunGoes, RunRaises DEF WriteThen
<1>9. ASSUME NEW passes, NEW pc, CheckThen(a, passes, pc)
      PROVE  run'[a].pc \in {pc, "done"} /\ run'[a].po = run[a].po
  BY <1>1, <1>9, RunGoes, RunRaises DEF CheckThen
<1>10. CASE PendingWrite(a) \/ WaitingWrite(a) \/ ConfirmWrite(a) \/ MarkFailed(a) \/ MarkTimeout(a)
  BY <1>8, <1>10
  DEF PendingWrite, WaitingWrite, ConfirmWrite, MarkFailed, MarkTimeout, At, Mailing
<1>11. CASE PendingRead(a) \/ EmailSentRead(a) \/ WaitingRead(a) \/ ConfirmRead(a)
  <2>1. CASE PendingRead(a)
    <3> DEFINE next == IF Exists(Ordered(a)) /\ "pending_approval" \in LEGAL_TRANSITIONS[StatusOf(a)]
                       THEN "pending_write" ELSE "gate"
    <3>1. CheckThen(a, TRUE, next)  BY <2>1 DEF PendingRead
    <3>2. next \notin Mailing /\ "done" \notin Mailing  BY DEF Mailing
    <3> HIDE DEF next
    <3> QED  BY <1>9, <3>1, <3>2
  <2>2. CASE EmailSentRead(a)  BY <1>9, <2>2 DEF EmailSentRead, At, Mailing
  <2>3. CASE WaitingRead(a)  BY <1>9, <2>3 DEF WaitingRead, At, Mailing
  <2>4. CASE ConfirmRead(a)  BY <1>9, <2>4 DEF ConfirmRead, At, Mailing
  <2> QED  BY <1>11, <2>1, <2>2, <2>3, <2>4
<1>12. CASE WorkflowRead(a) \/ WorkflowInsert(a) \/ RunApproves(a) \/ RunRejects(a) \/ CrashRun(a)
  BY <1>1, <1>12, RunGoes, RunRaises
  DEF WorkflowRead, WorkflowInsert, RunApproves, RunRejects, CrashRun, Mailing
<1>13. CASE EmailSentWrite(a)
  BY <1>1, <1>13, RunGoes, RunRaises DEF EmailSentWrite, At, Mailing
<1> QED
  BY <1>2, <1>3, <1>4, <1>5, <1>6, <1>7, <1>10, <1>11, <1>12, <1>13 DEF RunNext, Advance

MailedStatus == {"email_sent", "waiting_confirmation", "confirmed", "timeout"}

\* What a run writes into the workflow row says the mail left only if it did.
LEMMA RunRecords ==
    ASSUME MailedInv, NEW a \in Run, RunNext(a), NEW p \in PO, workflow'[p] \in MailedStatus
    PROVE  workflow[p] \in MailedStatus \/ mails[p] > 0
<1>1. AgentTypeOK  BY DEF MailedInv, TypeOK
<1>2. ASSUME NEW s, UpdateStatus(a, s), s \in MailedStatus => run[a].pc \in Mailing
      PROVE  workflow[p] \in MailedStatus \/ mails[p] > 0
  <2>1. workflow'[p] # workflow[p] => p = run[a].po /\ workflow'[p] = s
    BY <1>1, <1>2 DEF UpdateStatus, Ordered, AgentTypeOK
  <2> QED  BY <1>2, <2>1 DEF MailedInv, MailingRunsMailed
<1>3. CASE RecordWorkflow(a)
  BY <1>2, <1>3 DEF RecordWorkflow, Record, RecordAndReturn, At, Mailing, MailedStatus
<1>4. CASE ApprovalGate(a)  BY <1>2, <1>4 DEF ApprovalGate, MailedStatus
<1>5. CASE WorkflowInsert(a)
  BY <1>1, <1>5 DEF WorkflowInsert, AgentTypeOK, MailedStatus
<1> QED
  BY <1>3, <1>4, <1>5
  DEF RunNext, Advance, StartRun, DraftInsert, WorkflowRead, PendingRead, PendingWrite,
      RunApproves, RunRejects, SendEmail, EmailSentRead, EmailSentWrite, WaitingRead,
      WaitingWrite, Poll, ConfirmRead, ConfirmWrite, MarkFailed, MarkTimeout, CrashRun, CheckThen,
      WriteThen

LEMMA MailedStep == MailedInv /\ [Next]_vars => MailedInv'
<1> SUFFICES ASSUME MailedInv, [Next]_vars PROVE MailedInv'  OBVIOUS
<1>1. TypeOK /\ TypeOK' /\ AgentTypeOK  BY StepType DEF MailedInv, TypeOK
<1>2. \A p \in PO : mails[p] > 0 => mails'[p] > 0  BY <1>1, MailsGrow
<1>3. \A a \in Run : run[a].po \in PO  BY <1>1 DEF AgentTypeOK, RunState
<1>4. ASSUME UNCHANGED run PROVE MailingRunsMailed'
  BY <1>2, <1>3, <1>4 DEF MailedInv, MailingRunsMailed
<1>5. ASSUME \A p \in PO : workflow'[p] \in MailedStatus
                               => workflow[p] \in MailedStatus \/ mails[p] > 0
      PROVE  WorkflowWasMailed'
  BY <1>2, <1>5 DEF MailedInv, WorkflowWasMailed, MailedStatus
<1>6. ASSUME NEW a \in Run, RunNext(a) PROVE MailedInv'
  <2>1. WorkflowWasMailed'  BY <1>5, <1>6, RunRecords
  <2>2. ASSUME NEW b \in Run, run'[b].pc \in Mailing PROVE mails'[run'[b].po] > 0
    <3>1. CASE b = a
      BY <1>2, <1>3, <1>6, <2>2, <3>1, MailingGoesOn DEF MailedInv, MailingRunsMailed
    <3>2. CASE b # a
      BY <1>1, <1>2, <1>3, <1>6, <2>2, <3>2, RunsElsewhere DEF MailedInv, MailingRunsMailed
    <3> QED  BY <3>1, <3>2
  <2> QED  BY <1>1, <2>1, <2>2 DEF MailedInv, MailingRunsMailed
<1>7. ASSUME NEW p \in PO, DestroyOrder(p) PROVE MailedInv'
  <2>1. \A q \in PO : workflow'[q] \in MailedStatus => workflow[q] \in MailedStatus
    BY <1>1, <1>7 DEF DestroyOrder, AgentTypeOK, NoWorkflow, MailedStatus
  <2> QED  BY <1>1, <1>4, <1>5, <1>7, <2>1 DEF MailedInv, DestroyOrder
<1> QED  BY <1>1, <1>4, <1>5, <1>6, <1>7 DEF Next, vars, agentVars, MailedInv

\* Every workflow row that says the supplier was mailed is right, whichever run wrote
\* it, whatever became of the order and wherever runs are killed.
THEOREM WorkflowsTellTheTruth == Spec => []WorkflowWasMailed
<1>1. Init => MailedInv
  BY InitType DEF MailedInv, MailingRunsMailed, WorkflowWasMailed, Init, AgentInit, NewRun,
                  NoWorkflow, Mailing
<1>2. MailedInv => WorkflowWasMailed  BY DEF MailedInv
<1> QED  BY <1>1, <1>2, MailedStep, PTL DEF Spec

-----------------------------------------------------------------------------
(***************************************************************************)
(* What the sweep sees.  Where nobody edits, a sent_at that is set stays   *)
(* set, and whoever is about to write 'waiting_confirmation' has read an   *)
(* order that had one.                                                     *)
(***************************************************************************)
Awaiting == {"email_sent", "waiting_confirmation"}
Timed(p) == order[p].sentAt # "null"

\* A row that was never inserted has no sent_at (so no insertion takes one away).
UnbornIsUntimed == \A p \in PO : order[p].status = "unborn" => ~Timed(p)

HeldWaitsAreTimed ==
    \A c \in Client :
        client[c].op = "transition" /\ client[c].to = "waiting_confirmation"
            => Timed(client[c].po)

WaitingRunsAreTimed == \A a \in Run : run[a].pc = "waiting_write" => Timed(run[a].po)

RowsAreTimed == SweepSeesAwaiting /\ UnbornIsUntimed

TimedInv == HeldInv /\ RowsAreTimed /\ HeldWaitsAreTimed /\ WaitingRunsAreTimed

\* A write that takes no sent_at away, and awaits the supplier only with one.
LEMMA TimedWrite ==
    ASSUME TypeOK, RowsAreTimed, NEW q \in PO, NEW row, order' = [order EXCEPT ![q] = row],
           Timed(q) => row.sentAt # "null",
           row.status \in Awaiting => row.sentAt # "null",
           row.status # "unborn"
    PROVE  RowsAreTimed' /\ \A p \in PO : Timed(p) => Timed(p)'
<1>1. order'[q] = row /\ \A p \in PO \ {q} : order'[p] = order[p]
  BY DEF TypeOK, TableTypeOK
<1> QED  BY <1>1 DEF RowsAreTimed, SweepSeesAwaiting, UnbornIsUntimed, Timed, Awaiting

LEMMA TimedStatus ==
    ASSUME TypeOK, RowsAreTimed, NEW q \in PO, NEW s, SetStatus(q, s), s # "unborn",
           s \in Awaiting => Timed(q)
    PROVE  RowsAreTimed' /\ \A p \in PO : Timed(p) => Timed(p)'
<1>1. order' = [order EXCEPT ![q] = [order[q] EXCEPT !.status = s]]
  BY DEF SetStatus, TypeOK, TableTypeOK
<1>2. /\ [order[q] EXCEPT !.status = s].status = s
      /\ [order[q] EXCEPT !.status = s].sentAt = order[q].sentAt
  BY DEF TypeOK, TableTypeOK, Row
<1> QED  BY <1>1, <1>2, TimedWrite DEF Timed

LEMMA TimedSame ==
    ASSUME RowsAreTimed, UNCHANGED order
    PROVE  RowsAreTimed' /\ \A p \in PO : Timed(p) => Timed(p)'
BY DEF RowsAreTimed, SweepSeesAwaiting, UnbornIsUntimed, Timed

\* An insertion takes the place of a row without a sent_at.
LEMMA TimedInsert ==
    ASSUME TypeOK, RowsAreTimed, NEW q \in PO, NEW row, CreateRow(q, row), row.status = "draft"
    PROVE  RowsAreTimed' /\ \A p \in PO : Timed(p) => Timed(p)'
<1>1. ~Timed(q)  BY DEF CreateRow, NextId, Unborn, RowsAreTimed, UnbornIsUntimed
<1> QED  BY <1>1, TimedWrite DEF CreateRow, Awaiting

LEMMA TimedService ==
    ASSUME ~Editing, "email_sent" \notin ToolTargets, TimedInv, ServiceNext
    PROVE  RowsAreTimed' /\ (\A p \in PO : Timed(p) => Timed(p)') /\ HeldWaitsAreTimed'
<1> DEFINE Rows == RowsAreTimed' /\ \A p \in PO : Timed(p) => Timed(p)'
<1>1. TypeOK /\ TableTypeOK /\ ServiceTypeOK /\ HeldIsAllowed /\ RowsAreTimed
  BY DEF TimedInv, HeldInv, TypeOK
<1>2. \A c \in Client : client[c].op = "transition" => client[c].po \in PO
  BY <1>1 DEF ServiceTypeOK, ClientState, Idle, Transition, Edit
<1>3. ASSUME Rows, UNCHANGED client PROVE HeldWaitsAreTimed'
  BY <1>2, <1>3 DEF TimedInv, HeldWaitsAreTimed
<1>4. ASSUME Rows, NEW c \in Client, client' = [client EXCEPT ![c] = Idle]
      PROVE  HeldWaitsAreTimed'
  BY <1>1, <1>2, <1>4 DEF TimedInv, HeldWaitsAreTimed, ServiceTypeOK, Idle
<1>5. ASSUME NEW p \in PO, ApproveBegin(p) \/ DispatchSupplierEmail(p) \/ ApproveRollback(p)
      PROVE  Rows /\ HeldWaitsAreTimed'
  BY <1>1, <1>3, <1>5, TimedSame DEF ApproveBegin, DispatchSupplierEmail, ApproveRollback
<1>6. ASSUME NEW p \in PO, ApproveCommit(p) \/ RejectPO(p) PROVE Rows /\ HeldWaitsAreTimed'
  <2>1. UNCHANGED client  BY <1>6 DEF ApproveCommit, RejectPO
  <2>2. CASE SetStatus(p, "approved")  BY <1>1, <1>3, <2>1, <2>2, TimedStatus DEF Awaiting
  <2>3. CASE SetStatus(p, "rejected")  BY <1>1, <1>3, <2>1, <2>3, TimedStatus DEF Awaiting
  <2> QED  BY <1>6, <2>2, <2>3 DEF ApproveCommit, RejectPO
<1>7. ASSUME NEW p \in PO, NEW row \in Writable(EmptyRow("draft")), CreateOrder(p, row)
      PROVE  Rows /\ HeldWaitsAreTimed'
  <2>1. row.status = "draft"  BY DEF Writable, EmptyRow
  <2> QED  BY <1>1, <1>3, <1>7, <2>1, TimedInsert DEF CreateOrder
<1>8. ASSUME NEW c \in Client, NEW p \in PO, SendPO(c, p) PROVE Rows /\ HeldWaitsAreTimed'
  <2> DEFINE row == [order[p] EXCEPT !.status = "sent", !.sentAt = "recent"]
  <2>1. order' = [order EXCEPT ![p] = row]  BY <1>1, <1>8 DEF SendPO, TableTypeOK
  <2>2. row.status = "sent" /\ row.sentAt = "recent"  BY <1>1 DEF TableTypeOK, Row
  <2> HIDE DEF row
  <2>3. Rows  BY <1>1, <2>1, <2>2, TimedWrite DEF Awaiting
  <2> QED  BY <1>3, <1>8, <2>3 DEF SendPO
<1>9. ASSUME NEW c \in Client, NEW p \in PO, NEW s \in ToolTargets, TransitionRead(c, p, s)
      PROVE  Rows /\ HeldWaitsAreTimed'
  <2>1. Rows  BY <1>1, <1>9, TimedSame DEF TransitionRead, tableVars
  <2>2. order[p].status \in Status
    BY <1>1, <1>9 DEF TransitionRead, Exists, TableTypeOK, Row
  <2>3. s = "waiting_confirmation" => order[p].status = "email_sent"
    BY <1>9, <2>2 DEF TransitionRead, LEGAL_TRANSITIONS, Status, ActiveStatus, InFlightStatus,
                      FinalStatus
  <2>4. s = "waiting_confirmation" => Timed(p)
    BY <1>1, <2>3 DEF RowsAreTimed, SweepSeesAwaiting, Timed
  <2>5. HeldWaitsAreTimed'
    BY <1>1, <1>2, <1>9, <2>1, <2>4
    DEF TransitionRead, Transition, TimedInv, HeldWaitsAreTimed, ServiceTypeOK
  <2> QED  BY <2>1, <2>5
<1>10. ASSUME NEW c \in Client, TransitionWrite(c) PROVE Rows /\ HeldWaitsAreTimed'
  <2>1. PICK p \in PO : p = client[c].po  BY <1>2, <1>10 DEF TransitionWrite
  <2>2. PICK s : s = client[c].to  OBVIOUS
  <2>3. s \in ToolTargets  BY <1>1, <1>10, <2>2 DEF HeldIsAllowed, TransitionWrite
  <2>4. s \in Awaiting => Timed(p)
    BY <1>10, <2>1, <2>2, <2>3 DEF TimedInv, HeldWaitsAreTimed, TransitionWrite, Awaiting
  <2>5. s # "unborn"
    BY <2>3, ServiceAssumption DEF Status, ActiveStatus, InFlightStatus, FinalStatus
  <2>6. Rows
    BY <1>1, <1>10, <2>1, <2>2, <2>4, <2>5, TimedSame, TimedStatus DEF TransitionWrite
  <2> QED  BY <1>4, <1>10, <2>6 DEF TransitionWrite
<1>11. ASSUME NEW c \in Client PROVE ~EditSave(c)  BY <1>1 DEF HeldIsAllowed, EditSave
<1>12. ASSUME NEW c \in Client, NEW p \in PO PROVE ~EditRead(c, p)  BY DEF EditRead
<1> QED
  BY <1>5, <1>6, <1>7, <1>8, <1>9, <1>10, <1>11, <1>12 DEF ServiceNext

LEMMA TimedSweep ==
    ASSUME TimedInv, SweepNext
    PROVE  RowsAreTimed' /\ \A p \in PO : Timed(p) => Timed(p)'
<1> DEFINE Rows == RowsAreTimed' /\ \A p \in PO : Timed(p) => Timed(p)'
<1>1. TypeOK /\ TableTypeOK /\ RowsAreTimed  BY DEF TimedInv, HeldInv, TypeOK
<1>2. ASSUME NEW p \in PO, AgeOrder(p) PROVE Rows
  <2> DEFINE row == [order[p] EXCEPT !.sentAt = "overdue"]
  <2>1. order' = [order EXCEPT ![p] = row]  BY <1>1, <1>2 DEF AgeOrder, TableTypeOK
  <2>2. row.status = order[p].status /\ row.sentAt = "overdue"  BY <1>1 DEF TableTypeOK, Row
  <2>3. order[p].status # "unborn"
    BY <1>1, <1>2 DEF AgeOrder, RowsAreTimed, UnbornIsUntimed, Timed
  <2> HIDE DEF row
  <2> QED  BY <1>1, <2>1, <2>2, <2>3, TimedWrite
<1>3. ASSUME NEW p \in PO, SweepSave(p) PROVE Rows
  BY <1>1, <1>3, TimedSame, TimedStatus DEF SweepSave, Awaiting
<1> QED
  BY <1>1, <1>2, <1>3, TimedSame
  DEF SweepNext, SweepStart, SweepCrash, SweepEscalate, tableVars

LEMMA TimedRun ==
    ASSUME TimedInv, NEW a \in Run, RunNext(a)
    PROVE  /\ RowsAreTimed' /\ \A p \in PO : Timed(p) => Timed(p)'
           /\ run'[a].pc = "waiting_write"
                  => run'[a].po = run[a].po /\ Timed(run[a].po)
<1> DEFINE Rows == RowsAreTimed' /\ \A p \in PO : Timed(p) => Timed(p)'
           Waits == run'[a].pc = "waiting_write" => run'[a].po = run[a].po /\ Timed(run[a].po)
<1>1. TypeOK /\ TableTypeOK /\ AgentTypeOK /\ RowsAreTimed
  BY DEF TimedInv, HeldInv, TypeOK
<1>2. PICK p \in PO : p = Ordered(a)  BY <1>1 DEF AgentTypeOK, Ordered, RunState
<1>3. ASSUME UNCHANGED order PROVE Rows  BY <1>1, <1>3, TimedSame
<1>4. ASSUME NEW pc, Goto(a, pc), pc # "waiting_write" PROVE Waits  BY <1>1, <1>4, RunGoes
<1>5. ASSUME NEW r, Return(a, r) PROVE Waits  BY <1>1, <1>5, RunEnds
<1>6. ASSUME Raise(a) PROVE Waits  BY <1>1, <1>6, RunRaises
<1>7. ASSUME NEW s, NEW pc, WriteThen(a, s, pc), pc # "waiting_write", s # "unborn",
             s \in Awaiting => Timed(p)
      PROVE  Rows /\ Waits
  BY <1>1, <1>2, <1>3, <1>4, <1>6, <1>7, TimedStatus DEF WriteThen
<1>8. ASSUME NEW k \in Key, NEW ctx \in Context, StartRun(a, k, ctx) PROVE Rows /\ Waits
  <2>1. Waits  BY <1>1, <1>8, RunStarts
  <2>2. UNCHANGED order  BY <1>8 DEF StartRun, tableVars
  <2> QED  BY <1>3, <2>1, <2>2
<1>9. CASE DraftInsert(a)
  <2>1. Waits  BY <1>1, <1>9, RunDrafts
  <2>2. CASE ~UNCHANGED order
    <3>1. PICK q \in PO : CreateRow(q, [EmptyRow("draft") EXCEPT !.key = run[a].key])
      BY <1>9, <2>2 DEF DraftInsert
    <3>2. [EmptyRow("draft") EXCEPT !.key = run[a].key].status = "draft"  BY DEF EmptyRow
    <3> QED  BY <1>1, <2>1, <3>1, <3>2, TimedInsert
  <2> QED  BY <1>3, <2>1, <2>2
<1>10. CASE EmailSentWrite(a)
  <2>1. CASE Raise(a) /\ UNCHANGED order  BY <1>3, <1>6, <2>1
  <2>2. CASE ~(Raise(a) /\ UNCHANGED order)
    <3> DEFINE row == [order[p] EXCEPT !.status = "email_sent", !.sentAt = "recent",
                                       !.messageId = TRUE]
    <3>1. order' = [order EXCEPT ![p] = row] /\ Goto(a, "record_email_sent")
      BY <1>1, <1>2, <1>10, <2>2 DEF EmailSentWrite, TableTypeOK
    <3>2. row.status = "email_sent" /\ row.sentAt = "recent"  BY <1>1 DEF TableTypeOK, Row
    <3> HIDE DEF row
    <3> QED  BY <1>1, <1>4, <3>1, <3>2, TimedWrite
  <2> QED  BY <2>1, <2>2
<1>11. CASE WaitingRead(a)
  <2>1. UNCHANGED order  BY <1>11 DEF WaitingRead, CheckThen, tableVars
  <2>2. StatusOf(a) = "email_sent" => Timed(Ordered(a))
    BY <1>1, <1>2 DEF StatusOf, RowsAreTimed, SweepSeesAwaiting, Timed
  <2>3. Waits
    BY <1>1, <1>6, <1>11, <2>2, RunGoes DEF WaitingRead, CheckThen, Ordered
  <2> QED  BY <1>3, <2>1, <2>3
<1>12. CASE WaitingWrite(a)
  <2>1. Timed(p)
    BY <1>2, <1>12 DEF WaitingWrite, At, Ordered, TimedInv, WaitingRunsAreTimed
  <2> QED  BY <1>7, <1>12, <2>1 DEF WaitingWrite
<1>13. CASE PendingWrite(a) \/ ConfirmWrite(a) \/ MarkFailed(a) \/ MarkTimeout(a)
  BY <1>7, <1>13 DEF PendingWrite, ConfirmWrite, MarkFailed, MarkTimeout, Awaiting
<1>14. CASE RunApproves(a)
  BY <1>1, <1>2, <1>3, <1>4, <1>6, <1>14, TimedStatus DEF RunApproves, Awaiting
<1>15. CASE RunRejects(a)
  BY <1>1, <1>2, <1>3, <1>4, <1>6, <1>15, TimedStatus DEF RunRejects, Awaiting
<1>16. CASE Poll(a)  BY <1>1, <1>3, <1>16, RunPolls DEF Poll, tableVars
<1>17. CASE ApprovalGate(a)
  <2>1. \A d \in Decisions(a) : d # "waiting_write"  BY DEF Decisions
  <2> QED  BY <1>3, <1>4, <1>5, <1>6, <1>17, <2>1 DEF ApprovalGate, tableVars
<1>18. CASE RecordWorkflow(a)
  BY <1>3, <1>4, <1>5, <1>6, <1>18 DEF RecordWorkflow, Record, RecordAndReturn, tableVars
<1>19. CASE PendingRead(a)
  <2> DEFINE next == IF Exists(Ordered(a)) /\ "pending_approval" \in LEGAL_TRANSITIONS[StatusOf(a)]
                     THEN "pending_write" ELSE "gate"
  <2>1. CheckThen(a, TRUE, next)  BY <1>19 DEF PendingRead
  <2>2. next # "waiting_write"  OBVIOUS
  <2> HIDE DEF next
  <2> QED  BY <1>3, <1>4, <1>6, <2>1, <2>2 DEF CheckThen, tableVars
<1>20. CASE EmailSentRead(a) \/ ConfirmRead(a)
  BY <1>3, <1>4, <1>6, <1>20 DEF EmailSentRead, ConfirmRead, CheckThen, tableVars
<1>21. CASE WorkflowRead(a) \/ WorkflowInsert(a) \/ SendEmail(a) \/ CrashRun(a)
  BY <1>3, <1>4, <1>6, <1>21
  DEF WorkflowRead, WorkflowInsert, SendEmail, CrashRun, tableVars
<1> QED
  BY <1>8, <1>9, <1>10, <1>11, <1>12, <1>13, <1>14, <1>15, <1>16, <1>17, <1>18, <1>19, <1>20,
     <1>21 DEF RunNext, Advance

LEMMA TimedStep ==
    ASSUME ~Editing, "email_sent" \notin ToolTargets
    PROVE  TimedInv /\ [Next]_vars => TimedInv'
<1> SUFFICES ASSUME TimedInv, [Next]_vars PROVE TimedInv'  OBVIOUS
<1>1. HeldInv' /\ TypeOK /\ AgentTypeOK  BY HeldStep DEF TimedInv, HeldInv, TypeOK
<1>2. \A a \in Run : run[a].po \in PO  BY <1>1 DEF AgentTypeOK, RunState
<1>3. \A c \in Client : client[c].op = "transition" => client[c].po \in PO
  BY <1>1 DEF TypeOK, ServiceTypeOK, ClientState, Idle, Transition, Edit
<1>4. ASSUME \A p \in PO : Timed(p) => Timed(p)', UNCHANGED client PROVE HeldWaitsAreTimed'
  BY <1>3, <1>4 DEF TimedInv, HeldWaitsAreTimed
<1>5. ASSUME \A p \in PO : Timed(p) => Timed(p)', UNCHANGED run PROVE WaitingRunsAreTimed'
  BY <1>2, <1>5 DEF TimedInv, WaitingRunsAreTimed
<1>6. CASE ServiceNext /\ UNCHANGED <<sweepVars, agentVars>>
  BY <1>1, <1>5, <1>6, TimedService DEF TimedInv, agentVars
<1>7. CASE SweepNext /\ UNCHANGED <<client, agentVars>>
  BY <1>1, <1>4, <1>5, <1>7, TimedSweep DEF TimedInv, agentVars
<1>8. ASSUME NEW a \in Run, RunNext(a), UNCHANGED <<client, sweepVars>> PROVE TimedInv'
  <2>1. /\ RowsAreTimed' /\ \A p \in PO : Timed(p) => Timed(p)'
        /\ run'[a].pc = "waiting_write" => run'[a].po = run[a].po /\ Timed(run[a].po)
    BY <1>8, TimedRun
  <2>2. ASSUME NEW b \in Run, run'[b].pc = "waiting_write" PROVE Timed(run[b].po)' 
    <3>1. run'[b].po = run[b].po /\ Timed(run[b].po)
      BY <1>1, <1>8, <2>1, <2>2, RunsElsewhere DEF TimedInv, WaitingRunsAreTimed
    <3> QED  BY <1>2, <2>1, <3>1 DEF Timed
  <2> QED  BY <1>1, <1>4, <1>8, <2>1, <2>2 DEF TimedInv, WaitingRunsAreTimed
<1>9. ASSUME NEW p \in PO PROVE ~DestroyOrder(p)  BY DEF DestroyOrder
<1>10. CASE UNCHANGED vars
  BY <1>1, <1>4, <1>5, <1>10, TimedSame DEF TimedInv, vars, tableVars, agentVars
<1> QED  BY <1>6, <1>7, <1>8, <1>9, <1>10 DEF Next

\* Where nobody edits and the tool does not move orders to email_sent, an order that
\* awaits the supplier has a sent_at, so the sweep will find it.
THEOREM SweepMissesNothing ==
    ASSUME ~Editing, "email_sent" \notin ToolTargets
    PROVE  Spec => []SweepSeesAwaiting
<1>1. Init => TimedInv
  BY InitType DEF TimedInv, HeldInv, HeldIsAllowed, RowsAreTimed, SweepSeesAwaiting,
                  UnbornIsUntimed, HeldWaitsAreTimed, WaitingRunsAreTimed, Timed, Init, TableInit,
                  EmptyRow, ServiceInit, Idle, AgentInit, NewRun
<1>2. TimedInv /\ [Next]_vars => TimedInv'  BY TimedStep
<1>3. TimedInv => SweepSeesAwaiting  BY DEF TimedInv, RowsAreTimed
<1> QED  BY <1>1, <1>2, <1>3, PTL DEF Spec
=============================================================================
