-------------------------- MODULE PurchasingAgent ---------------------------
(***************************************************************************)
(* PurchasingAgent.run: draft an order, take it to the approval gate, mail *)
(* the supplier, poll for the confirmation.  Every database statement of a *)
(* run is a step of its own, so another run, the sweep and the managers'   *)
(* clicks come between any two of them.  run[a].pc names the next one.     *)
(***************************************************************************)
EXTENDS PurchaseOrderTable

CONSTANTS
    Run,            \* agent runs
    Context,        \* how a run may be invoked: a subset of Contexts
    Production,     \* settings.IS_PRODUCTION
    MaxAttempts,    \* polling attempts of a run
    RunMayCrash     \* may the worker or the web process be killed?

\* "plain": the agent-workflow endpoint and POFromFlagCreator; "auto": the
\* endpoint with auto_approve; "callback": a caller with an approval_callback.
Contexts == {"plain", "auto", "callback"}

ASSUME AgentAssumption ==
    /\ Context \subseteq Contexts
    /\ Production \in BOOLEAN
    /\ MaxAttempts \in Nat \ {0}
    /\ RunMayCrash \in BOOLEAN

VARIABLES
    run,        \* [Run -> program counter, order, key, context, ...]
    result,     \* [Run -> the status run() returned]
    workflow    \* [PO -> status of its PurchaseOrderWorkflow row]

agentVars == <<run, result, workflow>>

WorkflowStatus == {"draft", "pending_approval", "approved", "email_sent",
                   "waiting_confirmation", "confirmed", "rejected", "failed", "timeout"}
NoWorkflow == "none"
Step == {"idle", "draft_insert", "workflow_read", "workflow_insert",
         "pending_read", "pending_write", "gate", "approve", "reject",
         "record_approved", "record_rejected", "send", "email_sent_read",
         "email_sent_write", "record_email_sent", "waiting_read",
         "waiting_write", "record_waiting", "poll", "confirm_read",
         "confirm_write", "record_confirmed", "fail", "record_failed",
         "time_out", "record_timeout", "done", "crashed"}
Result == {"none", "failed", "pending_approval", "rejected", "confirmed", "timeout"}

RunState ==
    [pc: Step, po: PO, key: Key, ctx: Contexts,
     drafted: BOOLEAN,              \* PODraftTool returned an order in status 'draft'
     attempt: 0..MaxAttempts - 1]

AgentTypeOK ==
    /\ run \in [Run -> RunState]
    /\ result \in [Run -> Result]
    /\ workflow \in [PO -> WorkflowStatus \cup {NoWorkflow}]

NewRun == [pc |-> "idle", po |-> 1, key |-> CHOOSE k \in Key : TRUE,
           ctx |-> "plain", drafted |-> FALSE, attempt |-> 0]

AgentInit ==
    /\ run = [a \in Run |-> NewRun]
    /\ result = [a \in Run |-> "none"]
    /\ workflow = [p \in PO |-> NoWorkflow]

-----------------------------------------------------------------------------
At(a, pc) == run[a].pc = pc
Ordered(a) == run[a].po
StatusOf(a) == order[Ordered(a)].status
Goto(a, pc) == run' = [run EXCEPT ![a].pc = pc] /\ UNCHANGED result

\* run() returns r; an exception inside _execute_workflow is returned as "failed".
Return(a, r) ==
    /\ run' = [run EXCEPT ![a].pc = "done"]
    /\ result' = [result EXCEPT ![a] = r]
Raise(a) == Return(a, "failed")

\* A service call whose check reads the order first: go on if it passes, raise if not.
CheckThen(a, passes, pc) ==
    /\ IF Exists(Ordered(a)) /\ passes THEN Goto(a, pc) ELSE Raise(a)
    /\ UNCHANGED <<tableVars, workflow>>

\* The UPDATE that follows: by primary key, on whatever the row holds by now.
WriteThen(a, status, pc) ==
    /\ CanWrite(Ordered(a), order[Ordered(a)].key, status)
    /\ IF Refused(Ordered(a), status)
       THEN Raise(a) /\ UNCHANGED order
       ELSE Goto(a, pc) /\ SetStatus(Ordered(a), status)
    /\ UNCHANGED <<txn, mails, approvals, workflow>>

\* PurchaseOrderWorkflowService.update_status; the row goes with a deleted order.
UpdateStatus(a, status) ==
    workflow' = [workflow EXCEPT ![Ordered(a)] = IF @ = NoWorkflow THEN @ ELSE status]
HasWorkflow(a) == workflow[Ordered(a)] # NoWorkflow

Record(a, at, status, pc) ==
    /\ At(a, at)
    /\ UpdateStatus(a, status)
    /\ IF HasWorkflow(a) THEN Goto(a, pc) ELSE Raise(a)
    /\ UNCHANGED tableVars

RecordAndReturn(a, at, status, r) ==
    /\ At(a, at)
    /\ UpdateStatus(a, status)
    /\ IF HasWorkflow(a) THEN Return(a, r) ELSE Raise(a)
    /\ UNCHANGED tableVars

-----------------------------------------------------------------------------
\* Step 1.  PODraftTool -> draft_po looks for an active order of the key, newest
\* first.  If an approval holds its lock it waits; with no row there is no lock.
StartRun(a, k, ctx) ==
    /\ At(a, "idle")
    /\ \/ /\ ActiveRows(k) = {}
          /\ run' = [run EXCEPT ![a] =
                        [@ EXCEPT !.pc = "draft_insert", !.key = k, !.ctx = ctx]]
       \/ \E p \in PO :
            /\ Newest(p, ActiveRows(k))
            /\ txn[p] = "none"
            /\ run' = [run EXCEPT ![a] =
                          [@ EXCEPT !.pc = "workflow_read", !.key = k, !.ctx = ctx, !.po = p,
                                    !.drafted = (order[p].status = "draft")]]
    /\ UNCHANGED <<tableVars, result, workflow>>

\* ... and inserts one.  A draft of the key committed meanwhile refuses it.
DraftInsert(a) ==
    /\ At(a, "draft_insert")
    /\ \/ \E p \in PO :
            /\ CreateRow(p, [EmptyRow("draft") EXCEPT !.key = run[a].key])
            /\ run' = [run EXCEPT ![a] =
                          [@ EXCEPT !.pc = "workflow_read", !.po = p, !.drafted = TRUE]]
            /\ UNCHANGED result
       \/ /\ \E q \in PO : order[q].key = run[a].key /\ order[q].status = "draft"
          /\ Raise(a)
          /\ UNCHANGED order
    /\ UNCHANGED <<txn, mails, approvals, workflow>>

\* create_workflow: check, then create; the one-to-one key refuses a second row.
WorkflowRead(a) ==
    /\ At(a, "workflow_read")
    /\ Goto(a, IF ~HasWorkflow(a) THEN "workflow_insert"
               ELSE IF run[a].drafted THEN "pending_read" ELSE "gate")
    /\ UNCHANGED <<tableVars, workflow>>

WorkflowInsert(a) ==
    /\ At(a, "workflow_insert")
    /\ IF HasWorkflow(a) \/ ~Exists(Ordered(a))
       THEN Raise(a) /\ UNCHANGED workflow
       ELSE /\ Goto(a, IF run[a].drafted THEN "pending_read" ELSE "gate")
            /\ workflow' = [workflow EXCEPT ![Ordered(a)] = "draft"]
    /\ UNCHANGED tableVars

\* transition_po_status(po_id, 'pending_approval').  An illegal transition is
\* caught and the run goes on to the gate.
PendingRead(a) ==
    /\ At(a, "pending_read")
    /\ CheckThen(a, TRUE,
           IF Exists(Ordered(a)) /\ "pending_approval" \in LEGAL_TRANSITIONS[StatusOf(a)]
           THEN "pending_write" ELSE "gate")

PendingWrite(a) ==
    /\ At(a, "pending_write")
    /\ WriteThen(a, "pending_approval", "gate")

\* Faulty: auto_approve is honoured in production too.
DecisionsAnywhere(a) ==
    CASE run[a].ctx = "auto" -> {"approve"}
      [] run[a].ctx = "callback" -> {"approve", "reject", "record_approved"}
      [] OTHER -> {"return"}

\* Step 2, the approval gate: auto_approve outside production, a callback, or
\* back to the caller for a human to decide.  A callback context that carries no
\* user has nothing approved and goes on ("record_approved").
Decisions(a) ==
    CASE run[a].ctx = "auto" /\ ~Production -> {"approve"}
      [] run[a].ctx = "callback" -> {"approve", "reject", "record_approved"}
      [] OTHER -> {"return"}

ApprovalGate(a) ==
    /\ At(a, "gate")
    /\ UpdateStatus(a, "pending_approval")
    /\ IF ~HasWorkflow(a)
       THEN Raise(a)
       ELSE \E d \in Decisions(a) :
                IF d = "return" THEN Return(a, "pending_approval") ELSE Goto(a, d)
    /\ UNCHANGED tableVars

\* approve_po(skip_email=True): locked, and nothing leaves the transaction.
RunApproves(a) ==
    /\ At(a, "approve")
    /\ CanWrite(Ordered(a), order[Ordered(a)].key, "approved")
    /\ IF StatusOf(a) \in {"draft", "pending_approval"} /\ ~Refused(Ordered(a), "approved")
       THEN /\ SetStatus(Ordered(a), "approved")
            /\ Approve(Ordered(a), IF run[a].ctx = "callback" THEN "callback" ELSE "auto")
            /\ Goto(a, "record_approved")
       ELSE Raise(a) /\ UNCHANGED <<order, approvals>>
    /\ UNCHANGED <<txn, mails, workflow>>

RunRejects(a) ==
    /\ At(a, "reject")
    /\ txn[Ordered(a)] = "none"
    /\ IF StatusOf(a) \in {"draft", "pending_approval"}
       THEN SetStatus(Ordered(a), "rejected") /\ Goto(a, "record_rejected")
       ELSE Raise(a) /\ UNCHANGED order
    /\ UNCHANGED <<txn, mails, approvals, workflow>>

-----------------------------------------------------------------------------
\* Faulty: an order at the gate counts as approved.
SendableAtGate(p) == order[p].status \in {"pending_approval", "approved", "sent"}

\* Step 3.  EmailSendTool reads the order and hands the mail to the broker (which
\* touches no row, so the two are one step); an order that is not approved, or a
\* broker that refuses, leads to mark_failed.
Sendable(p) == order[p].status \in {"approved", "sent"}

\* Faulty: the status is not checked, or a refusing broker is passed over.
SendEmailUnchecked(a) ==
    /\ At(a, "send")
    /\ EnqueueMail(Ordered(a)) /\ Goto(a, "email_sent_read")
    /\ UNCHANGED <<order, txn, approvals, workflow>>
SendEmailRegardless(a) ==
    /\ At(a, "send")
    /\ Sendable(Ordered(a))
    /\ EnqueueMail(Ordered(a)) \/ UNCHANGED mails
    /\ Goto(a, "email_sent_read")
    /\ UNCHANGED <<order, txn, approvals, workflow>>

SendEmail(a) ==
    /\ At(a, "send")
    /\ \/ /\ Sendable(Ordered(a))
          /\ EnqueueMail(Ordered(a))
          /\ Goto(a, "email_sent_read")
       \/ Goto(a, "fail") /\ UNCHANGED mails
    /\ UNCHANGED <<order, txn, approvals, workflow>>

\* mark_email_sent: the check, then the UPDATE of status, sent_at, message_id.
EmailSentRead(a) ==
    /\ At(a, "email_sent_read")
    /\ CheckThen(a, Sendable(Ordered(a)), "email_sent_write")

\* Faulty: only the status and the message id are written.
EmailSentWriteNoTime(a) ==
    /\ At(a, "email_sent_write")
    /\ txn[Ordered(a)] = "none"
    /\ Exists(Ordered(a))
    /\ order' = [order EXCEPT ![Ordered(a)].status = "email_sent",
                              ![Ordered(a)].messageId = TRUE]
    /\ Goto(a, "record_email_sent")
    /\ UNCHANGED <<txn, mails, approvals, workflow>>

EmailSentWrite(a) ==
    /\ At(a, "email_sent_write")
    /\ txn[Ordered(a)] = "none"
    /\ IF Exists(Ordered(a))
       THEN /\ order' = [order EXCEPT ![Ordered(a)].status = "email_sent",
                                      ![Ordered(a)].sentAt = "recent",
                                      ![Ordered(a)].messageId = TRUE]
            /\ Goto(a, "record_email_sent")
       ELSE Raise(a) /\ UNCHANGED order
    /\ UNCHANGED <<txn, mails, approvals, workflow>>

\* mark_waiting_confirmation.
WaitingRead(a) ==
    /\ At(a, "waiting_read")
    /\ CheckThen(a, StatusOf(a) = "email_sent", "waiting_write")

WaitingWrite(a) ==
    /\ At(a, "waiting_write")
    /\ WriteThen(a, "waiting_confirmation", "record_waiting")

-----------------------------------------------------------------------------
\* Faulty: one attempt too many, or attempts that are not counted.
PollOnceMore(a) ==
    /\ At(a, "poll")
    /\ IF ~HasWorkflow(a) THEN Raise(a)
       ELSE IF run[a].attempt = MaxAttempts THEN Goto(a, "time_out")
       ELSE run' = [run EXCEPT ![a].attempt = @ + 1] /\ UNCHANGED result
    /\ UNCHANGED <<tableVars, workflow>>
PollForever(a) ==
    /\ At(a, "poll")
    /\ IF ~HasWorkflow(a) THEN Raise(a)
       ELSE IF StatusOf(a) = "confirmed" THEN Goto(a, "confirm_read")
       ELSE IF StatusOf(a) \in FinalStatus THEN Goto(a, "fail")
       ELSE UNCHANGED <<run, result>>
    /\ UNCHANGED <<tableVars, workflow>>

\* Step 4.  One polling attempt: ConfirmationListenerTool reads the order.
Poll(a) ==
    /\ At(a, "poll")
    /\ IF ~HasWorkflow(a) THEN Raise(a)
       ELSE IF StatusOf(a) = "confirmed" THEN Goto(a, "confirm_read")
       ELSE IF StatusOf(a) \in FinalStatus THEN Goto(a, "fail")
       ELSE IF run[a].attempt + 1 = MaxAttempts THEN Goto(a, "time_out")
       ELSE run' = [run EXCEPT ![a].attempt = @ + 1] /\ UNCHANGED result
    /\ UNCHANGED <<tableVars, workflow>>

\* mark_confirmed insists on waiting_confirmation, and writes 'confirmed'.
ConfirmRead(a) ==
    /\ At(a, "confirm_read")
    /\ CheckThen(a, StatusOf(a) = "waiting_confirmation", "confirm_write")

ConfirmWrite(a) ==
    /\ At(a, "confirm_write")
    /\ WriteThen(a, "confirmed", "record_confirmed")

\* mark_failed and mark_timeout: an UPDATE with no check of the status.
MarkFailed(a) ==
    /\ At(a, "fail")
    /\ WriteThen(a, "failed", "record_failed")

MarkTimeout(a) ==
    /\ At(a, "time_out")
    /\ WriteThen(a, "timeout", "record_timeout")

\* The update_status call that follows each of these.
RecordWorkflow(a) ==
    \/ Record(a, "record_approved", "approved", "send")
    \/ Record(a, "record_email_sent", "email_sent", "waiting_read")
    \/ Record(a, "record_waiting", "waiting_confirmation", "poll")
    \/ RecordAndReturn(a, "record_rejected", "rejected", "rejected")
    \/ RecordAndReturn(a, "record_confirmed", "confirmed", "confirmed")
    \/ RecordAndReturn(a, "record_failed", "failed", "failed")
    \/ RecordAndReturn(a, "record_timeout", "timeout", "timeout")

\* gunicorn kills a request after 120 s; a Celery worker may die.
CrashRun(a) ==
    /\ RunMayCrash
    /\ run[a].pc \notin {"idle", "done", "crashed"}
    /\ Goto(a, "crashed")
    /\ UNCHANGED <<tableVars, workflow>>

\* The next statement of a run that has started.
Advance(a) ==
    \/ DraftInsert(a)
    \/ WorkflowRead(a) \/ WorkflowInsert(a)
    \/ PendingRead(a) \/ PendingWrite(a)
    \/ ApprovalGate(a) \/ RunApproves(a) \/ RunRejects(a)
    \/ SendEmail(a) \/ EmailSentRead(a) \/ EmailSentWrite(a)
    \/ WaitingRead(a) \/ WaitingWrite(a)
    \/ Poll(a) \/ ConfirmRead(a) \/ ConfirmWrite(a)
    \/ MarkFailed(a) \/ MarkTimeout(a)
    \/ RecordWorkflow(a)

RunNext(a) ==
    \/ \E k \in Key, ctx \in Context : StartRun(a, k, ctx)
    \/ Advance(a)
    \/ CrashRun(a)
=============================================================================
