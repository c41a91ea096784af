----------------------------- MODULE Purchasing -----------------------------
(***************************************************************************)
(* The purchasing subsystem: managers and service clients, agent runs and  *)
(* the supplier-timeout sweep over one purchase_order table.               *)
(***************************************************************************)
EXTENDS PurchasingService, SupplierTimeouts, PurchasingAgent

vars == <<tableVars, client, sweepVars, agentVars>>

TypeOK == TableTypeOK /\ ServiceTypeOK /\ SweepTypeOK /\ AgentTypeOK

Init == TableInit /\ ServiceInit /\ SweepInit /\ AgentInit

\* DELETE /orders/<id>/: the row goes, its workflow row and its escalations with it.
DestroyOrder(p) ==
    /\ Editing
    /\ Exists(p)
    /\ txn[p] = "none"
    /\ order' = [order EXCEPT ![p] = EmptyRow("deleted")]
    /\ workflow' = [workflow EXCEPT ![p] = NoWorkflow]
    /\ notice' = [notice EXCEPT ![p] = "none"]
    /\ UNCHANGED <<txn, mails, approvals, client, sweep, saved, lost, sweepFaults, run, result>>

Next ==
    \/ ServiceNext /\ UNCHANGED <<sweepVars, agentVars>>
    \/ SweepNext /\ UNCHANGED <<client, agentVars>>
    \/ \E a \in Run : RunNext(a) /\ UNCHANGED <<client, sweepVars>>
    \/ \E p \in PO : DestroyOrder(p)

Spec == Init /\ [][Next]_vars

(***************************************************************************)
(* Fairness.  Celery beat starts the sweep every hour and time passes; an  *)
(* approval request that has begun its transaction finishes it; a started  *)
(* agent run that is not killed executes its next statement.  Nobody is    *)
(* obliged to click, to call a tool or to start a run.                     *)
(***************************************************************************)
RunStep(a) == Advance(a) /\ UNCHANGED <<client, sweepVars>>
FinishApproval(p) ==
    (DispatchSupplierEmail(p) \/ ApproveCommit(p)) /\ UNCHANGED <<sweepVars, agentVars>>

Fairness ==
    /\ WF_vars(SweepStart /\ UNCHANGED <<client, agentVars>>)
    /\ \A p \in PO :
        /\ WF_vars(AgeOrder(p) /\ UNCHANGED <<client, agentVars>>)
        /\ WF_vars(SweepSave(p) /\ UNCHANGED <<client, agentVars>>)
        /\ WF_vars(SweepEscalate(p) /\ UNCHANGED <<client, agentVars>>)
        /\ WF_vars(FinishApproval(p))
    /\ \A a \in Run : WF_vars(RunStep(a))

FairSpec == Spec /\ Fairness

-----------------------------------------------------------------------------
(***************************************************************************)
(* Safety.                                                                 *)
(***************************************************************************)

\* No two orders share (sku, supplier, quantity) and an active status, whatever
\* inserts, status updates and edits race (uq_active_po_per_sku_supplier_qty).
UniqueActive ==
    \A p, q \in PO :
        p # q /\ order[p].status \in ActiveStatus /\ order[p].status = order[q].status
            => order[p].key # order[q].key

\* An order that is approved, in flight or confirmed was approved by somebody at
\* some time: no stale read-then-write of the tool, a PATCH, a run or the sweep
\* takes an order round the approval gate.
PastGateWasApproved ==
    \A p \in PO : PastGate(order[p].status) => approvals[p] # {}

\* The supplier is mailed only about an order that was approved, or whose
\* approval is about to commit (EmailSendTool's check, approve_po's order of
\* work).  For approvals that do commit: ~CommitMayFail.
MailWasApproved ==
    \A p \in PO : mails[p] > 0 => approvals[p] # {} \/ txn[p] # "none"

\* In production, where nobody passes a callback or asks the tool to approve, only
\* a manager's approval lets an order through: auto_approve in a request does not.
OnlyManagersApprove == \A p \in PO : approvals[p] \subseteq {"manager"}

\* A workflow record that says the supplier was mailed (or later) is right: a mail
\* for that order was handed to the broker, even if its run was killed since.
WorkflowWasMailed ==
    \A p \in PO :
        workflow[p] \in {"email_sent", "waiting_confirmation", "confirmed", "timeout"}
            => mails[p] > 0

\* An order awaiting the supplier carries a sent_at, without which the sweep would
\* never see it; for orders nobody edits or moves to email_sent by the tool.
SweepSeesAwaiting ==
    \A p \in PO : order[p].status \in {"email_sent", "waiting_confirmation"}
                    => order[p].sentAt # "null"

\* Decisions are serialised by the row lock: an order becomes approved only from
\* draft or pending_approval, never over a rejection that came in between.  (For
\* orders nobody edits and the tool does not approve: those writes take no lock.)
DecisionsAreSerialised ==
    [][\A p \in PO : order'[p].status = "approved" /\ order[p].status # "approved"
                        => order[p].status \in {"draft", "pending_approval"}]_vars

(***************************************************************************)
(* Refinement: the subsystem implements the supplier-mail gate.            *)
(***************************************************************************)
GateOf == [p \in PO |-> IF approvals[p] # {} \/ txn[p] # "none" THEN "open" ELSE "closed"]

MailGate == INSTANCE SupplierMailGate
                WITH Orders <- PO, Limit <- MaxMails, gate <- GateOf, sent <- mails

\* Every behaviour of the subsystem is one of the gate: a mail to the supplier
\* leaves only through a gate that has opened, and no gate closes again.
ImplementsMailGate == MailGate!Spec

-----------------------------------------------------------------------------
(***************************************************************************)
(* Liveness (under FairSpec).                                              *)
(***************************************************************************)

\* An order awaiting the supplier does not wait for ever, not even when the run
\* that mailed it was killed: the sweep ends the wait.
AwaitingIsResolved ==
    \A p \in PO :
        (order[p].status \in {"email_sent", "waiting_confirmation"} /\ order[p].sentAt # "null")
            ~> (order[p].status \notin {"email_sent", "waiting_confirmation"})

\* Of an order the sweep has timed out the users are told, by a new escalation or by one
\* of the last 24 hours, also when a late write of a run had taken the order back and it
\* is timed out again; unless the escalation raised or the worker died after the
\* save, or the duplicate check found what such a failure had left, or the order is
\* deleted (lost).
TimeoutIsEscalated ==
    \A p \in PO : (p \in saved) ~> (notice[p] = "recent" \/ p \in lost)

\* A started agent run returns a result, unless it is killed, whatever happens to
\* its order meanwhile (or the model has no id left for the order it inserts).
OutOfIds(a) == At(a, "draft_insert") /\ Unborn = {}
RunReturns ==
    \A a \in Run : (run[a].pc # "idle")
                        ~> (At(a, "crashed") \/ result[a] # "none" \/ OutOfIds(a))

-----------------------------------------------------------------------------
(***************************************************************************)
(* What the documents, docstrings and tests say, and the code does not do. *)
(***************************************************************************)

\* LEGAL_TRANSITIONS gives no way out of the final statuses.
FinalIsFinal ==
    [][\A p \in PO : order[p].status \in FinalStatus
                        => order'[p].status \in {order[p].status, "deleted"}]_vars

\* "Returns existing PO if one exists with same (sku, supplier, quantity) and
\* status in [draft, pending_approval, approved]": never two at a time.
OneActivePerKey ==
    \A p, q \in PO :
        p # q /\ order[p].status \in ActiveStatus /\ order[q].status \in ActiveStatus
            => order[p].key # order[q].key

\* "Only ONE email delivered per PO."
OneMailPerOrder == \A p \in PO : mails[p] <= 1

\* "... -> WAITING_CONFIRMATION -> CONFIRMED": a run that sees the confirmation
\* reports it.
ConfirmedRunIsReported ==
    [][\A a \in Run : At(a, "confirm_read") /\ run'[a].pc # "confirm_read"
                        => run'[a].pc # "done"]_vars
=============================================================================
