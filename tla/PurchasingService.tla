------------------------- MODULE PurchasingService --------------------------
(***************************************************************************)
(* PurchasingService and the purchase-order views, as called by managers   *)
(* and by clients of the service (DBUpdateTool, PUT/PATCH).  approve_po,   *)
(* reject_po and send_po lock the row; transition_po_status and a PATCH    *)
(* read it, then write it back later without a lock: the two halves are    *)
(* two actions, and what was read waits in client[c].                      *)
(***************************************************************************)
EXTENDS PurchaseOrderTable

CONSTANTS
    Client,         \* service calls that run beside the managers' clicks
    ToolTargets,    \* statuses DBUpdateTool is asked for
    CommitMayFail,  \* may an approval transaction be lost before its commit?
    Editing,        \* do managers PUT/PATCH and delete orders?
    Creating,       \* do managers POST orders?
    NewSentAt,      \* sent_at values they put in
    NewMessageId    \* is there a message_id: values they put in

ASSUME ServiceAssumption ==
    /\ ToolTargets \subseteq Status
    /\ CommitMayFail \in BOOLEAN
    /\ Editing \in BOOLEAN
    /\ Creating \in BOOLEAN
    /\ NewSentAt \subseteq SentAt
    /\ NewMessageId \subseteq BOOLEAN

VARIABLE client     \* [Client -> what the call has read and will write]

Idle == [op |-> "idle"]
Transition(p, s) == [op |-> "transition", po |-> p, to |-> s]
Edit(p, row) == [op |-> "edit", po |-> p, row |-> row]

ClientState ==
    {Idle} \cup {Transition(p, s) : p \in PO, s \in Status}
           \cup {Edit(p, row) : p \in PO, row \in Row}

ServiceTypeOK == client \in [Client -> ClientState]
ServiceInit == client = [c \in Client |-> Idle]

-----------------------------------------------------------------------------
\* approve_po: SELECT ... FOR UPDATE, the status check, the UPDATE.  A twin
\* that is already approved makes the UPDATE fail and nothing happens.
ApproveBegin(p) ==
    /\ order[p].status \in {"draft", "pending_approval"}
    /\ CanWrite(p, order[p].key, "approved")
    /\ ~Taken(p, order[p].key, "approved")
    /\ txn' = [txn EXCEPT ![p] = "updated"]
    /\ UNCHANGED <<order, mails, approvals, client>>

\* _dispatch_supplier_email, still inside the transaction.  It is skipped when
\* message_id is set; a supplier without an address or a broker that refuses
\* is logged and passed over.
DispatchSupplierEmail(p) ==
    /\ txn[p] = "updated"
    /\ txn' = [txn EXCEPT ![p] = "dispatched"]
    /\ \/ ~order[p].messageId /\ EnqueueMail(p)
       \/ UNCHANGED mails
    /\ UNCHANGED <<order, approvals, client>>

ApproveCommit(p) ==
    /\ txn[p] = "dispatched"
    /\ txn' = [txn EXCEPT ![p] = "none"]
    /\ SetStatus(p, "approved")
    /\ Approve(p, "manager")
    /\ UNCHANGED <<mails, client>>

\* The worker is killed or the connection lost before COMMIT.
ApproveRollback(p) ==
    /\ CommitMayFail
    /\ txn[p] # "none"
    /\ txn' = [txn EXCEPT ![p] = "none"]
    /\ UNCHANGED <<order, mails, approvals, client>>

\* Faulty: reject_po without select_for_update.
RejectUnlocked(p) ==
    /\ order[p].status \in {"draft", "pending_approval"}
    /\ SetStatus(p, "rejected")
    /\ UNCHANGED <<txn, mails, approvals, client>>

\* reject_po: one locked read-check-write.
RejectPO(p) ==
    /\ txn[p] = "none"
    /\ order[p].status \in {"draft", "pending_approval"}
    /\ SetStatus(p, "rejected")
    /\ UNCHANGED <<txn, mails, approvals, client>>

\* send_po: approved -> sent, with sent_at.
SendPO(c, p) ==
    /\ client[c] = Idle
    /\ txn[p] = "none"
    /\ order[p].status = "approved"
    /\ order' = [order EXCEPT ![p].status = "sent", ![p].sentAt = "recent"]
    /\ UNCHANGED <<txn, mails, approvals, client>>

\* What a POST, PUT or PATCH may set: every column but the status.
Writable(row) ==
    [status: {row.status}, key: Key, sentAt: NewSentAt \cup {row.sentAt},
     messageId: NewMessageId \cup {row.messageId}]

\* POST /orders/: the row is inserted as a draft with no dedup query.
CreateOrder(p, row) ==
    /\ Creating
    /\ CreateRow(p, row)
    /\ UNCHANGED <<txn, mails, approvals, client>>

-----------------------------------------------------------------------------
\* transition_po_status, first half: read the row, check LEGAL_TRANSITIONS.
TransitionRead(c, p, s) ==
    /\ client[c] = Idle
    /\ Exists(p)
    /\ s \in LEGAL_TRANSITIONS[order[p].status]
    /\ client' = [client EXCEPT ![c] = Transition(p, s)]
    /\ UNCHANGED tableVars

\* Second half: UPDATE by primary key, whatever the status is by now.  A
\* refused UPDATE raises and changes nothing.
TransitionWrite(c) ==
    /\ client[c].op = "transition"
    /\ LET p == client[c].po
           s == client[c].to
       IN  /\ CanWrite(p, order[p].key, s)
           /\ IF Refused(p, s)
              THEN UNCHANGED <<order, approvals>>
              ELSE /\ SetStatus(p, s)
                   /\ IF s = "approved" THEN Approve(p, "tool") ELSE UNCHANGED approvals
    /\ client' = [client EXCEPT ![c] = Idle]
    /\ UNCHANGED <<txn, mails>>

\* PUT/PATCH: get_object reads the whole row ...
EditRead(c, p) ==
    /\ Editing
    /\ client[c] = Idle
    /\ Exists(p)
    /\ client' = [client EXCEPT ![c] = Edit(p, order[p])]
    /\ UNCHANGED tableVars

\* ... and serializer.save() writes every column of it back, the (read-only)
\* status as it was read.  A row deleted meanwhile is inserted again.
EditSave(c) ==
    /\ client[c].op = "edit"
    /\ \E row \in Writable(client[c].row) :
        LET p == client[c].po
        IN  /\ CanWrite(p, row.key, row.status)
            /\ IF Taken(p, row.key, row.status)
               THEN UNCHANGED order
               ELSE order' = [order EXCEPT ![p] = row]
    /\ client' = [client EXCEPT ![c] = Idle]
    /\ UNCHANGED <<txn, mails, approvals>>

ServiceNext ==
    \/ \E p \in PO :
        \/ ApproveBegin(p)
        \/ DispatchSupplierEmail(p)
        \/ ApproveCommit(p)
        \/ ApproveRollback(p)
        \/ RejectPO(p)
        \/ \E row \in Writable(EmptyRow("draft")) : CreateOrder(p, row)
    \/ \E c \in Client :
        \/ \E p \in PO, s \in ToolTargets : TransitionRead(c, p, s)
        \/ TransitionWrite(c)
        \/ \E p \in PO : SendPO(c, p) \/ EditRead(c, p)
        \/ EditSave(c)
=============================================================================
