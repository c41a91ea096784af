------------------------- MODULE PurchaseOrderTable -------------------------
(***************************************************************************)
(* The purchase_order table: its rows, its partial unique constraint, its  *)
(* row locks, and the statuses an order may move between.  Everything that *)
(* touches an order (views, the purchasing agent, the timeout sweep) does  *)
(* so through the operators of this module, each of which is one database  *)
(* statement under READ COMMITTED with autocommit.                         *)
(***************************************************************************)
EXTENDS Naturals, FiniteSets

CONSTANTS
    NumPO,      \* ids the table hands out: 1..NumPO (bounds the model)
    Key,        \* the (sku, supplier, quantity) combinations ordered
    MaxMails    \* supplier mails counted per order (bounds the model)

ASSUME TableAssumption ==
    /\ NumPO \in Nat \ {0}
    /\ MaxMails \in Nat \ {0}
    /\ Key # {}

PO == 1..NumPO

ActiveStatus == {"draft", "pending_approval", "approved"}
InFlightStatus == {"sent", "email_sent", "waiting_confirmation"}
FinalStatus == {"confirmed", "rejected", "cancelled", "failed", "timeout"}
Status == ActiveStatus \cup InFlightStatus \cup FinalStatus

\* A row that was never inserted, or was deleted by the destroy view.
NoRow == {"unborn", "deleted"}

VARIABLES
    order,      \* [PO -> row]
    txn,        \* [PO -> the open approval transaction holding the row lock]
    mails,      \* [PO -> supplier mails handed to the broker]
    approvals   \* [PO -> who approved the order (history)]

tableVars == <<order, txn, mails, approvals>>

\* "null" is a NULL sent_at; "overdue" is one at least 48 hours in the past.
SentAt == {"null", "recent", "overdue"}
Row == [status: Status \cup NoRow, key: Key, sentAt: SentAt, messageId: BOOLEAN]
Txn == {"none", "updated", "dispatched"}
Approver == {"manager", "tool", "auto", "callback"}

TableTypeOK ==
    /\ order \in [PO -> Row]
    /\ txn \in [PO -> Txn]
    /\ mails \in [PO -> 0..MaxMails]
    /\ approvals \in [PO -> SUBSET Approver]

EmptyRow(s) ==
    [status |-> s, key |-> CHOOSE k \in Key : TRUE, sentAt |-> "null", messageId |-> FALSE]

TableInit ==
    /\ order = [p \in PO |-> EmptyRow("unborn")]
    /\ txn = [p \in PO |-> "none"]
    /\ mails = [p \in PO |-> 0]
    /\ approvals = [p \in PO |-> {}]

-----------------------------------------------------------------------------
LEGAL_TRANSITIONS ==
    [s \in Status |->
        CASE s = "draft" -> {"pending_approval", "approved", "rejected", "cancelled"}
          [] s = "pending_approval" -> {"approved", "rejected", "cancelled"}
          [] s = "approved" -> {"sent", "email_sent", "cancelled"}
          [] s = "email_sent" -> {"waiting_confirmation", "cancelled"}
          [] s = "waiting_confirmation" -> {"confirmed", "cancelled"}
          [] s = "sent" -> {"confirmed", "cancelled"}
          [] OTHER -> {}]

Exists(p) == order[p].status \notin NoRow

\* Faulty: the constraint's condition covers drafts only, or forgets the approved.
TakenByDraft(p, k, s) ==
    s = "draft" /\ \E q \in PO \ {p} : order[q].key = k /\ order[q].status = s
TakenUnlessApproved(p, k, s) ==
    /\ s \in {"draft", "pending_approval"}
    /\ \E q \in PO \ {p} : order[q].key = k /\ order[q].status = s

\* uq_active_po_per_sku_supplier_qty: another row holds the same key AND status.
Taken(p, k, s) ==
    /\ s \in ActiveStatus
    /\ \E q \in PO \ {p} : order[q].key = k /\ order[q].status = s

\* The index entry is held by a transaction that has not committed: the writer waits.
IndexBusy(p, k, s) ==
    \E q \in PO \ {p} :
        /\ txn[q] # "none"
        /\ order[q].key = k
        /\ s \in {order[q].status, "approved"}

\* An UPDATE of row p reaches the row and its index entry without waiting.
CanWrite(p, k, s) == txn[p] = "none" /\ ~IndexBusy(p, k, s)

\* PurchasingRepository.update: no guard on the status the row has by now.
SetStatus(p, s) == order' = [order EXCEPT ![p].status = s]

\* Would setting the status of row p to s be refused?  The row is gone, or
\* another row occupies the unique index.
Refused(p, s) == ~Exists(p) \/ Taken(p, order[p].key, s)

Unborn == {p \in PO : order[p].status = "unborn"}
NextId(p) == p \in Unborn /\ \A q \in Unborn : p <= q

\* PurchasingRepository.create.  Ids are never handed out twice.
CreateRow(p, row) ==
    /\ NextId(p)
    /\ CanWrite(p, row.key, row.status)
    /\ ~Taken(p, row.key, row.status)
    /\ order' = [order EXCEPT ![p] = row]

\* draft_po's query for a row to reuse: the newest active row of the key.
ActiveRows(k) == {p \in PO : order[p].key = k /\ order[p].status \in ActiveStatus}
Newest(p, rows) == p \in rows /\ \A q \in rows : q <= p

\* An order whose mail has gone out, or that is past the approval gate.
PastGate(s) == s \in {"approved", "confirmed"} \cup InFlightStatus

Approve(p, who) == approvals' = [approvals EXCEPT ![p] = @ \cup {who}]

\* Hand one more supplier mail to the broker.  Counted up to MaxMails.
EnqueueMail(p) ==
    /\ mails[p] < MaxMails
    /\ mails' = [mails EXCEPT ![p] = @ + 1]
=============================================================================
