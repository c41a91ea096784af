-------------------------- MODULE SupplierTimeouts --------------------------
(***************************************************************************)
(* check_supplier_timeouts, the hourly Celery task: one query finds the    *)
(* orders mailed 48 hours ago or more, then each of them is saved as       *)
(* 'timeout' from the copy the query returned and escalated.               *)
(***************************************************************************)
EXTENDS PurchaseOrderTable

CONSTANT MaxSweepFaults  \* deaths of the worker and failures of an escalation (bounds the model)

ASSUME SweepAssumption == MaxSweepFaults \in Nat

VARIABLES
    sweep,      \* orders the running task has fetched and not yet handled
    saved,      \* orders it has saved as timed out and not yet escalated
    notice,     \* [PO -> its newest escalation row for reason supplier_timeout]
    lost,       \* orders whose last timeout nobody was told of (history)
    sweepFaults \* deaths of the worker and failures of an escalation so far

sweepVars == <<sweep, saved, notice, lost, sweepFaults>>

\* "recent": created in the last 24 hours, and the users were told; "bare": as recent,
\* but the worker died or a statement raised before the users were told; "old": older.
Notice == {"none", "recent", "bare", "old"}
Fresh == {"recent", "bare"}

SweepTypeOK ==
    /\ sweep \subseteq PO
    /\ saved \subseteq PO
    /\ notice \in [PO -> Notice]
    /\ lost \subseteq PO
    /\ sweepFaults \in 0..MaxSweepFaults

SweepInit ==
    /\ sweep = {} /\ saved = {} /\ lost = {} /\ sweepFaults = 0
    /\ notice = [p \in PO |-> "none"]

\* 48 hours pass.
AgeOrder(p) ==
    /\ order[p].sentAt = "recent"
    /\ order' = [order EXCEPT ![p].sentAt = "overdue"]
    /\ UNCHANGED <<txn, mails, approvals, sweepVars>>

\* Faulty: orders that wait for the confirmation are not looked at.
StaleMailedOnly(p) == order[p].status = "email_sent" /\ order[p].sentAt = "overdue"

Stale(p) ==
    /\ order[p].status \in {"email_sent", "waiting_confirmation"}
    /\ order[p].sentAt = "overdue"

\* The queryset is evaluated once, when the loop starts.
SweepStart ==
    /\ sweep = {} /\ saved = {}
    /\ \E p \in PO : Stale(p)
    /\ sweep' = {p \in PO : Stale(p)}
    /\ UNCHANGED <<tableVars, saved, notice, lost, sweepFaults>>

\* po.save(update_fields=...): the status is not looked at again.  A row that
\* was deleted makes save raise, and the loop goes on with the next order.  By now
\* an earlier escalation of the order may be older than 24 hours.
SweepSave(p) ==
    /\ p \in sweep
    /\ saved = {}
    /\ txn[p] = "none"
    /\ sweep' = sweep \ {p}
    /\ IF Exists(p)
       THEN /\ SetStatus(p, "timeout")
            /\ saved' = {p}
            /\ lost' = lost \ {p}
            /\ \/ UNCHANGED notice
               \/ notice[p] \in Fresh /\ notice' = [notice EXCEPT ![p] = "old"]
       ELSE UNCHANGED <<order, saved, notice, lost>>
    /\ UNCHANGED <<txn, mails, approvals, sweepFaults>>

-----------------------------------------------------------------------------
\* The work ends before the row of the escalation is there, or after it, when the
\* users have not been told.
CutOff(p) ==
    /\ sweepFaults < MaxSweepFaults
    /\ sweepFaults' = sweepFaults + 1
    /\ lost' = lost \cup {p}
    /\ \/ UNCHANGED notice
       \/ Exists(p) /\ notice[p] \notin Fresh /\ notice' = [notice EXCEPT ![p] = "bare"]

\* create_escalation_notification: the row, a notice for every user, a mail.  There is
\* no escalation of a deleted order.
Escalated(p) ==
    /\ IF Exists(p)
       THEN notice' = [notice EXCEPT ![p] = "recent"] /\ UNCHANGED lost
       ELSE lost' = lost \cup {p} /\ UNCHANGED notice
    /\ UNCHANGED sweepFaults

\* ... which does nothing if the order has a row of the last 24 hours, a bare one too.
Duplicate(p) ==
    /\ lost' = IF notice[p] = "bare" THEN lost \cup {p} ELSE lost
    /\ UNCHANGED <<notice, sweepFaults>>

\* Faulty: a row of any age makes the escalation a duplicate.
EscalationOnce(p) == IF notice[p] # "none" THEN Duplicate(p) ELSE Escalated(p)

Escalation(p) == IF notice[p] \in Fresh THEN Duplicate(p) ELSE Escalated(p)

\* _create_audit_log and _trigger_escalation follow the save.  Neither is in
\* its transaction, and neither lets an exception out: it is logged, and that is all.
SweepEscalate(p) ==
    /\ p \in saved
    /\ saved' = saved \ {p}
    /\ Escalation(p) \/ CutOff(p)
    /\ UNCHANGED <<tableVars, sweep>>

\* The worker dies.  The next hourly task (or a redelivered one) starts over
\* from a fresh query, which does not find the order it has just saved.
SweepCrash ==
    /\ sweep \cup saved # {}
    /\ sweep' = {} /\ saved' = {}
    /\ \/ \E p \in saved : CutOff(p)
       \/ /\ saved = {}
          /\ sweepFaults < MaxSweepFaults /\ sweepFaults' = sweepFaults + 1
          /\ UNCHANGED <<notice, lost>>
    /\ UNCHANGED tableVars

SweepNext ==
    \/ SweepStart
    \/ SweepCrash
    \/ \E p \in PO : AgeOrder(p) \/ SweepSave(p) \/ SweepEscalate(p)
=============================================================================
