---------------------------- MODULE MailDelivery ----------------------------
(***************************************************************************)
(* The Celery tasks that send mail and what happens when one gives up: up  *)
(* to MAX_RETRIES retries on transient errors, then an escalation of the   *)
(* order, which is a row, a notice to every active user and a mail to the  *)
(* escalation address.  Tasks are acknowledged late, so a task whose       *)
(* worker dies, or that outlives the broker's visibility timeout, is       *)
(* delivered again.                                                        *)
(***************************************************************************)
EXTENDS Integers, FiniteSets

CONSTANTS
    Mail,           \* mails handed to the broker
    Order,          \* purchase orders
    OrderOf,        \* the order a mail is about; anything else: an alert or a verification mail
    MailWorker,     \* Celery workers
    MAX_RETRIES,    \* 3 in the code
    NumEscalations, \* ids of the escalation table: bounds the model
    MaxFaults       \* crashes, second deliveries and database errors: bounds the model

Escalation == 1..NumEscalations
Message == [mail: Mail, retries: 0..MAX_RETRIES]

ASSUME MailAssumption ==
    /\ MAX_RETRIES \in Nat /\ NumEscalations \in Nat /\ MaxFaults \in Nat
    /\ Mail # {} /\ DOMAIN OrderOf = Mail /\ "none" \notin Order
    /\ IsFiniteSet(Mail) /\ IsFiniteSet(MailWorker)

VARIABLES
    queue,      \* [Message -> Nat] copies at the broker
    mailer,     \* [MailWorker -> program counter, message, escalation row]
    accepted,   \* mails the recipient's mail server has taken at least once (history)
    escalation, \* [Escalation -> row]
    gone,       \* orders that were deleted
    dropped,    \* mails whose escalation ended in a swallowed exception (history)
    cut,        \* escalations whose worker died or failed half-way (history)
    raced,      \* orders that two workers escalated at one time (history)
    faults

mailVars == <<queue, mailer, accepted, escalation, gone, dropped, cut, raced, faults>>

\* The row's status; "bare" is 'pending' with an empty recipient_email.
Row == [order: Order \cup {"none"}, status: {"pending", "bare", "sent", "failed"},
        recent: BOOLEAN, told: BOOLEAN]
NoRow == [order |-> "none", status |-> "pending", recent |-> FALSE, told |-> FALSE]
Escalating == {"create", "notify", "mail"}

MailTypeOK ==
    /\ queue \in [Message -> Nat]
    /\ mailer \in [MailWorker -> [pc: {"idle", "sending", "escalate"} \cup Escalating,
                                  msg: Message, row: 0..NumEscalations]]
    /\ escalation \in [Escalation -> Row]
    /\ gone \subseteq Order /\ raced \subseteq Order
    /\ accepted \subseteq Mail /\ dropped \subseteq Mail /\ cut \subseteq Escalation
    /\ faults \in 0..MaxFaults

First(m) == [mail |-> m, retries |-> 0]
NoTask == [pc |-> "idle", msg |-> First(CHOOSE m \in Mail : TRUE), row |-> 0]

MailInit ==
    /\ queue = [q \in Message |-> IF q.retries = 0 THEN 1 ELSE 0]
    /\ mailer = [w \in MailWorker |-> NoTask]
    /\ accepted = {}
    /\ escalation = [e \in Escalation |-> NoRow]
    /\ gone = {} /\ dropped = {} /\ cut = {} /\ raced = {} /\ faults = 0

-----------------------------------------------------------------------------
TaskAt(w, pc) == mailer[w].pc = pc
MailOf(w) == mailer[w].msg.mail
OrderAt(w) == OrderOf[MailOf(w)]
GotoTask(w, pc) == mailer' = [mailer EXCEPT ![w].pc = pc]

\* The task has returned and its message is acknowledged.
Ack(w) == mailer' = [mailer EXCEPT ![w] = NoTask]

Rest == <<escalation, gone, dropped, cut, raced, faults>>

Take(w, q) ==
    /\ TaskAt(w, "idle") /\ queue[q] > 0
    /\ queue' = [queue EXCEPT ![q] = @ - 1]
    /\ mailer' = [mailer EXCEPT ![w] = [pc |-> "sending", msg |-> q, row |-> 0]]
    /\ UNCHANGED <<accepted, Rest>>

\* send_email_core returns 'sent'.
SendAccepted(w) ==
    /\ TaskAt(w, "sending") /\ Ack(w)
    /\ accepted' = accepted \cup {MailOf(w)}
    /\ UNCHANGED <<queue, Rest>>

\* ... or 'permanently_failed': a refused recipient, bad credentials, any other error.
SendRefused(w) ==
    /\ TaskAt(w, "sending") /\ GotoTask(w, "escalate")
    /\ UNCHANGED <<queue, accepted, Rest>>

\* Faulty: one retry more, which Celery answers with an exception.
SendFailsOnceMore(w) ==
    /\ TaskAt(w, "sending")
    /\ accepted' \in {accepted, accepted \cup {MailOf(w)}}
    /\ IF mailer[w].msg.retries < MAX_RETRIES
       THEN queue' = [queue EXCEPT ![[mailer[w].msg EXCEPT !.retries = @ + 1]] = @ + 1]
       ELSE UNCHANGED queue
    /\ Ack(w)
    /\ UNCHANGED Rest

\* ... or raises a connection error or a timeout, before or after the server took the
\* mail.  self.retry publishes the message again, with its count; the last try escalates.
SendFails(w) ==
    /\ TaskAt(w, "sending")
    /\ accepted' \in {accepted, accepted \cup {MailOf(w)}}
    /\ \/ /\ mailer[w].msg.retries < MAX_RETRIES
          /\ queue' = [queue EXCEPT ![[mailer[w].msg EXCEPT !.retries = @ + 1]] = @ + 1]
          /\ Ack(w)
       \/ /\ mailer[w].msg.retries = MAX_RETRIES
          /\ GotoTask(w, "escalate")
          /\ UNCHANGED queue
    /\ UNCHANGED Rest

Exists(o) == o \in Order \ gone
Recent(o) == {e \in Escalation : escalation[e].order = o /\ escalation[e].recent}

\* _trigger_escalation: nothing for a mail without an order, and nothing for an order
\* that is gone.  create_escalation_notification looks for one of the last 24 hours ...
Escalate(w) ==
    /\ TaskAt(w, "escalate")
    /\ \/ /\ Exists(OrderAt(w)) /\ Recent(OrderAt(w)) = {}
          /\ GotoTask(w, "create")
          /\ raced' = raced \cup {OrderAt(v) : v \in {v \in MailWorker \ {w} :
                                     TaskAt(v, "create") /\ OrderAt(v) = OrderAt(w)}}
       \/ /\ ~Exists(OrderAt(w)) \/ Recent(OrderAt(w)) # {}
          /\ Ack(w) /\ UNCHANGED raced
    /\ UNCHANGED <<queue, accepted, escalation, gone, dropped, cut, faults>>

NextRow(e) ==
    escalation[e].order = "none" /\ \A f \in Escalation : escalation[f].order = "none" => e <= f

\* ... and creates it, for the escalation address or the supplier's, or with none (an order
\* deleted meanwhile raises, and the exception is swallowed) ...
CreateEscalation(w) ==
    /\ TaskAt(w, "create")
    /\ \/ /\ ~Exists(OrderAt(w))
          /\ Ack(w) /\ UNCHANGED escalation
       \/ /\ Exists(OrderAt(w))
          /\ \E e \in Escalation, s \in {"pending", "bare"} :
                /\ NextRow(e)
                /\ escalation' = [escalation EXCEPT ![e] = [order |-> OrderAt(w),
                                    status |-> s, recent |-> TRUE, told |-> FALSE]]
                /\ mailer' = [mailer EXCEPT ![w].pc = "notify", ![w].row = e]
    /\ UNCHANGED <<queue, accepted, gone, dropped, cut, raced, faults>>

\* ... NotificationService.create gives every active user a notice ...
NotifyUsers(w) ==
    /\ TaskAt(w, "notify") /\ GotoTask(w, "mail")
    /\ escalation' = [escalation EXCEPT ![mailer[w].row].told =
                                            escalation[mailer[w].row].order # "none"]
    /\ UNCHANGED <<queue, accepted, gone, dropped, cut, raced, faults>>

\* A row that went with its order is not written, and nothing is sent without an address.
Unmailed(row) == row.order = "none" \/ row.status = "bare"

\* Faulty: the row keeps its status when the broker cannot be reached.
MailOutOnlySuccess(w) ==
    /\ TaskAt(w, "mail") /\ Ack(w)
    /\ \E s \in {"sent", "pending"} :
          escalation' = [escalation EXCEPT ![mailer[w].row].status =
                            IF Unmailed(escalation[mailer[w].row]) THEN @ ELSE s]
    /\ UNCHANGED <<queue, accepted, gone, dropped, cut, raced, faults>>

\* ... _send_escalation_email queues a mail: 'sent' when the broker has taken it,
\* 'failed' when it has not.
MailOut(w) ==
    /\ TaskAt(w, "mail") /\ Ack(w)
    /\ \E s \in {"sent", "failed"} :
          escalation' = [escalation EXCEPT ![mailer[w].row].status =
                            IF Unmailed(escalation[mailer[w].row]) THEN @ ELSE s]
    /\ UNCHANGED <<queue, accepted, gone, dropped, cut, raced, faults>>

-----------------------------------------------------------------------------
Fault == faults < MaxFaults /\ faults' = faults + 1
CutRow(w) == cut' = cut \cup ({mailer[w].row} \ {0})

\* The worker dies: its message was not acknowledged.
Crash(w) ==
    /\ Fault /\ ~TaskAt(w, "idle")
    /\ queue' = [queue EXCEPT ![mailer[w].msg] = @ + 1]
    /\ Ack(w) /\ CutRow(w)
    /\ UNCHANGED <<accepted, escalation, gone, dropped, raced>>

\* The visibility timeout passes while the worker goes on.
DeliverAgain(w) ==
    /\ Fault /\ ~TaskAt(w, "idle")
    /\ queue' = [queue EXCEPT ![mailer[w].msg] = @ + 1]
    /\ UNCHANGED <<mailer, accepted, escalation, gone, dropped, cut, raced>>

\* A statement of the escalation fails: _trigger_escalation logs it and the task ends.
EscalationRaises(w) ==
    /\ Fault /\ mailer[w].pc \in {"escalate"} \cup Escalating
    /\ dropped' = dropped \cup {MailOf(w)}
    /\ Ack(w) /\ CutRow(w)
    /\ UNCHANGED <<queue, accepted, escalation, gone, raced>>

\* 24 hours pass.
Age(e) ==
    /\ escalation[e].recent
    /\ escalation' = [escalation EXCEPT ![e].recent = FALSE]
    /\ UNCHANGED <<queue, mailer, accepted, gone, dropped, cut, raced, faults>>

\* A manager deletes the order, and its escalations with it (CASCADE).
DropOrder(o) ==
    /\ Exists(o)
    /\ gone' = gone \cup {o}
    /\ escalation' = [e \in Escalation |->
                        IF escalation[e].order = o THEN NoRow ELSE escalation[e]]
    /\ UNCHANGED <<queue, mailer, accepted, dropped, cut, raced, faults>>

WorkerStep(w) ==
    \/ \E q \in Message : Take(w, q)
    \/ SendAccepted(w) \/ SendRefused(w) \/ SendFails(w)
    \/ Escalate(w) \/ CreateEscalation(w) \/ NotifyUsers(w) \/ MailOut(w)

MailNext ==
    \/ \E w \in MailWorker : WorkerStep(w) \/ Crash(w) \/ DeliverAgain(w) \/ EscalationRaises(w)
    \/ \E e \in Escalation : Age(e)
    \/ \E o \in Order : DropOrder(o)

\* A worker that lives goes on; nothing forces a fault, a deletion or the clock.
MailFairness == \A w \in MailWorker : WF_mailVars(WorkerStep(w))

MailSpec == MailInit /\ [][MailNext]_mailVars /\ MailFairness

-----------------------------------------------------------------------------
TakenUp(m) == \E w \in MailWorker : ~TaskAt(w, "idle") /\ MailOf(w) = m
AccountedFor(m) ==
    \/ m \in accepted \/ OrderOf[m] \in gone \/ m \in dropped
    \/ \E e \in Escalation : escalation[e].order = OrderOf[m]

\* Retries, crashes, second deliveries and the dedup never lose a mail silently: each mail
\* about an order that a worker has taken up is taken by the supplier's server, or somebody
\* gets an escalation of its order; only an exception inside the escalation or the deletion
\* of the order ends a failed mail without a trace.
MailIsSettled == \A m \in {m \in Mail : OrderOf[m] \in Order} : TakenUp(m) ~> AccountedFor(m)

\* create_escalation_notification "prevents duplicate notifications for the same PO +
\* reason combination within a 24-hour window" as long as no two workers escalate the
\* order at one time: the check and the insert are two statements.
OneRecentUnlessRaced == \A o \in Order \ raced : Cardinality(Recent(o)) <= 1

\* An escalation that nobody works on any more has been announced to the users and its
\* mail was attempted, if it has an address, unless its worker was cut off in between: the
\* task that is delivered again finds the row and takes it for a duplicate.
UnannouncedWasCut ==
    \A e \in Escalation \ cut :
        /\ escalation[e].order # "none"
        /\ \A w \in MailWorker : mailer[w].row # e
        => escalation[e].told /\ escalation[e].status # "pending"

\* Both, in every state of the table of escalations.
EscalationInv == OneRecentUnlessRaced /\ UnannouncedWasCut
=============================================================================
