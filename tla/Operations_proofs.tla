-------------------------- MODULE Operations_proofs --------------------------
(***************************************************************************)
(* Mail, caches, alerts and forecasts: escalations are single and          *)
(* announced, caches keep their promise, an alert rule fires once per      *)
(* cooldown and the newest forecast is the one shown, for any number of    *)
(* orders, workers, readers, evaluators and forecasters.                   *)
(***************************************************************************)
EXTENDS MailDelivery, CachedReads, Alerts, Forecasts, FiniteSetTheorems,
        WellFoundedInduction, TLAPS

-----------------------------------------------------------------------------
(* The least of a set of numbers.                                          *)

\* A set of naturals that is not empty has a least member.
LEMMA LeastExists ==
    ASSUME NEW S \in SUBSET Nat, S # {}
    PROVE  \E m \in S : \A x \in S : m <= x
<1> DEFINE Below(n) == {x \in S : x < n}
           T == {Below(n) : n \in S}
<1>1. T \subseteq FiniteSubsetsOf(S) /\ T # {}
  <2>1. ASSUME NEW n \in S PROVE Below(n) \subseteq S /\ IsFiniteSet(Below(n))
    <3>1. \A x \in Below(n) : x <= n  OBVIOUS
    <3>2. Below(n) \in SUBSET Nat /\ n \in Nat  OBVIOUS
    <3> QED  BY <3>1, <3>2, FS_BoundedSetOfNaturals
  <2> QED  BY <2>1 DEF FiniteSubsetsOf
<1>2. PICK t \in T : \A u \in T : ~(<<u, t>> \in StrictSubsetOrdering(S))
  BY <1>1, FS_StrictSubsetOrderingWellFounded, WFMin
<1>3. PICK m \in S : t = Below(m)  OBVIOUS
<1>4. ASSUME NEW x \in S, x < m PROVE FALSE
  <2> x \in Nat /\ m \in Nat  OBVIOUS
  <2>a. \A y \in S : y < x => y < m  BY <1>4
  <2>b. x \notin Below(x) /\ x \in Below(m)  BY <1>4
  <2>1. Below(x) \in T /\ Below(x) \subseteq t /\ x \in t /\ x \notin Below(x)
    BY <1>3, <2>a, <2>b
  <2>2. <<Below(x), t>> \in StrictSubsetOrdering(S)
    BY <2>1 DEF StrictSubsetOrdering
  <2> QED  BY <1>2, <2>1, <2>2
<1> QED  BY <1>4

-----------------------------------------------------------------------------
(* Supplier mail and escalation.                                           *)

MailerState == [pc: {"idle", "sending", "escalate"} \cup Escalating,
                msg: Message, row: 0..NumEscalations]

Creates(w, o) == TaskAt(w, "create") /\ OrderAt(w) = o

\* Of an order that was not raced for at most one worker is about to create an escalation,
\* and then there is no recent one.
OneAtATime(o) ==
    /\ \A e, f \in Recent(o) : e = f
    /\ \A v, w \in MailWorker : Creates(v, o) /\ Creates(w, o) => v = w
    /\ (\E w \in MailWorker : Creates(w, o)) => Recent(o) = {}

\* An escalation whose worker was not cut off has been announced and mailed, or is about to be.
Announced(e) ==
    escalation[e].order # "none" =>
        \/ \E w \in MailWorker : TaskAt(w, "notify") /\ mailer[w].row = e
        \/ escalation[e].told /\ \E w \in MailWorker : TaskAt(w, "mail") /\ mailer[w].row = e
        \/ escalation[e].told /\ escalation[e].status # "pending"

RaceInv == \A o \in Order \ raced : OneAtATime(o)
AnnounceInv == \A e \in Escalation \ cut : Announced(e)
MailInv == MailTypeOK /\ RaceInv /\ AnnounceInv

LEMMA MailInvSuffices == MailInv => EscalationInv
<1> SUFFICES ASSUME MailInv PROVE EscalationInv  OBVIOUS
<1>1. ASSUME NEW o \in Order \ raced PROVE Cardinality(Recent(o)) <= 1
  <2>1. \A e, f \in Recent(o) : e = f  BY DEF MailInv, RaceInv, OneAtATime
  <2>2. CASE Recent(o) = {}  BY <2>2, FS_EmptySet
  <2>3. ASSUME NEW e \in Recent(o) PROVE Cardinality(Recent(o)) <= 1
    <3>1. Recent(o) = {e}  BY <2>1, <2>3
    <3>2. Cardinality({e}) = 1  BY FS_Singleton
    <3> QED  BY <3>1, <3>2
  <2> QED  BY <2>2, <2>3
<1>2. UnannouncedWasCut  BY DEF MailInv, AnnounceInv, Announced, UnannouncedWasCut
<1> QED  BY <1>1, <1>2 DEF EscalationInv, OneRecentUnlessRaced

LEMMA NoTaskType == NoTask \in MailerState /\ NoTask.pc = "idle"
<1>1. (CHOOSE m \in Mail : TRUE) \in Mail  BY MailAssumption
<1>2. 0 \in 0..MAX_RETRIES /\ 0 \in 0..NumEscalations  BY MailAssumption
<1> QED  BY <1>1, <1>2 DEF NoTask, First, MailerState, Message

LEMMA MailInitInv == MailInit => MailInv
<1> SUFFICES ASSUME MailInit PROVE MailInv  OBVIOUS
<1>1. \A q \in Message : (IF q.retries = 0 THEN 1 ELSE 0) \in Nat  OBVIOUS
<1>2. NoRow \in Row /\ NoRow.order = "none" /\ ~NoRow.recent  BY DEF NoRow, Row
<1>3. 0 \in 0..MaxFaults  BY MailAssumption
<1>4. mailer \in [MailWorker -> MailerState]  BY NoTaskType DEF MailInit
<1>5. MailTypeOK  BY <1>1, <1>2, <1>3, <1>4 DEF MailInit, MailTypeOK, MailerState
<1>6. \A w \in MailWorker : mailer[w].pc = "idle"  BY NoTaskType DEF MailInit
<1>7. \A e \in Escalation : escalation[e] = NoRow  BY DEF MailInit
<1>8. RaceInv  BY <1>2, <1>6, <1>7 DEF RaceInv, OneAtATime, Recent, Creates, TaskAt
<1>9. AnnounceInv  BY <1>2, <1>7 DEF AnnounceInv, Announced
<1> QED  BY <1>5, <1>8, <1>9 DEF MailInv

-----------------------------------------------------------------------------
(***************************************************************************)
(* Lemmas on the pieces of the state.                                      *)
(***************************************************************************)
LEMMA MailerType ==
    ASSUME MailInv, NEW w \in MailWorker
    PROVE  /\ mailer \in [MailWorker -> MailerState] /\ mailer[w] \in MailerState
           /\ mailer[w].msg \in Message /\ MailOf(w) \in Mail
BY DEF MailInv, MailTypeOK, MailerState, MailOf, Message

\* A worker changes that is neither about to announce, before, nor to create, afterwards.
LEMMA WorkerMoves ==
    ASSUME MailInv, NEW w \in MailWorker, NEW n \in MailerState,
           mailer' = [mailer EXCEPT ![w] = n],
           ~TaskAt(w, "notify"), ~TaskAt(w, "mail"), n.pc # "create",
           UNCHANGED <<escalation, cut, raced>>
    PROVE  RaceInv' /\ AnnounceInv'
<1>1. \A v \in MailWorker : mailer'[v] = IF v = w THEN n ELSE mailer[v]
  BY MailerType
<1>2. \A v \in MailWorker, o \in Order : Creates(v, o)' => Creates(v, o)
  BY <1>1 DEF Creates, TaskAt, OrderAt, MailOf
<1>3. \A o \in Order : Recent(o)' = Recent(o)  BY DEF Recent
<1>4. RaceInv'  BY <1>2, <1>3 DEF MailInv, RaceInv, OneAtATime
<1>5. \A v \in MailWorker : TaskAt(v, "notify") \/ TaskAt(v, "mail") => mailer'[v] = mailer[v]
  BY <1>1
<1>6. AnnounceInv'  BY <1>5 DEF MailInv, AnnounceInv, Announced, TaskAt
<1> QED  BY <1>4, <1>6

LEMMA GotoType ==
    ASSUME MailInv, NEW w \in MailWorker,
           NEW pc \in {"sending", "escalate", "create", "notify", "mail"}, GotoTask(w, pc)
    PROVE  \E n \in MailerState : /\ mailer' = [mailer EXCEPT ![w] = n] /\ n.pc = pc
                                  /\ n.msg = mailer[w].msg /\ n.row = mailer[w].row
<1> DEFINE n == [mailer[w] EXCEPT !.pc = pc]
<1>1. mailer[w] \in MailerState  BY MailerType
<1>2. n \in MailerState /\ n.pc = pc /\ n.msg = mailer[w].msg /\ n.row = mailer[w].row
  BY <1>1 DEF MailerState, Escalating
<1>3. mailer' = [mailer EXCEPT ![w] = n]  BY <1>1 DEF GotoTask, MailerState
<1> QED  BY <1>2, <1>3

\* The broker takes one copy more of a message.
LEMMA QueueType ==
    ASSUME MailInv, NEW q \in Message, queue' = [queue EXCEPT ![q] = @ + 1]
    PROVE  queue' \in [Message -> Nat]
BY DEF MailInv, MailTypeOK

-----------------------------------------------------------------------------
(***************************************************************************)
(* Sending.                                                                *)
(***************************************************************************)
LEMMA TakeInv ==
    ASSUME MailInv, NEW w \in MailWorker, NEW q \in Message, Take(w, q) PROVE MailInv'
<1> DEFINE n == [pc |-> "sending", msg |-> q, row |-> 0]
<1>1. n \in MailerState /\ n.pc = "sending"  BY MailAssumption DEF MailerState
<1>2. mailer' = [mailer EXCEPT ![w] = n] /\ UNCHANGED <<accepted, Rest>> /\ mailer[w].pc = "idle"
  BY DEF Take, TaskAt
<1>3. queue' \in [Message -> Nat]  BY DEF Take, MailInv, MailTypeOK
<1> HIDE DEF n
<1>4. mailer' \in [MailWorker -> MailerState]  BY <1>1, <1>2, MailerType
<1>5. MailTypeOK'  BY <1>2, <1>3, <1>4 DEF MailInv, MailTypeOK, MailerState, Rest
<1>6. RaceInv' /\ AnnounceInv'  BY <1>1, <1>2, WorkerMoves DEF Rest, TaskAt
<1> QED  BY <1>5, <1>6 DEF MailInv

\* The task ends, or goes on to escalate, in the middle of sending.
LEMMA SendEnds ==
    ASSUME MailInv, NEW w \in MailWorker, TaskAt(w, "sending"),
           Ack(w) \/ GotoTask(w, "escalate"),
           queue' \in [Message -> Nat], accepted' \subseteq Mail, UNCHANGED Rest
    PROVE  MailInv'
<1>1. PICK n \in MailerState : mailer' = [mailer EXCEPT ![w] = n] /\ n.pc \in {"idle", "escalate"}
  BY NoTaskType, GotoType DEF Ack
<1>2. mailer' \in [MailWorker -> MailerState]  BY <1>1, MailerType
<1>3. MailTypeOK'  BY <1>2 DEF MailInv, MailTypeOK, MailerState, Rest
<1>4. RaceInv' /\ AnnounceInv'  BY <1>1, WorkerMoves DEF Rest, TaskAt
<1> QED  BY <1>3, <1>4 DEF MailInv

LEMMA SendInv ==
    ASSUME MailInv, NEW w \in MailWorker, SendAccepted(w) \/ SendRefused(w) \/ SendFails(w)
    PROVE  MailInv'
<1>1. queue \in [Message -> Nat] /\ accepted \subseteq Mail  BY DEF MailInv, MailTypeOK
<1>2. MailOf(w) \in Mail /\ mailer[w].msg \in Message  BY MailerType
<1>3. CASE SendAccepted(w)  BY <1>1, <1>2, <1>3, SendEnds DEF SendAccepted
<1>4. CASE SendRefused(w)  BY <1>1, <1>4, SendEnds DEF SendRefused
<1>5. CASE SendFails(w)
  <2>1. TaskAt(w, "sending") /\ accepted' \subseteq Mail /\ UNCHANGED Rest
    BY <1>1, <1>2, <1>5 DEF SendFails
  <2>2. ASSUME mailer[w].msg.retries < MAX_RETRIES, Ack(w),
               queue' = [queue EXCEPT ![[mailer[w].msg EXCEPT !.retries = @ + 1]] = @ + 1]
        PROVE  MailInv'
    <3> DEFINE q == [mailer[w].msg EXCEPT !.retries = @ + 1]
    <3>1. mailer[w].msg.retries + 1 \in 0..MAX_RETRIES
      BY <1>2, <2>2, MailAssumption DEF Message
    <3>2. q \in Message  BY <1>2, <3>1 DEF Message
    <3>3. queue' = [queue EXCEPT ![q] = @ + 1]  BY <2>2
    <3> HIDE DEF q
    <3> QED  BY <2>1, <2>2, <3>2, <3>3, QueueType, SendEnds
  <2>3. ASSUME GotoTask(w, "escalate"), UNCHANGED queue PROVE MailInv'
    BY <1>1, <2>1, <2>3, SendEnds
  <2> QED  BY <1>5, <2>2, <2>3 DEF SendFails
<1> QED  BY <1>3, <1>4, <1>5

-----------------------------------------------------------------------------
(***************************************************************************)
(* Escalating.                                                             *)
(***************************************************************************)
\* The check: whoever finds another worker past it notes the race.
LEMMA EscalateInv ==
    ASSUME MailInv, NEW w \in MailWorker, Escalate(w) PROVE MailInv'
<1>1. TaskAt(w, "escalate") /\ UNCHANGED <<queue, accepted, escalation, gone, dropped, cut, faults>>
  BY DEF Escalate
<1>2. ASSUME Ack(w), UNCHANGED raced PROVE MailInv'
  <2>1. mailer' \in [MailWorker -> MailerState]  BY <1>2, NoTaskType, MailerType DEF Ack
  <2>2. MailTypeOK'  BY <1>1, <1>2, <2>1 DEF MailInv, MailTypeOK, MailerState
  <2>3. RaceInv' /\ AnnounceInv'  BY <1>1, <1>2, NoTaskType, WorkerMoves DEF Ack, TaskAt
  <2> QED  BY <2>2, <2>3 DEF MailInv
<1>3. ASSUME Exists(OrderAt(w)), Recent(OrderAt(w)) = {}, GotoTask(w, "create"),
             raced' = raced \cup {OrderAt(v) : v \in {v \in MailWorker \ {w} :
                                     TaskAt(v, "create") /\ OrderAt(v) = OrderAt(w)}}
      PROVE  MailInv'
  <2>1. PICK n \in MailerState : /\ mailer' = [mailer EXCEPT ![w] = n] /\ n.pc = "create"
                                 /\ n.msg = mailer[w].msg
    BY <1>3, GotoType
  <2>2. mailer' \in [MailWorker -> MailerState]  BY <2>1, MailerType
  <2>3. raced' \subseteq Order  BY <1>3 DEF MailInv, MailTypeOK, Exists
  <2>4. MailTypeOK'  BY <1>1, <2>2, <2>3 DEF MailInv, MailTypeOK, MailerState
  <2>5. \A v \in MailWorker : mailer'[v] = IF v = w THEN n ELSE mailer[v]  BY <2>1, MailerType
  <2>6. \A e \in Escalation : Announced(e) => Announced(e)'
    BY <1>1, <2>1, <2>5 DEF Announced, TaskAt
  <2>7. AnnounceInv'  BY <1>1, <2>6 DEF MailInv, AnnounceInv
  <2>8. ASSUME NEW o \in Order \ raced' PROVE OneAtATime(o)'
    <3>1. o \notin raced /\ OneAtATime(o)  BY <1>3, <2>8 DEF MailInv, RaceInv
    <3>2. Recent(o)' = Recent(o)  BY <1>1 DEF Recent
    <3>3. \A v \in MailWorker \ {w} : Creates(v, o)' <=> Creates(v, o)
      BY <2>5 DEF Creates, TaskAt, OrderAt, MailOf
    <3>4. Creates(w, o)' => o = OrderAt(w)
      BY <2>1, <2>5 DEF Creates, OrderAt, MailOf
    <3>5. CASE o = OrderAt(w)
      <4>1. \A v \in MailWorker \ {w} : ~Creates(v, o)  BY <1>3, <2>8, <3>5 DEF Creates
      <4> QED  BY <1>3, <3>2, <3>3, <3>5, <4>1 DEF OneAtATime
    <3>6. CASE o # OrderAt(w)  BY <3>1, <3>2, <3>3, <3>4, <3>6 DEF OneAtATime
    <3> QED  BY <3>5, <3>6
  <2> QED  BY <2>4, <2>7, <2>8 DEF MailInv, RaceInv
<1> QED  BY <1>2, <1>3 DEF Escalate

\* The insert: of an order nobody races for, the only recent one.
LEMMA CreateEscalationInv ==
    ASSUME MailInv, NEW w \in MailWorker, CreateEscalation(w) PROVE MailInv'
<1>1. TaskAt(w, "create") /\ UNCHANGED <<queue, accepted, gone, dropped, cut, raced, faults>>
  BY DEF CreateEscalation
<1>2. ASSUME Ack(w), UNCHANGED escalation PROVE MailInv'
  <2>1. mailer' \in [MailWorker -> MailerState]  BY <1>2, NoTaskType, MailerType DEF Ack
  <2>2. MailTypeOK'  BY <1>1, <1>2, <2>1 DEF MailInv, MailTypeOK, MailerState
  <2>3. RaceInv' /\ AnnounceInv'  BY <1>1, <1>2, NoTaskType, WorkerMoves DEF Ack, TaskAt
  <2> QED  BY <2>2, <2>3 DEF MailInv
<1>3. ASSUME Exists(OrderAt(w)), NEW e \in Escalation, NEW s \in {"pending", "bare"},
             escalation' = [escalation EXCEPT ![e] = [order |-> OrderAt(w),
                               status |-> s, recent |-> TRUE, told |-> FALSE]],
             mailer' = [mailer EXCEPT ![w].pc = "notify", ![w].row = e]
      PROVE  MailInv'
  <2> DEFINE n == [mailer[w] EXCEPT !.pc = "notify", !.row = e]
             row == [order |-> OrderAt(w), status |-> s, recent |-> TRUE, told |-> FALSE]
  <2>1. mailer[w] \in MailerState  BY MailerType
  <2>2. e \in 0..NumEscalations  BY MailAssumption DEF Escalation
  <2>3. n \in MailerState /\ n.pc = "notify" /\ n.row = e  BY <2>1, <2>2 DEF MailerState, Escalating
  <2>4. mailer' = [mailer EXCEPT ![w] = n]  BY <1>3, <2>1 DEF MailerState
  <2>5. row \in Row /\ row.order = OrderAt(w)  BY <1>3 DEF Row, Exists
  <2>6. escalation' = [escalation EXCEPT ![e] = row] /\ escalation \in [Escalation -> Row]
    BY <1>3 DEF MailInv, MailTypeOK
  <2> HIDE DEF n, row
  <2>7. mailer' \in [MailWorker -> MailerState] /\ escalation' \in [Escalation -> Row]
    BY <2>3, <2>4, <2>5, <2>6, MailerType
  <2>8. MailTypeOK'  BY <1>1, <2>7 DEF MailInv, MailTypeOK, MailerState
  <2>9. \A v \in MailWorker : mailer'[v] = IF v = w THEN n ELSE mailer[v]  BY <2>4, MailerType
  <2>10. \A f \in Escalation : escalation'[f] = IF f = e THEN row ELSE escalation[f]  BY <2>6
  <2>11. AnnounceInv'
    <3> SUFFICES ASSUME NEW f \in Escalation \ cut PROVE Announced(f)'
      BY <1>1 DEF AnnounceInv
    <3>1. CASE f = e  BY <2>3, <2>9, <3>1 DEF Announced, TaskAt
    <3>2. CASE f # e
      BY <1>1, <2>9, <2>10, <3>2 DEF MailInv, AnnounceInv, Announced, TaskAt
    <3> QED  BY <3>1, <3>2
  <2>12. ASSUME NEW o \in Order \ raced' PROVE OneAtATime(o)'
    <3>1. OneAtATime(o)  BY <1>1, <2>12 DEF MailInv, RaceInv
    <3>2. \A v \in MailWorker : Creates(v, o)' => v # w /\ Creates(v, o)
      BY <2>3, <2>9 DEF Creates, TaskAt, OrderAt, MailOf
    <3>3. CASE o = OrderAt(w)
      <4>1. Creates(w, o)  BY <1>1, <3>3 DEF Creates
      <4>2. Recent(o) = {} /\ \A v \in MailWorker : ~Creates(v, o)'
        BY <3>1, <3>2, <4>1 DEF OneAtATime
      <4>3. Recent(o)' \subseteq {e}  BY <2>10, <4>2 DEF Recent
      <4> QED  BY <4>2, <4>3 DEF OneAtATime
    <3>4. CASE o # OrderAt(w)
      <4>1. Recent(o)' \subseteq Recent(o)  BY <2>5, <2>10, <3>4 DEF Recent
      <4> QED  BY <3>1, <3>2, <4>1 DEF OneAtATime
    <3> QED  BY <3>3, <3>4
  <2> QED  BY <2>8, <2>11, <2>12 DEF MailInv, RaceInv
<1> QED  BY <1>2, <1>3 DEF CreateEscalation

\* Recent escalations are not affected by what is announced and mailed.
LEMMA AnnouncingKeepsRaces ==
    ASSUME MailInv, NEW w \in MailWorker, NEW n \in MailerState,
           mailer' = [mailer EXCEPT ![w] = n], n.pc # "create", UNCHANGED raced,
           \A e \in Escalation : escalation'[e].order = escalation[e].order
                                 /\ escalation'[e].recent = escalation[e].recent
    PROVE  RaceInv'
<1>1. \A v \in MailWorker : mailer'[v] = IF v = w THEN n ELSE mailer[v]  BY MailerType
<1>2. \A v \in MailWorker, o \in Order : Creates(v, o)' => Creates(v, o)
  BY <1>1 DEF Creates, TaskAt, OrderAt, MailOf
<1>3. \A o \in Order : Recent(o)' = Recent(o)  BY DEF Recent
<1> QED  BY <1>2, <1>3 DEF MailInv, RaceInv, OneAtATime

LEMMA NotifyUsersInv ==
    ASSUME MailInv, NEW w \in MailWorker, NotifyUsers(w) PROVE MailInv'
<1> DEFINE r == mailer[w].row
           b == escalation[r].order # "none"
<1>1. /\ escalation' = [escalation EXCEPT ![r].told = b]
      /\ UNCHANGED <<queue, accepted, gone, dropped, cut, raced, faults>>
      /\ TaskAt(w, "notify")
  BY DEF NotifyUsers
<1>2. PICK n \in MailerState : /\ mailer' = [mailer EXCEPT ![w] = n] /\ n.pc = "mail"
                               /\ n.row = r
  BY GotoType DEF NotifyUsers
<1>3. escalation \in [Escalation -> Row] /\ b \in BOOLEAN  BY DEF MailInv, MailTypeOK
<1> HIDE DEF r
<1>4. \A e \in Escalation :
         /\ escalation'[e] \in Row
         /\ escalation'[e].order = escalation[e].order
         /\ escalation'[e].recent = escalation[e].recent
         /\ escalation'[e].status = escalation[e].status
         /\ escalation'[e].told = IF e = r THEN b ELSE escalation[e].told
  <2> HIDE DEF b
  <2> QED  BY <1>1, <1>3 DEF Row
<1>5. escalation' \in [Escalation -> Row]
  <2>1. DOMAIN escalation' = Escalation
        /\ escalation' = [e \in Escalation |-> escalation'[e]]
    BY <1>1, <1>3
  <2> QED  BY <1>4, <2>1
<1>6. mailer' \in [MailWorker -> MailerState]  BY <1>2, MailerType
<1>7. MailTypeOK'  BY <1>1, <1>5, <1>6 DEF MailInv, MailTypeOK, MailerState
<1>8. RaceInv'  BY <1>1, <1>2, <1>4, AnnouncingKeepsRaces
<1>9. \A v \in MailWorker : mailer'[v] = IF v = w THEN n ELSE mailer[v]  BY <1>2, MailerType
<1>10. AnnounceInv'
  <2> SUFFICES ASSUME NEW e \in Escalation \ cut, escalation[e].order # "none"
               PROVE  \/ \E v \in MailWorker : mailer'[v].pc = "notify" /\ mailer'[v].row = e
                      \/ /\ escalation'[e].told
                         /\ \E v \in MailWorker : mailer'[v].pc = "mail" /\ mailer'[v].row = e
                      \/ escalation'[e].told /\ escalation'[e].status # "pending"
    BY <1>1, <1>4 DEF AnnounceInv, Announced, TaskAt
  <2>1. CASE e = r  BY <1>2, <1>4, <1>9, <2>1
  <2>2. CASE e # r
    BY <1>1, <1>4, <1>9, <2>2 DEF MailInv, AnnounceInv, Announced, TaskAt, r
  <2> QED  BY <2>1, <2>2
<1> QED  BY <1>7, <1>8, <1>10 DEF MailInv

LEMMA MailOutInv ==
    ASSUME MailInv, NEW w \in MailWorker, MailOut(w) PROVE MailInv'
<1> DEFINE r == mailer[w].row
<1>1. PICK s \in {"sent", "failed"} : escalation' = [escalation EXCEPT ![r].status =
                                         IF Unmailed(escalation[r]) THEN @ ELSE s]
  BY DEF MailOut
<1>2. /\ mailer' = [mailer EXCEPT ![w] = NoTask] /\ TaskAt(w, "mail")
      /\ UNCHANGED <<queue, accepted, gone, dropped, cut, raced, faults>>
  BY DEF MailOut, Ack
<1>3. escalation \in [Escalation -> Row]  BY DEF MailInv, MailTypeOK
<1> HIDE DEF r
<1>4. \A e \in Escalation :
         /\ escalation'[e] \in Row
         /\ escalation'[e].order = escalation[e].order
         /\ escalation'[e].recent = escalation[e].recent
         /\ escalation'[e].told = escalation[e].told
         /\ escalation'[e].status =
               IF e = r /\ ~Unmailed(escalation[e]) THEN s ELSE escalation[e].status
  BY <1>1, <1>3 DEF Row
<1>5. escalation' \in [Escalation -> Row]
  <2>1. DOMAIN escalation' = Escalation
        /\ escalation' = [e \in Escalation |-> escalation'[e]]
    BY <1>1, <1>3
  <2> QED  BY <1>4, <2>1
<1>6. mailer' \in [MailWorker -> MailerState]  BY <1>2, NoTaskType, MailerType
<1>7. MailTypeOK'  BY <1>2, <1>5, <1>6 DEF MailInv, MailTypeOK, MailerState
<1>8. RaceInv'  BY <1>2, <1>4, NoTaskType, AnnouncingKeepsRaces
<1>9. \A v \in MailWorker \ {w} : mailer'[v] = mailer[v]  BY <1>2, MailerType
<1>10. AnnounceInv'
  <2> SUFFICES ASSUME NEW e \in Escalation \ cut, escalation[e].order # "none"
               PROVE  \/ \E v \in MailWorker : mailer'[v].pc = "notify" /\ mailer'[v].row = e
                      \/ /\ escalation'[e].told
                         /\ \E v \in MailWorker : mailer'[v].pc = "mail" /\ mailer'[v].row = e
                      \/ escalation'[e].told /\ escalation'[e].status # "pending"
    BY <1>2, <1>4 DEF AnnounceInv, Announced, TaskAt
  <2>1. Announced(e)  BY DEF MailInv, AnnounceInv
  <2>2. CASE \E v \in MailWorker : TaskAt(v, "notify") /\ mailer[v].row = e
    BY <1>2, <1>9, <2>2 DEF TaskAt
  <2>3. CASE escalation[e].told /\ e = r  BY <1>4, <2>3 DEF Unmailed
  <2>4. CASE escalation[e].told /\ e # r
    BY <1>4, <1>9, <2>1, <2>4 DEF Announced, TaskAt, r
  <2> QED  BY <2>1, <2>2, <2>3, <2>4 DEF Announced
<1> QED  BY <1>7, <1>8, <1>10 DEF MailInv

-----------------------------------------------------------------------------
(***************************************************************************)
(* Faults, the clock and deletions.                                        *)
(***************************************************************************)
LEMMA FaultType == ASSUME MailInv, Fault PROVE faults' \in 0..MaxFaults
BY MailAssumption DEF MailInv, MailTypeOK, Fault

\* A worker that is cut off: what it was announcing is noted.
LEMMA CutOff ==
    ASSUME MailInv, NEW w \in MailWorker, Ack(w), CutRow(w), Fault,
           queue' \in [Message -> Nat], dropped' \subseteq Mail,
           UNCHANGED <<accepted, escalation, gone, raced>>
    PROVE  MailInv'
<1>1. mailer' = [mailer EXCEPT ![w] = NoTask] /\ cut' = cut \cup ({mailer[w].row} \ {0})
  BY DEF Ack, CutRow
<1>2. mailer' \in [MailWorker -> MailerState]  BY <1>1, NoTaskType, MailerType
<1>3. mailer[w].row \in 0..NumEscalations  BY MailerType DEF MailerState
<1>4. cut' \subseteq Escalation
  <2>1. mailer[w].row # 0 => mailer[w].row \in Escalation  BY <1>3, MailAssumption DEF Escalation
  <2>2. cut \subseteq Escalation  BY DEF MailInv, MailTypeOK
  <2> QED  BY <1>1, <2>1, <2>2
<1>5. MailTypeOK'  BY <1>2, <1>4, FaultType DEF MailInv, MailTypeOK, MailerState
<1>6. RaceInv'  BY <1>1, NoTaskType, AnnouncingKeepsRaces
<1>7. \A v \in MailWorker \ {w} : mailer'[v] = mailer[v]  BY <1>1, MailerType
<1>8. AnnounceInv'
  <2> SUFFICES ASSUME NEW e \in Escalation \ cut' PROVE Announced(e)'
    BY DEF AnnounceInv
  <2>1. e \notin cut /\ mailer[w].row # e
    BY <1>1, MailAssumption DEF Escalation
  <2> QED  BY <1>7, <2>1 DEF MailInv, AnnounceInv, Announced, TaskAt
<1> QED  BY <1>5, <1>6, <1>8 DEF MailInv

LEMMA FaultInv ==
    ASSUME MailInv, NEW w \in MailWorker, Crash(w) \/ DeliverAgain(w) \/ EscalationRaises(w)
    PROVE  MailInv'
<1>1. mailer[w].msg \in Message /\ MailOf(w) \in Mail  BY MailerType
<1>2. queue \in [Message -> Nat] /\ dropped \subseteq Mail  BY DEF MailInv, MailTypeOK
<1>3. CASE Crash(w)
  <2>1. queue' \in [Message -> Nat]  BY <1>1, <1>3, QueueType DEF Crash
  <2> QED  BY <1>2, <1>3, <2>1, CutOff DEF Crash
<1>4. CASE EscalationRaises(w)  BY <1>1, <1>2, <1>4, CutOff DEF EscalationRaises
<1>5. CASE DeliverAgain(w)
  <2>1. queue' \in [Message -> Nat]  BY <1>1, <1>5, QueueType DEF DeliverAgain
  <2>2. UNCHANGED <<mailer, accepted, escalation, gone, dropped, cut, raced>>
    BY <1>5 DEF DeliverAgain
  <2>3. MailTypeOK'  BY <1>5, <2>1, <2>2, FaultType DEF DeliverAgain, MailInv, MailTypeOK
  <2>4. RaceInv' /\ AnnounceInv'
    BY <2>2 DEF MailInv, RaceInv, OneAtATime, Recent, Creates, TaskAt, OrderAt, MailOf,
                AnnounceInv, Announced
  <2> QED  BY <2>3, <2>4 DEF MailInv
<1> QED  BY <1>3, <1>4, <1>5

\* The clock and a deletion only take escalations out of the last 24 hours.
LEMMA RowsLeave ==
    ASSUME MailInv, UNCHANGED <<queue, mailer, accepted, dropped, cut, raced, faults>>,
           gone' \subseteq Order, escalation' \in [Escalation -> Row],
           \A e \in Escalation :
               \/ escalation'[e].order = "none" /\ ~escalation'[e].recent
               \/ /\ escalation'[e].order = escalation[e].order
                  /\ escalation'[e].recent => escalation[e].recent
                  /\ escalation'[e].status = escalation[e].status
                  /\ escalation'[e].told = escalation[e].told
    PROVE  MailInv'
<1>1. MailTypeOK'  BY DEF MailInv, MailTypeOK
<1>2. \A o \in Order : Recent(o)' \subseteq Recent(o)  BY DEF Recent
<1>3. \A w \in MailWorker, o \in Order : Creates(w, o)' <=> Creates(w, o)
  BY DEF Creates, TaskAt, OrderAt, MailOf
<1>4. RaceInv'  BY <1>2, <1>3 DEF MailInv, RaceInv, OneAtATime
<1>5. AnnounceInv'  BY DEF MailInv, AnnounceInv, Announced, TaskAt
<1> QED  BY <1>1, <1>4, <1>5 DEF MailInv

LEMMA AgeInv ==
    ASSUME MailInv, NEW e \in Escalation, Age(e) PROVE MailInv'
<1>1. escalation \in [Escalation -> Row] /\ gone \subseteq Order  BY DEF MailInv, MailTypeOK
<1>2. escalation' \in [Escalation -> Row]  BY <1>1 DEF Age, Row
<1>3. \A f \in Escalation :
         /\ escalation'[f].order = escalation[f].order
         /\ escalation'[f].recent => escalation[f].recent
         /\ escalation'[f].status = escalation[f].status
         /\ escalation'[f].told = escalation[f].told
  BY <1>1 DEF Age, Row
<1> QED  BY <1>1, <1>2, <1>3, RowsLeave DEF Age

LEMMA DropOrderInv ==
    ASSUME MailInv, NEW o \in Order, DropOrder(o) PROVE MailInv'
<1>1. escalation \in [Escalation -> Row] /\ gone \subseteq Order  BY DEF MailInv, MailTypeOK
<1>2. NoRow \in Row /\ NoRow.order = "none" /\ ~NoRow.recent  BY DEF NoRow, Row
<1>3. \A e \in Escalation :
         escalation'[e] = IF escalation[e].order = o THEN NoRow ELSE escalation[e]
  BY DEF DropOrder
<1>4. escalation' \in [Escalation -> Row]  BY <1>1, <1>2 DEF DropOrder
<1> QED  BY <1>1, <1>2, <1>3, <1>4, RowsLeave DEF DropOrder

-----------------------------------------------------------------------------
LEMMA MailStep == MailInv /\ [MailNext]_mailVars => MailInv'
<1> SUFFICES ASSUME MailInv, [MailNext]_mailVars PROVE MailInv'
  OBVIOUS
<1>1. ASSUME NEW w \in MailWorker, WorkerStep(w) PROVE MailInv'
  BY <1>1, TakeInv, SendInv, EscalateInv, CreateEscalationInv, NotifyUsersInv, MailOutInv
     DEF WorkerStep
<1>2. ASSUME NEW w \in MailWorker, Crash(w) \/ DeliverAgain(w) \/ EscalationRaises(w)
      PROVE  MailInv'
  BY <1>2, FaultInv
<1>3. ASSUME NEW e \in Escalation, Age(e) PROVE MailInv'  BY <1>3, AgeInv
<1>4. ASSUME NEW o \in Order, DropOrder(o) PROVE MailInv'  BY <1>4, DropOrderInv
<1>5. CASE UNCHANGED mailVars
  BY <1>5 DEF mailVars, MailInv, MailTypeOK, RaceInv, OneAtATime, Recent, Creates, TaskAt,
              OrderAt, MailOf, AnnounceInv, Announced
<1> QED  BY <1>1, <1>2, <1>3, <1>4, <1>5 DEF MailNext

\* An order has one recent escalation unless two workers escalated it at one time, and an
\* escalation that nobody works on has been announced unless its worker was cut off, however
\* often tasks are retried, delivered again or killed.
THEOREM EscalationsAreSingleAndAnnounced == MailSpec => []EscalationInv
BY MailInvSuffices, MailInitInv, MailStep, PTL DEF MailSpec

-----------------------------------------------------------------------------
(* Caches.                                                                 *)

ReaderState == [pc: {"idle", "query", "store"}, slot: Slot, data: Data, overtaken: BOOLEAN]
WriterState == [pc: {"idle", "delete", "commit"}, wrote: Data]

CacheShape ==
    /\ committed \in 2..(MaxWrites + 2) /\ finished \in 2..committed
    /\ bumps \in [Proc -> Slot] /\ cached \in [Slot -> Data]
    /\ reader \in [Reader -> ReaderState] /\ writer \in [Proc -> WriterState]
    /\ excused \subseteq Slot

\* A process has made at most one version more than there were writes, and one less while it
\* still has to delete the key of a write: there are versions enough.
VersionsSuffice ==
    \A p \in Proc :
        /\ writer[p].pc = "idle" => bumps[p] <= committed - 2
        /\ writer[p].pc = "delete" => /\ bumps[p] + 1 <= committed - 2
                                     /\ writer[p].wrote <= committed
        /\ writer[p].pc = "commit" => bumps[p] <= committed - 1

\* A read that no deletion overtook carries data as new as any finished write.
ReadsAreNew ==
    \A r \in Reader :
        reader[r].pc = "store" /\ ~reader[r].overtaken => reader[r].data >= finished

\* Nothing is stored, or about to be, under a version no process has reached.
FutureIsEmpty ==
    entry = "product_list" =>
        \A s \in Slot : (\A q \in Proc : bumps[q] < s) =>
            /\ cached[s] = NoData
            /\ \A r \in Reader : reader[r].pc # "idle" => reader[r].slot # s

\* While one process alone writes, what is read under its version is as new as its writes.
OwnReadsAreNew ==
    entry = "product_list" =>
        \A p \in Proc : bumps[p] > 0 /\ (\A q \in Proc \ {p} : bumps[q] = 0) =>
            \A r \in Reader : reader[r].pc = "store" /\ reader[r].slot = bumps[p]
                                => reader[r].data >= finished

CachesInv ==
    /\ CacheShape /\ VersionsSuffice /\ ReadsAreNew /\ FutureIsEmpty /\ OwnReadsAreNew
    /\ StaleIsExcused /\ OwnWritesAreListed

LEMMA CacheInitInv == CacheInit => CachesInv
<1> SUFFICES ASSUME CacheInit PROVE CachesInv  OBVIOUS
<1>1. 0 \in Slot /\ 0 \in Data /\ 2 \in 2..(MaxWrites + 2)  BY CacheAssumption DEF Slot, Data
<1>2. NoRead \in ReaderState /\ NoWriter \in WriterState
  BY <1>1 DEF NoRead, NoWriter, ReaderState, WriterState, NoData
<1>3. CacheShape  BY <1>1, <1>2 DEF CacheInit, CacheShape, NoData
<1>4. VersionsSuffice  BY DEF CacheInit, VersionsSuffice, NoWriter
<1>5. ReadsAreNew /\ FutureIsEmpty /\ OwnReadsAreNew
  BY DEF CacheInit, ReadsAreNew, FutureIsEmpty, OwnReadsAreNew, NoRead
<1>6. StaleIsExcused /\ OwnWritesAreListed
  BY DEF CacheInit, StaleIsExcused, OwnWritesAreListed
<1> QED  BY <1>3, <1>4, <1>5, <1>6 DEF CachesInv

-----------------------------------------------------------------------------
(***************************************************************************)
(* Requests.                                                               *)
(***************************************************************************)
\* A reader that moves on without storing anything.
LEMMA ReaderStep ==
    ASSUME CachesInv, NEW r \in Reader, NEW n \in ReaderState,
           reader' = [reader EXCEPT ![r] = n],
           UNCHANGED <<entry, committed, finished, bumps, cached, writer, excused>>,
           n.pc = "store" => n.overtaken \/ n.data >= finished,
           n.pc = "store" /\ entry = "product_list" => n.data >= finished,
           n.pc # "idle" /\ entry = "product_list" => \E q \in Proc : ~(bumps[q] < n.slot)
    PROVE  CachesInv'
<1>1. CacheShape' /\ VersionsSuffice'  BY DEF CachesInv, CacheShape, VersionsSuffice
<1>2. \A q \in Reader : reader'[q] = IF q = r THEN n ELSE reader[q]
  BY DEF CachesInv, CacheShape
<1>3. ReadsAreNew'  BY <1>2 DEF CachesInv, ReadsAreNew
<1>4. FutureIsEmpty'  BY <1>2 DEF CachesInv, FutureIsEmpty
<1>5. OwnReadsAreNew'  BY <1>2 DEF CachesInv, OwnReadsAreNew
<1>6. StaleIsExcused' /\ OwnWritesAreListed'  BY DEF CachesInv, StaleIsExcused, OwnWritesAreListed
<1> QED  BY <1>1, <1>3, <1>4, <1>5, <1>6 DEF CachesInv

LEMMA MissInv ==
    ASSUME CachesInv, NEW r \in Reader, Miss(r) PROVE CachesInv'
<1> DEFINE n == [pc |-> "query", slot |-> SlotOf(ProcOf[r]), data |-> EMPTY, overtaken |-> FALSE]
<1>1. ProcOf[r] \in Proc  BY CacheAssumption
<1>2. 0 \in Slot /\ EMPTY \in Data  BY CacheAssumption DEF Slot, Data, EMPTY
<1>3. bumps[ProcOf[r]] \in Slot  BY <1>1 DEF CachesInv, CacheShape
<1>4. SlotOf(ProcOf[r]) \in Slot  BY <1>2, <1>3 DEF SlotOf
<1>5. n \in ReaderState /\ n.pc = "query" /\ n.slot = SlotOf(ProcOf[r])
  BY <1>2, <1>4 DEF ReaderState
<1>6. entry = "product_list" => ~(bumps[ProcOf[r]] < n.slot)  BY <1>3 DEF SlotOf, Slot
<1>7. reader' = [reader EXCEPT ![r] = n]
      /\ UNCHANGED <<entry, committed, finished, bumps, cached, writer, excused>>
  BY DEF Miss
<1> HIDE DEF n
<1> QED  BY <1>1, <1>5, <1>6, <1>7, ReaderStep

\* The slot of a request that is under way is one that some process has reached.
LEMMA SlotWasReached ==
    ASSUME CachesInv, NEW r \in Reader, reader[r].pc # "idle", entry = "product_list"
    PROVE  \E q \in Proc : ~(bumps[q] < reader[r].slot)
BY DEF CachesInv, FutureIsEmpty, CacheShape, ReaderState

LEMMA QueryInv ==
    ASSUME CachesInv, NEW r \in Reader, Query(r) PROVE CachesInv'
<1> DEFINE n == [reader[r] EXCEPT !.pc = "store", !.data = committed, !.overtaken = FALSE]
<1>1. reader[r] \in ReaderState /\ reader[r].pc = "query"  BY DEF CachesInv, CacheShape, Query
<1>2. committed \in Data /\ committed >= finished
  BY CacheAssumption DEF CachesInv, CacheShape, Data
<1>3. n \in ReaderState /\ n.pc = "store" /\ n.data = committed /\ n.slot = reader[r].slot
  BY <1>1, <1>2 DEF ReaderState
<1>4. reader' = [reader EXCEPT ![r] = n]
      /\ UNCHANGED <<entry, committed, finished, bumps, cached, writer, excused>>
  BY <1>1 DEF Query, ReaderState
<1> HIDE DEF n
<1> QED  BY <1>1, <1>2, <1>3, <1>4, SlotWasReached, ReaderStep

LEMMA QueryFailsInv ==
    ASSUME CachesInv, NEW r \in Reader, QueryFails(r) PROVE CachesInv'
<1> DEFINE n == [reader[r] EXCEPT !.pc = "store", !.overtaken = TRUE]
<1>1. reader[r] \in ReaderState /\ entry = "forecast_dashboard"
  BY DEF CachesInv, CacheShape, QueryFails
<1>2. n \in ReaderState /\ n.overtaken  BY <1>1 DEF ReaderState
<1>3. reader' = [reader EXCEPT ![r] = n]
      /\ UNCHANGED <<entry, committed, finished, bumps, cached, writer, excused>>
  BY <1>1 DEF QueryFails, ReaderState
<1> HIDE DEF n
<1> QED  BY <1>1, <1>2, <1>3, ReaderStep

\* What is stored is as new as any finished write, or the slot is excused; and what is stored
\* under the version of the only writer is always that new.
LEMMA StoreInv ==
    ASSUME CachesInv, NEW r \in Reader, Store(r) PROVE CachesInv'
<1> DEFINE s == reader[r].slot
<1>1. reader[r] \in ReaderState /\ reader[r].pc = "store"  BY DEF CachesInv, CacheShape, Store
<1>2. s \in Slot /\ reader[r].data \in Data /\ NoRead \in ReaderState
  BY <1>1, CacheAssumption DEF ReaderState, NoRead, Slot, Data, NoData
<1>3. /\ cached' = [cached EXCEPT ![s] = reader[r].data]
      /\ excused' = IF reader[r].overtaken THEN excused \cup {s} ELSE excused \ {s}
      /\ reader' = [reader EXCEPT ![r] = NoRead]
      /\ UNCHANGED <<entry, committed, finished, bumps, writer>>
  BY DEF Store
<1> HIDE DEF s
<1>4. CacheShape' /\ VersionsSuffice'
  BY <1>2, <1>3 DEF CachesInv, CacheShape, VersionsSuffice
<1>5. \A q \in Reader : reader'[q] = reader[q] \/ reader'[q].pc = "idle"
  BY <1>3 DEF CachesInv, CacheShape, NoRead
<1>6. ReadsAreNew' /\ OwnReadsAreNew'
  BY <1>3, <1>5 DEF CachesInv, ReadsAreNew, OwnReadsAreNew
<1>7. \A t \in Slot : cached'[t] = IF t = s THEN reader[r].data ELSE cached[t]
  BY <1>2, <1>3 DEF CachesInv, CacheShape
<1>8. FutureIsEmpty'
  BY <1>1, <1>3, <1>5, <1>7 DEF CachesInv, FutureIsEmpty, s
<1>9. StaleIsExcused'
  BY <1>1, <1>3, <1>7 DEF CachesInv, ReadsAreNew, StaleIsExcused
<1>10. OwnWritesAreListed'
  BY <1>1, <1>3, <1>7 DEF CachesInv, OwnReadsAreNew, OwnWritesAreListed, CacheShape, s
<1> QED  BY <1>4, <1>6, <1>8, <1>9, <1>10 DEF CachesInv

LEMMA ExpireEntryInv ==
    ASSUME CachesInv, NEW s \in Slot, ExpireEntry(s) PROVE CachesInv'
<1>1. NoData \in Data  BY CacheAssumption DEF NoData, Data
<1>2. /\ cached' = [cached EXCEPT ![s] = NoData] /\ excused' = excused \ {s}
      /\ UNCHANGED <<entry, committed, finished, bumps, reader, writer>>
  BY DEF ExpireEntry
<1>3. \A t \in Slot : cached'[t] = IF t = s THEN NoData ELSE cached[t]
  BY <1>2 DEF CachesInv, CacheShape
<1>4. CacheShape' /\ VersionsSuffice' /\ ReadsAreNew' /\ OwnReadsAreNew'
  BY <1>1, <1>2 DEF CachesInv, CacheShape, VersionsSuffice, ReadsAreNew, OwnReadsAreNew
<1>5. FutureIsEmpty'  BY <1>2, <1>3 DEF CachesInv, FutureIsEmpty
<1>6. StaleIsExcused'  BY <1>2, <1>3 DEF CachesInv, StaleIsExcused
<1>7. OwnWritesAreListed'
  BY <1>2, <1>3 DEF CachesInv, CacheShape, OwnWritesAreListed
<1> QED  BY <1>4, <1>5, <1>6, <1>7 DEF CachesInv

-----------------------------------------------------------------------------
(***************************************************************************)
(* Writers.                                                                *)
(***************************************************************************)
LEMMA CommitsType ==
    ASSUME CachesInv, Commits
    PROVE  committed' \in 2..(MaxWrites + 2) /\ committed' = committed + 1 /\ committed' \in Data
BY CacheAssumption DEF CachesInv, CacheShape, Commits, Data

\* A commit that is not finished yet, or never deletes a key, changes nothing these rules see.
LEMMA WriterCommits ==
    ASSUME CachesInv, NEW p \in Proc, NEW w \in WriterState, Commits,
           writer' = [writer EXCEPT ![p] = w],
           UNCHANGED <<entry, finished, bumps, cached, reader, excused>>,
           w.pc \in {"idle", "delete"}, w.pc = "delete" => w.wrote = committed + 1,
           w.pc = "idle" => bumps[p] <= committed - 1,
           w.pc = "delete" => bumps[p] <= committed - 2
    PROVE  CachesInv'
<1>1. CacheShape'
  BY CommitsType, CacheAssumption DEF CachesInv, CacheShape
<1>2. VersionsSuffice'
  <2> SUFFICES ASSUME NEW q \in Proc
               PROVE  /\ writer'[q].pc = "idle" => bumps[q] <= committed' - 2
                      /\ writer'[q].pc = "delete"
                            => bumps[q] + 1 <= committed' - 2 /\ writer'[q].wrote <= committed'
                      /\ writer'[q].pc = "commit" => bumps[q] <= committed' - 1
    BY DEF VersionsSuffice
  <2>1. bumps[q] \in Nat /\ committed \in Nat /\ committed' = committed + 1
        /\ writer[q].wrote \in Nat
    BY CacheAssumption, CommitsType DEF CachesInv, CacheShape, Slot, WriterState, Data
  <2>2. writer'[q] = IF q = p THEN w ELSE writer[q]  BY DEF CachesInv, CacheShape
  <2>3. CASE q = p  BY <2>1, <2>2, <2>3
  <2>4. CASE q # p  BY <2>1, <2>2, <2>4 DEF CachesInv, VersionsSuffice
  <2> QED  BY <2>3, <2>4
<1>3. /\ ReadsAreNew' /\ FutureIsEmpty' /\ OwnReadsAreNew'
      /\ StaleIsExcused' /\ OwnWritesAreListed'
  BY DEF CachesInv, ReadsAreNew, FutureIsEmpty, OwnReadsAreNew, StaleIsExcused, OwnWritesAreListed
<1> QED  BY <1>1, <1>2, <1>3 DEF CachesInv

LEMMA WriteRowsInv ==
    ASSUME CachesInv, NEW p \in Proc, WriteRows(p) PROVE CachesInv'
<1> DEFINE w == [pc |-> "delete", wrote |-> committed + 1]
<1>1. Commits /\ writer[p].pc = "idle"  BY DEF WriteRows
<1>2. w \in WriterState /\ w.pc = "delete" /\ w.wrote = committed + 1
  BY <1>1, CommitsType DEF WriterState
<1>3. bumps[p] <= committed - 2  BY <1>1 DEF CachesInv, VersionsSuffice
<1>4. writer' = [writer EXCEPT ![p] = w]
      /\ UNCHANGED <<entry, finished, bumps, cached, reader, excused>>
  BY DEF WriteRows
<1> HIDE DEF w
<1> QED  BY <1>1, <1>2, <1>3, <1>4, WriterCommits

LEMMA CommitLateInv ==
    ASSUME CachesInv, NEW p \in Proc, CommitLate(p) PROVE CachesInv'
<1>1. Commits /\ writer' = [writer EXCEPT ![p] = NoWriter]
      /\ UNCHANGED <<entry, finished, bumps, cached, reader, excused>>
  BY DEF CommitLate
<1>2. NoWriter \in WriterState /\ NoWriter.pc = "idle"
  BY CacheAssumption DEF NoWriter, WriterState, Data, NoData
<1>3. bumps[p] <= committed - 1
  <2>1. bumps[p] \in Nat /\ committed \in Nat
    BY CacheAssumption DEF CachesInv, CacheShape, Slot
  <2> QED  BY <2>1 DEF CommitLate, CachesInv, VersionsSuffice
<1> QED  BY <1>1, <1>2, <1>3, WriterCommits

\* An invalidation, with whatever it lets count as finished: the process moves to a version
\* nobody has used, readers that hold data are overtaken, and what stays is excused.
LEMMA InvalidateInv ==
    ASSUME CachesInv, NEW p \in Proc, NEW w \in WriterState, Invalidate(p),
           writer' = [writer EXCEPT ![p] = w], UNCHANGED <<entry, committed>>,
           finished' \in finished..committed, bumps[p] + 1 \in Slot,
           w.pc # "delete",
           w.pc = "idle" => bumps[p] + 1 <= committed - 2,
           w.pc = "commit" => bumps[p] + 1 <= committed - 1
    PROVE  CachesInv'
<1>1. /\ committed \in Nat /\ finished \in Nat /\ \A q \in Proc : bumps[q] \in Nat
      /\ finished' \in 2..committed /\ finished' >= finished
  BY CacheAssumption DEF CachesInv, CacheShape, Slot
<1>2. \A q \in Proc : bumps'[q] = IF entry = "product_list" /\ q = p THEN bumps[p] + 1 ELSE bumps[q]
  BY DEF Invalidate, CachesInv, CacheShape
<1>3. bumps' \in [Proc -> Slot]  BY DEF Invalidate, CachesInv, CacheShape
<1>4. \A r \in Reader :
         /\ reader'[r] \in ReaderState
         /\ reader'[r].pc = reader[r].pc /\ reader'[r].slot = reader[r].slot
         /\ reader'[r].data = reader[r].data
         /\ reader[r].pc = "store" => reader'[r].overtaken
  <2> SUFFICES ASSUME NEW r \in Reader
               PROVE  /\ reader'[r] \in ReaderState
                      /\ reader'[r].pc = reader[r].pc /\ reader'[r].slot = reader[r].slot
                      /\ reader'[r].data = reader[r].data
                      /\ reader[r].pc = "store" => reader'[r].overtaken
    OBVIOUS
  <2>1. reader[r] \in ReaderState  BY DEF CachesInv, CacheShape
  <2>2. reader'[r] = [reader[r] EXCEPT !.overtaken = @ \/ reader[r].pc = "store"]
    BY DEF Invalidate
  <2> DEFINE o == reader[r].overtaken \/ reader[r].pc = "store"
  <2>3. o \in BOOLEAN  BY <2>1 DEF ReaderState
  <2>4. reader'[r] = [reader[r] EXCEPT !.overtaken = o]  BY <2>2
  <2>5. reader[r].pc = "store" => o  OBVIOUS
  <2> HIDE DEF o
  <2> QED  BY <2>1, <2>3, <2>4, <2>5 DEF ReaderState
<1>5. reader' \in [Reader -> ReaderState]
  <2>1. DOMAIN reader' = Reader /\ reader' = [r \in Reader |-> reader'[r]]  BY DEF Invalidate
  <2> QED  BY <1>4, <2>1
<1>6. /\ cached' \in [Slot -> Data] /\ excused' \subseteq Slot
      /\ \A s \in Slot : /\ cached'[s] \in {NoData, cached[s]}
                         /\ s \in excused' \/ cached'[s] = NoData
  BY CacheAssumption DEF Invalidate, CachesInv, CacheShape, Data, NoData
<1>7. CacheShape'  BY <1>1, <1>3, <1>5, <1>6 DEF CachesInv, CacheShape
<1>8. VersionsSuffice'
  <2> SUFFICES ASSUME NEW q \in Proc
               PROVE  /\ writer'[q].pc = "idle" => bumps'[q] <= committed - 2
                      /\ writer'[q].pc = "delete"
                            => bumps'[q] + 1 <= committed - 2 /\ writer'[q].wrote <= committed
                      /\ writer'[q].pc = "commit" => bumps'[q] <= committed - 1
    BY DEF VersionsSuffice
  <2>1. writer'[q] = IF q = p THEN w ELSE writer[q]  BY DEF CachesInv, CacheShape
  <2>2. CASE q = p  BY <1>1, <1>2, <2>1, <2>2
  <2>3. CASE q # p  BY <1>1, <1>2, <2>1, <2>3 DEF CachesInv, VersionsSuffice
  <2> QED  BY <2>2, <2>3
<1>9. ReadsAreNew'  BY <1>4 DEF ReadsAreNew
<1>10. FutureIsEmpty'
  <2> SUFFICES ASSUME entry = "product_list", NEW s \in Slot, \A q \in Proc : bumps'[q] < s
               PROVE  /\ cached'[s] = NoData
                      /\ \A r \in Reader : reader'[r].pc # "idle" => reader'[r].slot # s
    BY DEF FutureIsEmpty
  <2>1. s \in Nat  BY CacheAssumption DEF Slot
  <2>2. \A q \in Proc : bumps[q] < s  BY <1>1, <1>2, <2>1
  <2> QED  BY <1>4, <1>6, <2>2 DEF CachesInv, FutureIsEmpty
<1>11. StaleIsExcused'  BY <1>6 DEF StaleIsExcused
<1>12. ASSUME entry = "product_list", NEW q \in Proc, bumps'[q] > 0,
              \A u \in Proc \ {q} : bumps'[u] = 0
       PROVE  /\ cached'[bumps'[q]] = NoData
              /\ \A r \in Reader : reader'[r].pc = "store" => reader'[r].slot # bumps'[q]
  <2>1. bumps'[p] > 0  BY <1>1, <1>2, <1>12
  <2>2. q = p  BY <1>12, <2>1
  <2>3. bumps'[p] = bumps[p] + 1 /\ \A u \in Proc : bumps[u] < bumps[p] + 1
    BY <1>1, <1>2, <1>12, <2>2
  <2>4. /\ cached[bumps[p] + 1] = NoData
        /\ \A r \in Reader : reader[r].pc # "idle" => reader[r].slot # bumps[p] + 1
    BY <1>12, <2>3 DEF CachesInv, FutureIsEmpty
  <2> QED  BY <1>4, <1>6, <2>2, <2>3, <2>4
<1>13. OwnReadsAreNew' /\ OwnWritesAreListed'
  BY <1>12 DEF OwnReadsAreNew, OwnWritesAreListed
<1> QED  BY <1>7, <1>8, <1>9, <1>10, <1>11, <1>13 DEF CachesInv

LEMMA DeleteKeyInv ==
    ASSUME CachesInv, NEW p \in Proc, DeleteKey(p) PROVE CachesInv'
<1>1. /\ committed \in 2..(MaxWrites + 2) /\ finished \in 2..committed /\ bumps[p] \in Nat
      /\ MaxWrites \in Nat /\ writer[p] \in WriterState
  BY CacheAssumption DEF CachesInv, CacheShape, Slot
<1>2. bumps[p] + 1 <= committed - 2 /\ writer[p].wrote <= committed
  BY DEF DeleteKey, CachesInv, VersionsSuffice
<1>3. bumps[p] + 1 \in Slot  BY <1>1, <1>2 DEF Slot
<1>4. finished' \in finished..committed
  BY <1>1, <1>2 DEF DeleteKey, WriterState, Data
<1>5. NoWriter \in WriterState /\ NoWriter.pc = "idle"
  BY CacheAssumption DEF NoWriter, WriterState, Data, NoData
<1>6. Invalidate(p) /\ writer' = [writer EXCEPT ![p] = NoWriter] /\ UNCHANGED <<entry, committed>>
  BY DEF DeleteKey
<1> QED  BY <1>2, <1>3, <1>4, <1>5, <1>6, InvalidateInv

LEMMA DeleteKeyEarlyInv ==
    ASSUME CachesInv, NEW p \in Proc, DeleteKeyEarly(p) PROVE CachesInv'
<1> DEFINE w == [writer[p] EXCEPT !.pc = "commit"]
<1>1. /\ committed \in 2..(MaxWrites + 2) /\ finished \in 2..committed /\ bumps[p] \in Nat
      /\ MaxWrites \in Nat /\ writer[p] \in WriterState
  BY CacheAssumption DEF CachesInv, CacheShape, Slot
<1>2. bumps[p] <= committed - 2 /\ committed <= MaxWrites + 1
  BY DEF DeleteKeyEarly, CachesInv, VersionsSuffice
<1>3. bumps[p] + 1 \in Slot /\ bumps[p] + 1 <= committed - 1  BY <1>1, <1>2 DEF Slot
<1>4. w \in WriterState /\ w.pc = "commit"  BY <1>1 DEF WriterState
<1>5. writer' = [writer EXCEPT ![p] = w]  BY <1>1 DEF DeleteKeyEarly, WriterState
<1>6. Invalidate(p) /\ UNCHANGED <<entry, committed>> /\ finished' \in finished..committed
  BY <1>1 DEF DeleteKeyEarly
<1> HIDE DEF w
<1> QED  BY <1>3, <1>4, <1>5, <1>6, InvalidateInv

-----------------------------------------------------------------------------
LEMMA CacheStep == CachesInv /\ [CacheNext]_cacheVars => CachesInv'
<1> SUFFICES ASSUME CachesInv, [CacheNext]_cacheVars PROVE CachesInv'
  OBVIOUS
<1>1. ASSUME NEW r \in Reader, Miss(r) PROVE CachesInv'  BY <1>1, MissInv
<1>2. ASSUME NEW r \in Reader, Serve(r) PROVE CachesInv'  BY <1>2, QueryInv, StoreInv DEF Serve
<1>3. ASSUME NEW r \in Reader, QueryFails(r) PROVE CachesInv'  BY <1>3, QueryFailsInv
<1>4. ASSUME NEW p \in Proc, Write(p) PROVE CachesInv'
  BY <1>4, WriteRowsInv, DeleteKeyEarlyInv, CommitLateInv DEF Write
<1>5. ASSUME NEW p \in Proc, DeleteKey(p) PROVE CachesInv'  BY <1>5, DeleteKeyInv
<1>6. ASSUME NEW s \in Slot, ExpireEntry(s) PROVE CachesInv'  BY <1>6, ExpireEntryInv
<1>7. CASE UNCHANGED cacheVars
  BY <1>7 DEF cacheVars, CachesInv, CacheShape, VersionsSuffice, ReadsAreNew, FutureIsEmpty,
              OwnReadsAreNew, StaleIsExcused, OwnWritesAreListed
<1> QED  BY <1>1, <1>2, <1>3, <1>4, <1>5, <1>6, <1>7 DEF CacheNext

\* Stale data has one of its three excuses, and a process that alone writes lists its own
\* writes, however reads, writes, expiries and outages interleave.
THEOREM CachesKeepTheirPromise == CacheSpec => []CacheInv
<1>1. CachesInv => CacheInv  BY DEF CachesInv, CacheInv
<1> QED  BY <1>1, CacheInitInv, CacheStep, PTL DEF CacheSpec

-----------------------------------------------------------------------------
(* Alerts.                                                                 *)

AlertRow == [status: {"absent", "firing", "resolved"}, cooling: BOOLEAN]
EvaluatorState == [pc: {"idle", "look", "fire", "report", "resolve"}, id: 0..NumEvents, raced: BOOLEAN]

\* Events are created in the order of their ids, and a newer one cools down no earlier.
EventsInOrder ==
    \A e, f \in Event : e < f /\ event[f].status # "absent" =>
        /\ event[e].status # "absent"
        /\ event[e].cooling => event[f].cooling

\* Whoever found no event cooling and was not overlapped since still finds none.
FindsNoneCooling(v) ==
    evaluator[v].pc = "fire" /\ ~evaluator[v].raced => \A e \in Firing : ~event[e].cooling

OneCooling == \A e, f \in Firing \ overlapped : event[e].cooling /\ event[f].cooling => e = f

AlertInv ==
    /\ AlertTypeOK /\ EventsInOrder
    /\ rule = "tokens" => OneCooling /\ \A v \in Evaluator : FindsNoneCooling(v)

LEMMA AlertInvSuffices == AlertInv => OneFiringPerCooldown
<1> SUFFICES ASSUME AlertInv, rule = "tokens"
             PROVE  Cardinality({e \in Firing \ overlapped : event[e].cooling}) <= 1
  BY DEF OneFiringPerCooldown
<1> DEFINE S == {e \in Firing \ overlapped : event[e].cooling}
<1>1. \A e, f \in S : e = f  BY DEF AlertInv, OneCooling
<1>2. Cardinality(S) <= 1
  <2> HIDE DEF S
  <2>1. CASE S = {}
    <3>1. Cardinality(S) = 0  BY <2>1, FS_EmptySet
    <3> QED  BY <3>1
  <2>2. CASE \E e : e \in S
    <3>1. PICK e : e \in S  BY <2>2
    <3>2. S = {e}  BY <1>1, <3>1
    <3>3. Cardinality(S) = 1  BY <3>2, FS_Singleton
    <3> QED  BY <3>3
  <2> QED  BY <2>1, <2>2
<1> QED  BY <1>2

LEMMA AlertInitInv == AlertInit => AlertInv
<1> SUFFICES ASSUME AlertInit PROVE AlertInv  OBVIOUS
<1>1. AlertTypeOK  BY AlertAssumption DEF AlertInit, AlertTypeOK, Waiting
<1>2. \A e \in Event : event[e].status = "absent"  BY DEF AlertInit
<1>3. \A v \in Evaluator : evaluator[v].pc = "idle"  BY DEF AlertInit, Waiting
<1> QED  BY <1>1, <1>2, <1>3 DEF AlertInv, EventsInOrder, OneCooling, FindsNoneCooling, Firing

\* Of the events that fire one is the newest.
LEMMA NewestExists ==
    ASSUME AlertTypeOK, Firing # {} PROVE \E e \in Firing : e \in Newest(Firing)
<1> NumEvents \in Nat /\ Firing \subseteq Event  BY AlertAssumption DEF Firing
<1> DEFINE S == {NumEvents - e : e \in Firing}
<1>1. S \in SUBSET Nat /\ S # {}
  <2>1. \A e \in Firing : NumEvents - e \in Nat  BY DEF Event
  <2> QED  BY <2>1
<1>2. PICK m \in S : \A x \in S : m <= x  BY <1>1, LeastExists
<1>3. PICK e \in Firing : m = NumEvents - e  OBVIOUS
<1>4. ASSUME NEW f \in Firing PROVE f <= e
  <2>1. m <= NumEvents - f  BY <1>2
  <2> QED  BY <1>3, <2>1 DEF Event
<1> QED  BY <1>3, <1>4 DEF Newest

\* If the newest event that fires has cooled down, all that fire have.
LEMMA NewestDecides ==
    ASSUME AlertInv, \A e \in Newest(Firing) : ~event[e].cooling
    PROVE  \A e \in Firing : ~event[e].cooling
<1> SUFFICES ASSUME NEW e \in Firing, event[e].cooling PROVE FALSE  OBVIOUS
<1>1. PICK f \in Firing : f \in Newest(Firing)  BY NewestExists DEF AlertInv
<1>2. e \in Event /\ f \in Event /\ event[f].status # "absent"  BY DEF Firing
<1>3. e = f \/ e < f  BY <1>1, <1>2 DEF Newest, Event
<1>4. ~event[f].cooling  BY <1>1
<1> QED  BY <1>2, <1>3, <1>4 DEF AlertInv, EventsInOrder

\* A step that leaves the events alone and lets at most one evaluation get to fire.
LEMMA EvaluatorMoves ==
    ASSUME AlertInv, NEW v \in Evaluator, UNCHANGED <<rule, event, overlapped>>,
           enabled' \in BOOLEAN, value' \in {"bad", "good", "none"},
           NEW next \in EvaluatorState, evaluator' = [evaluator EXCEPT ![v] = next],
           rule = "tokens" /\ next.pc = "fire" => \A e \in Firing : ~event[e].cooling
    PROVE  AlertInv'
<1>1. evaluator \in [Evaluator -> EvaluatorState]  BY DEF AlertInv, AlertTypeOK, EvaluatorState
<1>2. evaluator' \in [Evaluator -> EvaluatorState]  BY <1>1
<1>3. AlertTypeOK'  BY <1>2 DEF AlertInv, AlertTypeOK, EvaluatorState
<1>4. \A u \in Evaluator : evaluator'[u] = IF u = v THEN next ELSE evaluator[u]  BY <1>1
<1>5. Firing' = Firing  BY DEF Firing
<1> QED  BY <1>3, <1>4, <1>5 DEF AlertInv, EventsInOrder, OneCooling, FindsNoneCooling

\* A step that creates no event and only lets them cool down or resolves them.
LEMMA EventsFade ==
    ASSUME AlertInv, UNCHANGED <<rule, enabled, value, overlapped>>,
           evaluator' \in [Evaluator -> EvaluatorState], event' \in [Event -> AlertRow],
           \A u \in Evaluator : evaluator'[u].pc = "fire" => evaluator'[u] = evaluator[u],
           \A e \in Event :
               /\ event'[e].status = "absent" <=> event[e].status = "absent"
               /\ event'[e].status = "firing" => event[e].status = "firing"
               /\ event'[e].cooling => event[e].cooling,
           \A e, f \in Event : e < f /\ event'[e].cooling /\ event[f].cooling => event'[f].cooling
    PROVE  AlertInv'
<1>1. AlertTypeOK'  BY DEF AlertInv, AlertTypeOK, EvaluatorState, AlertRow
<1>2. Firing' \subseteq Firing  BY DEF Firing
<1>3. EventsInOrder'  BY DEF AlertInv, EventsInOrder
<1>4. ASSUME rule' = "tokens" PROVE OneCooling' /\ \A v \in Evaluator : FindsNoneCooling(v)'
  <2>1. rule = "tokens"  BY <1>4
  <2>2. \A e \in Firing' : e \in Firing /\ (event'[e].cooling => event[e].cooling)
    BY <1>2 DEF Firing
  <2>3. OneCooling'  BY <2>1, <2>2 DEF AlertInv, OneCooling
  <2>4. ASSUME NEW v \in Evaluator PROVE FindsNoneCooling(v)'
    <3>1. FindsNoneCooling(v)  BY <2>1 DEF AlertInv
    <3> QED  BY <2>2, <3>1 DEF FindsNoneCooling
  <2> QED  BY <2>3, <2>4
<1> QED  BY <1>1, <1>3, <1>4 DEF AlertInv

LEMMA EvaluateInv ==
    ASSUME AlertInv, NEW v \in Evaluator, Evaluate(v) PROVE AlertInv'
<1> DEFINE step == IF value = "good" THEN "resolve" ELSE IF rule = "tokens" THEN "look" ELSE "fire"
           next == [evaluator[v] EXCEPT !.pc = step]
<1>1. evaluator[v] \in EvaluatorState  BY DEF AlertInv, AlertTypeOK, EvaluatorState
<1>2. next \in EvaluatorState /\ next.pc = step  BY <1>1 DEF EvaluatorState
<1>3. evaluator' = [evaluator EXCEPT ![v] = next]  BY DEF Evaluate
<1>4. rule = "tokens" => step # "fire"  OBVIOUS
<1>5. /\ UNCHANGED <<rule, event, overlapped>> /\ enabled' \in BOOLEAN
      /\ value' \in {"bad", "good", "none"}
  BY DEF Evaluate, AlertInv, AlertTypeOK
<1> HIDE DEF next, step
<1> QED  BY <1>2, <1>3, <1>4, <1>5, EvaluatorMoves

LEMMA CheckCooldownInv ==
    ASSUME AlertInv, NEW v \in Evaluator, CheckCooldown(v) PROVE AlertInv'
<1> DEFINE cools == \E e \in Newest(Firing) : event[e].cooling
           others == \E u \in Evaluator \ {v} : evaluator[u].pc = "fire"
           next == IF cools THEN Waiting ELSE [pc |-> "fire", id |-> 0, raced |-> others]
<1>1. evaluator' = [evaluator EXCEPT ![v] = next]  BY DEF CheckCooldown
<1>2. others \in BOOLEAN  OBVIOUS
<1> HIDE DEF others
<1>3. next \in EvaluatorState
  BY <1>2, AlertAssumption DEF Waiting, EvaluatorState
<1>4. next.pc = "fire" => \A e \in Firing : ~event[e].cooling
  BY NewestDecides DEF Waiting
<1>5. /\ UNCHANGED <<rule, event, overlapped>> /\ enabled' \in BOOLEAN
      /\ value' \in {"bad", "good", "none"}
  BY DEF CheckCooldown, AlertInv, AlertTypeOK
<1> HIDE DEF next
<1> QED  BY <1>1, <1>3, <1>4, <1>5, EvaluatorMoves

LEMMA ReportInv ==
    ASSUME AlertInv, NEW v \in Evaluator, Report(v) PROVE AlertInv'
<1>1. Waiting \in EvaluatorState /\ Waiting.pc = "idle"
  BY AlertAssumption DEF Waiting, EvaluatorState
<1>2. /\ UNCHANGED <<rule, event, overlapped>> /\ enabled' \in BOOLEAN
      /\ value' \in {"bad", "good", "none"} /\ evaluator' = [evaluator EXCEPT ![v] = Waiting]
  BY DEF Report, AlertInv, AlertTypeOK
<1> QED  BY <1>1, <1>2, EvaluatorMoves

LEMMA FireInv ==
    ASSUME AlertInv, NEW v \in Evaluator, Fire(v) PROVE AlertInv'
<1> DEFINE racing(u) == evaluator[u].pc = "fire"
<1>1. PICK e \in Event :
        /\ NextEvent(e)
        /\ event' = [event EXCEPT ![e] = [status |-> "firing", cooling |-> TRUE]]
        /\ evaluator' = [u \in Evaluator |->
             IF u = v THEN [pc |-> "report", id |-> e, raced |-> FALSE]
             ELSE [evaluator[u] EXCEPT !.raced = @ \/ racing(u)]]
        /\ overlapped' = IF evaluator[v].raced THEN overlapped \cup {e} ELSE overlapped
  BY DEF Fire
<1>2. UNCHANGED <<rule, enabled, value>> /\ evaluator[v].pc = "fire"  BY DEF Fire
<1>3. /\ event \in [Event -> AlertRow] /\ evaluator \in [Evaluator -> EvaluatorState]
      /\ overlapped \subseteq Event
  BY DEF AlertInv, AlertTypeOK, AlertRow, EvaluatorState
<1>4. event' \in [Event -> AlertRow]  BY <1>1, <1>3 DEF AlertRow
<1>5. \A u \in Evaluator : racing(u) \in BOOLEAN  OBVIOUS
<1>6. evaluator' \in [Evaluator -> EvaluatorState]
  <2>1. [pc |-> "report", id |-> e, raced |-> FALSE] \in EvaluatorState
    BY AlertAssumption DEF EvaluatorState, Event
  <2>2. ASSUME NEW u \in Evaluator PROVE [evaluator[u] EXCEPT !.raced = @ \/ racing(u)] \in EvaluatorState
    <3> HIDE DEF racing
    <3> QED  BY <1>3, <1>5 DEF EvaluatorState
  <2> HIDE DEF racing
  <2> QED  BY <1>1, <2>1, <2>2
<1>7. overlapped' \subseteq Event  BY <1>1, <1>3
<1>8. AlertTypeOK'
  BY <1>2, <1>4, <1>6, <1>7 DEF AlertInv, AlertTypeOK, AlertRow, EvaluatorState
<1>9. \A f \in Event : event'[f] = IF f = e THEN [status |-> "firing", cooling |-> TRUE]
                                            ELSE event[f]
  BY <1>1, <1>3
<1>10. EventsInOrder'
  <2>1. event[e].status = "absent" /\ \A f \in Event : f < e => event[f].status # "absent"
    BY <1>1 DEF NextEvent, Event
  <2> QED  BY <1>9, <2>1 DEF AlertInv, EventsInOrder, Event
<1>11. Firing' = Firing \cup {e}  BY <1>9 DEF Firing
<1>12. ASSUME rule' = "tokens" PROVE OneCooling' /\ \A u \in Evaluator : FindsNoneCooling(u)'
  <2>1. OneCooling /\ FindsNoneCooling(v)  BY <1>2, <1>12 DEF AlertInv
  <2>2. ASSUME NEW u \in Evaluator PROVE FindsNoneCooling(u)'
    <3>1. CASE u = v  BY <1>1, <3>1 DEF FindsNoneCooling
    <3>2. CASE u # v
      <4>1. evaluator'[u].pc = evaluator[u].pc /\ (evaluator[u].pc = "fire" => evaluator'[u].raced)
        BY <1>1, <1>3, <3>2 DEF EvaluatorState
      <4> QED  BY <4>1 DEF FindsNoneCooling
    <3> QED  BY <3>1, <3>2
  <2>3. OneCooling'
    <3>1. CASE evaluator[v].raced
      <4>1. Firing' \ overlapped' \subseteq (Firing \ overlapped) \ {e}  BY <1>1, <1>11, <3>1
      <4> QED  BY <1>9, <2>1, <4>1 DEF OneCooling, Firing
    <3>2. CASE ~evaluator[v].raced
      <4>1. \A f \in Firing : ~event[f].cooling  BY <1>2, <2>1, <3>2 DEF FindsNoneCooling
      <4>2. \A f \in Firing' : event'[f].cooling => f = e  BY <1>9, <1>11, <4>1 DEF Firing
      <4> QED  BY <4>2 DEF OneCooling
    <3> QED  BY <3>1, <3>2
  <2> QED  BY <2>2, <2>3
<1> QED  BY <1>8, <1>10, <1>12 DEF AlertInv

LEMMA ResolveInv ==
    ASSUME AlertInv, NEW v \in Evaluator, Resolve(v) PROVE AlertInv'
<1>1. event \in [Event -> AlertRow] /\ evaluator \in [Evaluator -> EvaluatorState]
  BY DEF AlertInv, AlertTypeOK, AlertRow, EvaluatorState
<1>2. Waiting \in EvaluatorState /\ Waiting.pc = "idle"
  BY AlertAssumption DEF Waiting, EvaluatorState
<1>3. /\ evaluator' \in [Evaluator -> EvaluatorState]
      /\ \A u \in Evaluator : evaluator'[u].pc = "fire" => evaluator'[u] = evaluator[u]
  BY <1>1, <1>2 DEF Resolve
<1>4. \A e \in Event : /\ event'[e] \in AlertRow /\ event'[e].cooling = event[e].cooling
                       /\ event'[e].status = IF e \in Newest(Firing) THEN "resolved" ELSE event[e].status
  BY <1>1 DEF Resolve, AlertRow
<1>5. \A e \in Newest(Firing) : event[e].status = "firing"  BY DEF Newest, Firing
<1>6. event' \in [Event -> AlertRow]  BY <1>4 DEF Resolve
<1>7. UNCHANGED <<rule, enabled, value, overlapped>>  BY DEF Resolve
<1> QED  BY <1>3, <1>4, <1>5, <1>6, <1>7, EventsFade

LEMMA CoolDownInv ==
    ASSUME AlertInv, NEW e \in Event, CoolDown(e) PROVE AlertInv'
<1>1. event \in [Event -> AlertRow] /\ evaluator \in [Evaluator -> EvaluatorState]
  BY DEF AlertInv, AlertTypeOK, AlertRow, EvaluatorState
<1>2. event' \in [Event -> AlertRow]  BY <1>1 DEF CoolDown, AlertRow
<1>3. \A f \in Event : /\ event'[f].status = event[f].status
                       /\ event'[f].cooling = IF f = e THEN FALSE ELSE event[f].cooling
  BY <1>1 DEF CoolDown, AlertRow
<1>4. \A d, f \in Event : d < f /\ event'[d].cooling /\ event[f].cooling => event'[f].cooling
  BY <1>3 DEF CoolDown, Event
<1>5. UNCHANGED <<rule, enabled, value, overlapped, evaluator>>  BY DEF CoolDown
<1> QED  BY <1>1, <1>2, <1>3, <1>4, <1>5, EventsFade

LEMMA AlertStep == AlertInv /\ [AlertNext]_alertVars => AlertInv'
<1> SUFFICES ASSUME AlertInv, [AlertNext]_alertVars PROVE AlertInv'  OBVIOUS
<1>1. ASSUME NEW v \in Evaluator, EvaluatorStep(v) PROVE AlertInv'
  BY <1>1, EvaluateInv, CheckCooldownInv, FireInv, ReportInv, ResolveInv DEF EvaluatorStep
<1>2. ASSUME NEW e \in Event, CoolDown(e) PROVE AlertInv'  BY <1>2, CoolDownInv
<1>3. ASSUME UNCHANGED <<rule, event, evaluator, overlapped>>, enabled' \in BOOLEAN,
             value' \in {"bad", "good", "none"}
      PROVE  AlertInv'
  BY <1>3 DEF AlertInv, AlertTypeOK, EventsInOrder, OneCooling, FindsNoneCooling, Firing
<1>4. ASSUME NEW x \in {"bad", "good", "none"}, Measure(x) PROVE AlertInv'
  BY <1>3, <1>4 DEF Measure, AlertInv, AlertTypeOK
<1>5. CASE Toggle  BY <1>3, <1>5 DEF Toggle, AlertInv, AlertTypeOK
<1>6. CASE UNCHANGED alertVars  BY <1>3, <1>6 DEF alertVars, AlertInv, AlertTypeOK
<1> QED  BY <1>1, <1>2, <1>4, <1>5, <1>6 DEF AlertNext

\* One event of the token rule fires per cooldown, for any number of evaluations and events,
\* although the check and the creation are two steps, unless evaluations overlapped.
THEOREM OneEventPerCooldown == AlertSpec => []OneFiringPerCooldown
BY AlertInvSuffices, AlertInitInv, AlertStep, PTL DEF AlertSpec

-----------------------------------------------------------------------------
(* Forecasts.                                                              *)

ForecasterState == [pc: {"idle", "predict", "check", "write"}, batch: 0..NumForecasts,
                    left: SUBSET Date, agent: BOOLEAN]

AtWork(f) == forecaster[f].pc \in {"check", "write"}

\* Only forecasts that were begun are complete.
WholeWereBegun == \A b \in whole : b <= batches

\* Whoever writes is at a forecast that was begun, and the dates that are not left to it show
\* that forecast or a newer one.
WritesTheRest(f) ==
    AtWork(f) =>
        /\ forecaster[f].batch \in 1..batches
        /\ forecaster[f].batch \notin overlapping =>
              \A d \in span[forecaster[f].batch] \ forecaster[f].left :
                  rowOf[d] >= forecaster[f].batch

\* A forecast that is still written when a newer one begins overlaps it.
OlderOverlap(f) ==
    AtWork(f) => \A b \in Batch : forecaster[f].batch < b /\ b <= batches =>
                     {forecaster[f].batch, b} \subseteq overlapping

ForecastInv ==
    /\ ForecastTypeOK /\ WholeWereBegun /\ NewestForecastStands
    /\ \A f \in Forecaster : WritesTheRest(f) /\ OlderOverlap(f)

LEMMA ForecastInitInv == ForecastInit => ForecastInv
<1> SUFFICES ASSUME ForecastInit PROVE ForecastInv  OBVIOUS
<1>1. Free \in ForecasterState /\ Free.pc = "idle"
  BY ForecastAssumption DEF Free, ForecasterState
<1>2. ForecastTypeOK
  <2>1. today \in Day /\ lastSale \in 0..today /\ batches \in 0..NumForecasts
        /\ forecastFaults \in 0..MaxForecastFaults
    BY ForecastAssumption DEF ForecastInit, Day
  <2>2. rowOf \in [Date -> 0..NumForecasts] /\ span \in [Batch -> SUBSET Date]
    BY ForecastAssumption DEF ForecastInit
  <2>3. forecaster \in [Forecaster -> ForecasterState]  BY <1>1 DEF ForecastInit
  <2> QED  BY <2>1, <2>2, <2>3 DEF ForecastInit, ForecastTypeOK, ForecasterState
<1>3. \A f \in Forecaster : ~AtWork(f)  BY <1>1 DEF ForecastInit, AtWork
<1>4. WholeWereBegun /\ NewestForecastStands
  BY DEF ForecastInit, WholeWereBegun, NewestForecastStands
<1> QED  BY <1>2, <1>3, <1>4 DEF ForecastInv, WritesTheRest, OlderOverlap

\* Steps that leave the rows and the forecasts alone and set nobody to work but at a forecast
\* that is at work already, from its start or from where it was.
LEMMA ForecasterMoves ==
    ASSUME ForecastInv, UNCHANGED <<today, lastSale, enough, rowOf, batches, span, whole, overlapping>>,
           forecastFaults' \in 0..MaxForecastFaults,
           NEW f \in Forecaster, NEW new \in ForecasterState,
           forecaster' = [forecaster EXCEPT ![f] = new],
           new.pc \in {"check", "write"} =>
               \E g \in Forecaster :
                   /\ AtWork(g) /\ new.batch = forecaster[g].batch
                   /\ new.left = forecaster[g].left \/ span[new.batch] \subseteq new.left
    PROVE  ForecastInv'
<1>1. forecaster \in [Forecaster -> ForecasterState]
  BY DEF ForecastInv, ForecastTypeOK, ForecasterState
<1>2. forecaster' \in [Forecaster -> ForecasterState]  BY <1>1
<1>3. ForecastTypeOK'  BY <1>2 DEF ForecastInv, ForecastTypeOK, ForecasterState
<1>4. \A g \in Forecaster : forecaster'[g] = IF g = f THEN new ELSE forecaster[g]  BY <1>1
<1>5. ASSUME NEW g \in Forecaster, g # f PROVE WritesTheRest(g)' /\ OlderOverlap(g)'
  BY <1>4, <1>5 DEF ForecastInv, WritesTheRest, OlderOverlap, AtWork
<1>6. WritesTheRest(f)' /\ OlderOverlap(f)'
  <2> SUFFICES ASSUME AtWork(f)' PROVE WritesTheRest(f)' /\ OlderOverlap(f)'
    BY DEF WritesTheRest, OlderOverlap
  <2>1. forecaster'[f] = new /\ new.pc \in {"check", "write"}  BY <1>4 DEF AtWork
  <2>2. PICK g \in Forecaster :
           /\ AtWork(g) /\ new.batch = forecaster[g].batch
           /\ new.left = forecaster[g].left \/ span[new.batch] \subseteq new.left
    BY <2>1
  <2>3. WritesTheRest(g) /\ OlderOverlap(g)  BY DEF ForecastInv
  <2>4. OlderOverlap(f)'  BY <2>1, <2>2, <2>3 DEF OlderOverlap
  <2>5. WritesTheRest(f)'  BY <2>1, <2>2, <2>3 DEF WritesTheRest
  <2> QED  BY <2>4, <2>5
<1> QED  BY <1>3, <1>5, <1>6 DEF ForecastInv, WholeWereBegun, NewestForecastStands

LEMMA FreeType == Free \in ForecasterState /\ Free.pc = "idle"
BY ForecastAssumption DEF Free, ForecasterState

LEMMA TakeUpInv ==
    ASSUME ForecastInv, NEW f \in Forecaster, TakeUp(f) \/ AgentTakesUp(f) PROVE ForecastInv'
<1> DEFINE plain == [Free EXCEPT !.pc = "predict"]
           agents == [Free EXCEPT !.pc = "predict", !.agent = TRUE]
<1>1. plain \in ForecasterState /\ plain.pc = "predict"
  BY FreeType DEF ForecasterState
<1>2. agents \in ForecasterState /\ agents.pc = "predict"
  BY FreeType DEF ForecasterState
<1>3. /\ UNCHANGED <<today, lastSale, enough, rowOf, batches, span, whole, overlapping>>
      /\ forecastFaults' \in 0..MaxForecastFaults
  BY DEF TakeUp, AgentTakesUp, ForecastInv, ForecastTypeOK
<1>4. \/ forecaster' = [forecaster EXCEPT ![f] = plain]
      \/ forecaster' = [forecaster EXCEPT ![f] = agents]
  BY DEF TakeUp, AgentTakesUp
<1> HIDE DEF plain, agents
<1> QED  BY <1>1, <1>2, <1>3, <1>4, ForecasterMoves

LEMMA CheckTodayInv ==
    ASSUME ForecastInv, NEW f \in Forecaster, CheckToday(f) PROVE ForecastInv'
<1> DEFINE new == IF has_todays_forecast THEN Free ELSE [forecaster[f] EXCEPT !.pc = "write"]
<1>1. forecaster[f] \in ForecasterState  BY DEF ForecastInv, ForecastTypeOK, ForecasterState
<1>2. new \in ForecasterState  BY <1>1, FreeType DEF ForecasterState
<1>3. new.pc \in {"check", "write"} => new.batch = forecaster[f].batch /\ new.left = forecaster[f].left
  BY <1>1, FreeType DEF ForecasterState
<1>4. AtWork(f)  BY DEF CheckToday, AtWork
<1>5. /\ UNCHANGED <<today, lastSale, enough, rowOf, batches, span, whole, overlapping>>
      /\ forecastFaults' \in 0..MaxForecastFaults
      /\ forecaster' = [forecaster EXCEPT ![f] = new]
  BY DEF CheckToday, ForecastInv, ForecastTypeOK
<1> HIDE DEF new
<1> QED  BY <1>2, <1>3, <1>4, <1>5, ForecasterMoves

LEMMA StopHalfwayInv ==
    ASSUME ForecastInv, NEW f \in Forecaster, StopHalfway(f) PROVE ForecastInv'
<1>1. forecastFaults' \in 0..MaxForecastFaults
  BY ForecastAssumption DEF StopHalfway, ForecastFault, ForecastInv, ForecastTypeOK
<1>2. /\ UNCHANGED <<today, lastSale, enough, rowOf, batches, span, whole, overlapping>>
      /\ forecaster' = [forecaster EXCEPT ![f] = Free]
  BY DEF StopHalfway
<1> QED  BY <1>1, <1>2, FreeType, ForecasterMoves

LEMMA CallWriteToolAgainInv ==
    ASSUME ForecastInv, NEW f \in Forecaster, NEW g \in Forecaster, CallWriteToolAgain(f, g)
    PROVE  ForecastInv'
<1> DEFINE b == forecaster[f].batch
           new == [forecaster[f] EXCEPT !.pc = "check", !.left = span[b]]
<1>1. forecaster[f] \in ForecasterState  BY DEF ForecastInv, ForecastTypeOK, ForecasterState
<1>2. AtWork(f)  BY DEF CallWriteToolAgain, AtWork
<1>3. b \in 1..batches  BY <1>2 DEF ForecastInv, WritesTheRest
<1>4. span[b] \subseteq Date
  BY <1>3, ForecastAssumption DEF ForecastInv, ForecastTypeOK, Batch
<1>5. forecastFaults' \in 0..MaxForecastFaults
  BY ForecastAssumption DEF CallWriteToolAgain, ForecastFault, ForecastInv, ForecastTypeOK
<1>6. /\ UNCHANGED <<today, lastSale, enough, rowOf, batches, span, whole, overlapping>>
      /\ forecaster' = [forecaster EXCEPT ![g] = new]
  BY DEF CallWriteToolAgain
<1>7. new \in ForecasterState /\ new.batch = b /\ new.left = span[b]
  BY <1>1, <1>4 DEF ForecasterState
<1> HIDE DEF new
<1> QED  BY <1>2, <1>5, <1>6, <1>7, ForecasterMoves

LEMMA WriteDateInv ==
    ASSUME ForecastInv, NEW f \in Forecaster, WriteDate(f) PROVE ForecastInv'
<1> DEFINE b == forecaster[f].batch
           rest == forecaster[f].left
<1>1. /\ forecaster \in [Forecaster -> ForecasterState] /\ rowOf \in [Date -> 0..NumForecasts]
      /\ batches \in 0..NumForecasts /\ whole \subseteq Batch
  BY DEF ForecastInv, ForecastTypeOK, ForecasterState
<1>2. AtWork(f) /\ forecaster[f].pc = "write" /\ WritesTheRest(f) /\ OlderOverlap(f)
  BY DEF WriteDate, AtWork, ForecastInv
<1>3. b \in 1..batches  BY <1>2 DEF WritesTheRest
<1>4. b \in Batch /\ b \in 0..NumForecasts  BY <1>1, <1>3, ForecastAssumption DEF Batch
<1>5. \A c \in Batch : span[c] \subseteq Date  BY DEF ForecastInv, ForecastTypeOK
<1>6. PICK at \in rest : rowOf' = [rowOf EXCEPT ![at] = b] /\ Pass(f, at)  BY DEF WriteDate
<1>7. at \in Date  BY <1>1, <1>6 DEF ForecasterState
<1>8. UNCHANGED <<today, lastSale, enough, batches, span, overlapping, forecastFaults>>
  BY DEF WriteDate
<1>9. rowOf' \in [Date -> 0..NumForecasts] /\ \A d \in Date : rowOf'[d] = IF d = at THEN b ELSE rowOf[d]
  BY <1>1, <1>4, <1>6, <1>7
<1>10. \/ /\ rest # {at} /\ whole' = whole
          /\ forecaster' = [forecaster EXCEPT ![f].left = rest \ {at}]
       \/ /\ rest = {at} /\ whole' = whole \cup {b}
          /\ forecaster' = [forecaster EXCEPT ![f] = Free]
  BY <1>6 DEF Pass
<1> HIDE DEF b, rest
\* What is newer than the row that is written overlaps the forecast that writes it.
<1>11. ASSUME NEW c \in Batch, c <= batches, c \notin overlapping, NEW d \in Date, rowOf[d] >= c
       PROVE  rowOf'[d] >= c
  <2>1. CASE d # at  BY <1>9, <1>11, <2>1
  <2>2. CASE d = at
    <3>1. ~(b < c)  BY <1>2, <1>11 DEF OlderOverlap, b
    <3> QED  BY <1>4, <1>9, <2>2, <3>1 DEF Batch
  <2> QED  BY <2>1, <2>2
<1>12. whole' \subseteq Batch /\ \A c \in whole' : c <= batches
  BY <1>1, <1>3, <1>4, <1>10 DEF ForecastInv, WholeWereBegun
<1>13. /\ forecaster' \in [Forecaster -> ForecasterState]
       /\ \A g \in Forecaster \ {f} : forecaster'[g] = forecaster[g]
       /\ forecaster'[f].pc = "idle" \/ /\ forecaster'[f].batch = b
                                        /\ forecaster'[f].left = rest \ {at}
  <2>1. CASE rest # {at}
    <3>1. rest \ {at} \subseteq Date  BY <1>1 DEF ForecasterState, rest
    <3> QED  BY <1>1, <1>10, <2>1, <3>1 DEF ForecasterState, b
  <2>2. CASE rest = {at}  BY <1>1, <1>10, <2>2, FreeType
  <2> QED  BY <2>1, <2>2
<1>14. ForecastTypeOK'
  BY <1>8, <1>9, <1>12, <1>13 DEF ForecastInv, ForecastTypeOK, ForecasterState
<1>15. ASSUME NEW d \in span[b], b \notin overlapping, d = at \/ d \notin rest
       PROVE  rowOf'[d] >= b
  <2>1. d \in Date  BY <1>4, <1>5
  <2>2. CASE d = at  BY <1>4, <1>9, <2>1, <2>2, ForecastAssumption
  <2>3. CASE d # at
    <3>1. rowOf[d] >= b  BY <1>2, <1>15, <2>3 DEF WritesTheRest, b, rest
    <3> QED  BY <1>9, <2>1, <2>3, <3>1
  <2> QED  BY <2>2, <2>3
<1>16. ASSUME NEW g \in Forecaster PROVE WritesTheRest(g)' /\ OlderOverlap(g)'
  <2>1. CASE g = f
    <3> SUFFICES ASSUME AtWork(f)' PROVE WritesTheRest(f)' /\ OlderOverlap(f)'
      BY <2>1 DEF WritesTheRest, OlderOverlap
    <3>1. forecaster'[f].batch = b /\ forecaster'[f].left = rest \ {at}  BY <1>13 DEF AtWork
    <3>2. OlderOverlap(f)'  BY <1>2, <1>8, <3>1 DEF OlderOverlap, b
    <3>3. WritesTheRest(f)'  BY <1>3, <1>8, <1>15, <3>1 DEF WritesTheRest
    <3> QED  BY <3>2, <3>3
  <2>2. CASE g # f
    <3> SUFFICES ASSUME AtWork(g)' PROVE WritesTheRest(g)' /\ OlderOverlap(g)'
      BY DEF WritesTheRest, OlderOverlap
    <3>1. forecaster'[g] = forecaster[g] /\ AtWork(g)  BY <1>13, <2>2 DEF AtWork
    <3>2. WritesTheRest(g) /\ OlderOverlap(g)  BY DEF ForecastInv
    <3>3. OlderOverlap(g)'  BY <1>8, <3>1, <3>2 DEF OlderOverlap
    <3>4. forecaster[g].batch \in Batch /\ forecaster[g].batch <= batches
      BY <1>1, <3>1, <3>2, ForecastAssumption DEF WritesTheRest, Batch
    <3>5. WritesTheRest(g)'
      BY <1>5, <1>8, <1>11, <3>1, <3>2, <3>4 DEF WritesTheRest
    <3> QED  BY <3>3, <3>5
  <2> QED  BY <2>1, <2>2
<1>17. NewestForecastStands'
  <2> SUFFICES ASSUME NEW c \in whole' \ overlapping', NEW d \in span'[c]
               PROVE  rowOf'[d] >= c
    BY DEF NewestForecastStands
  <2>1. c \in Batch /\ c <= batches /\ c \notin overlapping /\ d \in span[c] /\ d \in Date
    BY <1>5, <1>8, <1>12
  <2>2. CASE c \in whole
    <3>1. rowOf[d] >= c  BY <2>1, <2>2 DEF ForecastInv, NewestForecastStands
    <3> QED  BY <1>11, <2>1, <3>1
  <2>3. CASE c \notin whole
    <3>1. c = b /\ rest = {at}  BY <1>10, <2>3
    <3> QED  BY <1>15, <2>1, <3>1
  <2> QED  BY <2>2, <2>3
<1>18. WholeWereBegun'  BY <1>8, <1>12 DEF WholeWereBegun
<1> QED  BY <1>14, <1>16, <1>17, <1>18 DEF ForecastInv

\* A forecast is begun: its window lies within the dates, and whoever writes meanwhile
\* overlaps it.
LEMMA WindowsAreDates ==
    ASSUME ForecastInv, NEW agent, NEW days \in Windows(agent) PROVE days \subseteq Date
<1>1. today \in 1..LastDay /\ lastSale \in 0..today  BY DEF ForecastInv, ForecastTypeOK, Day
<1>2. (lastSale + 1)..(lastSale + Horizon) \subseteq Date  BY <1>1, ForecastAssumption DEF Date
<1> QED  BY <1>2 DEF Windows

LEMMA PredictInv ==
    ASSUME ForecastInv, NEW f \in Forecaster, Predict(f) PROVE ForecastInv'
<1> DEFINE writing == {g \in Forecaster : forecaster[g].pc \in {"check", "write"}}
           b == batches + 1
           new(days) == [pc |-> IF forecaster[f].agent THEN "check" ELSE "write", batch |-> b,
                         left |-> days, agent |-> forecaster[f].agent]
           Begin(days) ==
               /\ batches' = b /\ span' = [span EXCEPT ![b] = days]
               /\ overlapping' = IF writing = {} THEN overlapping
                                 ELSE overlapping \cup {b} \cup {forecaster[g].batch : g \in writing}
               /\ forecaster' = [forecaster EXCEPT ![f] = new(days)]
<1>0. PICK days \in Windows(forecaster[f].agent) :
         IF days = {} \/ batches = NumForecasts
         THEN forecaster' = [forecaster EXCEPT ![f] = Free] /\ UNCHANGED <<batches, span, overlapping>>
         ELSE Begin(days)
  BY DEF Predict
<1> HIDE DEF Begin
<1>1. CASE days = {} \/ batches = NumForecasts
  <2>1. /\ UNCHANGED <<today, lastSale, enough, rowOf, batches, span, whole, overlapping>>
        /\ forecaster' = [forecaster EXCEPT ![f] = Free]
        /\ forecastFaults' \in 0..MaxForecastFaults
    BY <1>0, <1>1 DEF Predict, ForecastInv, ForecastTypeOK
  <2> QED  BY <2>1, FreeType, ForecasterMoves
<1>2. CASE ~(days = {} \/ batches = NumForecasts)
  <2> DEFINE now == new(days)
  <2>1. /\ batches' = b /\ span' = [span EXCEPT ![b] = days]
        /\ overlapping' = IF writing = {} THEN overlapping
                          ELSE overlapping \cup {b} \cup {forecaster[g].batch : g \in writing}
        /\ forecaster' = [forecaster EXCEPT ![f] = now]
        /\ UNCHANGED <<today, lastSale, enough, rowOf, whole, forecastFaults>>
    BY <1>0, <1>2 DEF Predict, Begin
  <2>2. days \subseteq Date  BY WindowsAreDates
  <2>5. /\ forecaster \in [Forecaster -> ForecasterState] /\ batches \in 0..NumForecasts
        /\ span \in [Batch -> SUBSET Date] /\ whole \subseteq Batch /\ overlapping \subseteq Batch
    BY DEF ForecastInv, ForecastTypeOK, ForecasterState
  <2>6. b \in Batch /\ batches' \in 0..NumForecasts /\ b \in 1..batches'
    BY <1>2, <2>1, <2>5, ForecastAssumption DEF Batch
  <2>7. now \in ForecasterState
    <3>1. forecaster[f].agent \in BOOLEAN  BY <2>5 DEF ForecasterState
    <3>2. b \in 0..NumForecasts  BY <2>6 DEF Batch
    <3> HIDE DEF b
    <3> QED  BY <2>2, <3>1, <3>2 DEF ForecasterState
  <2>8. now.batch = b /\ now.left = days  OBVIOUS
  <2> HIDE DEF now, b
  <2>9. \A g \in Forecaster : forecaster'[g] = IF g = f THEN now ELSE forecaster[g]
    BY <2>1, <2>5
  <2>10. \A c \in Batch : span'[c] = IF c = b THEN days ELSE span[c]  BY <2>1, <2>5, <2>6
  <2>11. \A g \in writing : AtWork(g) /\ forecaster[g].batch \in Batch /\ forecaster[g].batch < b
                            /\ forecaster[g].batch <= batches
    <3> SUFFICES ASSUME NEW g \in writing
                 PROVE  AtWork(g) /\ forecaster[g].batch \in Batch /\ forecaster[g].batch < b
                        /\ forecaster[g].batch <= batches
      OBVIOUS
    <3>1. AtWork(g)  BY DEF AtWork
    <3>2. forecaster[g].batch \in 1..batches  BY <3>1 DEF ForecastInv, WritesTheRest
    <3> QED  BY <2>5, <3>1, <3>2, ForecastAssumption DEF Batch, b
  <2>12. overlapping \subseteq overlapping' /\ overlapping' \subseteq Batch
    BY <2>1, <2>5, <2>6, <2>11
  <2>13. \A g \in writing : {forecaster[g].batch, b} \subseteq overlapping'  BY <2>1
  <2>14. \A c \in Batch : c <= batches => c # b /\ span'[c] = span[c]
    BY <2>5, <2>10, ForecastAssumption DEF b, Batch
  <2>15. ForecastTypeOK'
    <3>1. span' \in [Batch -> SUBSET Date]  BY <2>1, <2>2, <2>5, <2>6
    <3>2. forecaster' \in [Forecaster -> ForecasterState]  BY <2>1, <2>5, <2>7
    <3> QED  BY <2>1, <2>6, <2>12, <3>1, <3>2 DEF ForecastInv, ForecastTypeOK, ForecasterState
  <2>17. WholeWereBegun'
    <3> SUFFICES ASSUME NEW c \in whole PROVE c <= batches'  BY <2>1 DEF WholeWereBegun
    <3>1. c <= batches /\ c \in Batch  BY <2>5 DEF ForecastInv, WholeWereBegun
    <3> QED  BY <2>1, <2>5, <3>1, ForecastAssumption DEF b, Batch
  <2>18. NewestForecastStands'
    <3> SUFFICES ASSUME NEW c \in whole \ overlapping, NEW d \in span'[c] PROVE rowOf[d] >= c
      BY <2>1, <2>12 DEF NewestForecastStands
    <3>1. c \in Batch /\ c <= batches  BY <2>5 DEF ForecastInv, WholeWereBegun
    <3>2. d \in span[c]  BY <2>14, <3>1
    <3> QED  BY <3>2 DEF ForecastInv, NewestForecastStands
  <2>19. ASSUME NEW g \in Forecaster, AtWork(g)' PROVE WritesTheRest(g)' /\ OlderOverlap(g)'
    <3>1. CASE g = f
      <4>1. forecaster'[g] = now  BY <2>9, <3>1
      <4>3. WritesTheRest(g)'  BY <2>6, <2>8, <2>10, <4>1 DEF WritesTheRest
      <4>4. OlderOverlap(g)'
        BY <2>1, <2>5, <2>8, <4>1, ForecastAssumption DEF OlderOverlap, b, Batch
      <4> QED  BY <4>3, <4>4
    <3>2. CASE g # f
      <4>1. forecaster'[g] = forecaster[g] /\ g \in writing /\ AtWork(g)
        BY <2>9, <2>19, <3>2 DEF AtWork
      <4>2. WritesTheRest(g) /\ OlderOverlap(g)  BY DEF ForecastInv
      <4> DEFINE c == forecaster[g].batch
      <4>3. c \in Batch /\ c <= batches /\ c < b /\ {c, b} \subseteq overlapping'
        BY <2>11, <2>13, <4>1
      <4>5. c \in 1..batches'  BY <2>1, <2>5, <4>3, ForecastAssumption DEF Batch, b
      <4>6. WritesTheRest(g)'  BY <4>1, <4>3, <4>5 DEF WritesTheRest
      <4>7. ASSUME NEW e \in Batch, c < e, e <= batches' PROVE {c, e} \subseteq overlapping'
        <5>1. CASE e = b  BY <4>3, <5>1
        <5>2. CASE e # b
          <6>1. e <= batches  BY <2>1, <2>5, <4>7, <5>2, ForecastAssumption DEF b, Batch
          <6>2. {c, e} \subseteq overlapping  BY <4>1, <4>2, <4>7, <6>1 DEF OlderOverlap
          <6> QED  BY <2>12, <6>2
        <5> QED  BY <5>1, <5>2
      <4>8. OlderOverlap(g)'  BY <4>1, <4>7 DEF OlderOverlap
      <4> QED  BY <4>6, <4>8
    <3> QED  BY <3>1, <3>2
  <2>20. \A g \in Forecaster : WritesTheRest(g)' /\ OlderOverlap(g)'
    BY <2>19 DEF WritesTheRest, OlderOverlap
  <2> QED  BY <2>15, <2>17, <2>18, <2>20 DEF ForecastInv
<1> QED  BY <1>1, <1>2

\* The days and the sales pass.
LEMMA TimePasses ==
    ASSUME ForecastInv, Tomorrow \/ Sell PROVE ForecastInv'
<1>1. today' \in Day /\ lastSale' \in 0..today' /\ enough' \in BOOLEAN
  <2>1. today \in 1..LastDay /\ lastSale \in 0..today /\ enough \in BOOLEAN /\ LastDay \in Nat
    BY ForecastAssumption DEF ForecastInv, ForecastTypeOK, Day
  <2>2. CASE Tomorrow
    <3>1. today' = today + 1 /\ lastSale' = lastSale /\ enough' = enough /\ today < LastDay
      BY <2>2 DEF Tomorrow
    <3>2. today' \in 1..LastDay /\ lastSale' \in 0..today'  BY <2>1, <3>1
    <3> QED  BY <2>1, <3>1, <3>2 DEF Day
  <2>3. CASE Sell
    <3>1. today' = today /\ lastSale' = today /\ enough' \in {FALSE, enough, TRUE}
      BY <2>3 DEF Sell
    <3>2. today' \in 1..LastDay /\ lastSale' \in 0..today'  BY <2>1, <3>1
    <3> QED  BY <2>1, <3>1, <3>2 DEF Day
  <2> QED  BY <2>2, <2>3
<1>2. UNCHANGED <<rowOf, forecaster, batches, span, whole, overlapping, forecastFaults>>
  BY DEF Tomorrow, Sell
<1>3. ForecastTypeOK'  BY <1>1, <1>2 DEF ForecastInv, ForecastTypeOK
<1> QED  BY <1>2, <1>3 DEF ForecastInv, WholeWereBegun, NewestForecastStands,
                           WritesTheRest, OlderOverlap, AtWork

LEMMA ForecastStep == ForecastInv /\ [ForecastNext]_forecastVars => ForecastInv'
<1> SUFFICES ASSUME ForecastInv, [ForecastNext]_forecastVars PROVE ForecastInv'  OBVIOUS
<1>1. CASE Tomorrow \/ Sell  BY <1>1, TimePasses
<1>2. ASSUME NEW f \in Forecaster,
             \/ TakeUp(f) \/ AgentTakesUp(f) \/ Predict(f) \/ CheckToday(f) \/ WriteDate(f)
             \/ StopHalfway(f)
             \/ \E g \in Forecaster : CallWriteToolAgain(f, g)
      PROVE  ForecastInv'
  BY <1>2, TakeUpInv, PredictInv, CheckTodayInv, WriteDateInv, StopHalfwayInv,
     CallWriteToolAgainInv
<1>3. CASE UNCHANGED forecastVars
  BY <1>3 DEF forecastVars, ForecastInv, ForecastTypeOK, WholeWereBegun,
              NewestForecastStands, WritesTheRest, OlderOverlap, AtWork
<1> QED  BY <1>1, <1>2, <1>3 DEF ForecastNext

\* For any number of forecasts, days and threads, and wherever a forecast is stopped or its
\* tool is called again, what was written to the end is what every date of its window shows.
THEOREM NewestForecastIsShown == ForecastSpec => []NewestForecastStands
<1>1. ForecastInv => NewestForecastStands  BY DEF ForecastInv
<1> QED  BY <1>1, ForecastInitInv, ForecastStep, PTL DEF ForecastSpec

=============================================================================
