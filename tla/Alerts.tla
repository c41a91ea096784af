------------------------------- MODULE Alerts -------------------------------
(***************************************************************************)
(* The alert rules the beat evaluates every five minutes: token spend,     *)
(* with a cooldown and a switch, and the success rate of the agents, with  *)
(* neither.  An evaluation fires an event, mails and posts it, and records *)
(* what was sent; or it resolves the newest event that still fires.        *)
(* Evaluations overlap when a worker is slow or a task is delivered again. *)
(***************************************************************************)
EXTENDS Integers, FiniteSets

CONSTANTS
    Evaluator,  \* workers that run evaluate_all_alerts_task
    NumEvents   \* ids of the AlertEvent table: bounds the model

ASSUME AlertAssumption == NumEvents \in Nat

Event == 1..NumEvents

VARIABLES
    rule,       \* "tokens" or "success": the rule of this behaviour
    enabled,    \* AlertRule.enabled
    value,      \* of the metric: over the limit, back to normal, or no data
    event,      \* [Event -> row]; a larger id was created later
    evaluator,  \* [Evaluator -> step, the event it holds, what it saw, overlapped]
    overlapped  \* events fired by an evaluation that another one overlapped (history)

alertVars == <<rule, enabled, value, event, evaluator, overlapped>>

AlertTypeOK ==
    /\ rule \in {"tokens", "success"} /\ enabled \in BOOLEAN
    /\ value \in {"bad", "good", "none"}
    /\ event \in [Event -> [status: {"absent", "firing", "resolved"}, cooling: BOOLEAN]]
    /\ evaluator \in [Evaluator -> [pc: {"idle", "look", "fire", "report", "resolve"},
                                    id: 0..NumEvents, raced: BOOLEAN]]
    /\ overlapped \subseteq Event

Waiting == [pc |-> "idle", id |-> 0, raced |-> FALSE]

AlertInit ==
    /\ rule \in {"tokens", "success"} /\ enabled = TRUE /\ value = "good"
    /\ event = [e \in Event |-> [status |-> "absent", cooling |-> FALSE]]
    /\ evaluator = [v \in Evaluator |-> Waiting]
    /\ overlapped = {}

Firing == {e \in Event : event[e].status = "firing"}
Newest(S) == {e \in S : \A f \in S : f <= e}
Room == Cardinality({e \in Event : event[e].status = "absent"}) >
            Cardinality({v \in Evaluator : evaluator[v].pc \in {"look", "fire"}})
NextEvent(e) == event[e].status = "absent" /\ \A f \in Event : event[f].status = "absent" => e <= f

-----------------------------------------------------------------------------
\* The metric moves; no agent ran in the window, or no token was spent yet today.
Measure(x) ==
    /\ value # x /\ (x = "none" => rule = "success")
    /\ value' = x
    /\ UNCHANGED <<rule, enabled, event, evaluator, overlapped>>

\* An administrator switches the rule.
Toggle ==
    /\ enabled' = ~enabled
    /\ UNCHANGED <<rule, value, event, evaluator, overlapped>>

\* cooldown_minutes have passed since the event was created, the oldest first.
CoolDown(e) ==
    /\ event[e].cooling /\ \A f \in Event : event[f].cooling => e <= f
    /\ event' = [event EXCEPT ![e].cooling = FALSE]
    /\ UNCHANGED <<rule, enabled, value, evaluator, overlapped>>

\* The metric is read.  evaluate_agent_success_rate returns when there is nothing to
\* measure and never looks at the switch; _evaluate_rule does.
Evaluate(v) ==
    /\ evaluator[v].pc = "idle"
    /\ value # "none" /\ (rule = "tokens" => enabled)
    /\ value = "bad" => Room
    /\ evaluator' = [evaluator EXCEPT ![v].pc = IF value = "good" THEN "resolve" ELSE
                                                IF rule = "tokens" THEN "look" ELSE "fire"]
    /\ UNCHANGED <<rule, enabled, value, event, overlapped>>

\* Faulty: the oldest event that fires decides.
CheckOldestCooldown(v) ==
    /\ evaluator[v].pc = "look"
    /\ evaluator' = [evaluator EXCEPT
         ![v] = IF \E e \in Firing : event[e].cooling /\ \A f \in Firing : e <= f THEN Waiting
                ELSE [pc |-> "fire", id |-> 0,
                      raced |-> \E u \in Evaluator \ {v} : evaluator[u].pc = "fire"]]
    /\ UNCHANGED <<rule, enabled, value, event, overlapped>>

\* _evaluate_rule: the newest event that fires decides about the cooldown.
CheckCooldown(v) ==
    /\ evaluator[v].pc = "look"
    /\ evaluator' = [evaluator EXCEPT
         ![v] = IF \E e \in Newest(Firing) : event[e].cooling THEN Waiting
                ELSE [pc |-> "fire", id |-> 0,
                      raced |-> \E u \in Evaluator \ {v} : evaluator[u].pc = "fire"]]
    /\ UNCHANGED <<rule, enabled, value, event, overlapped>>

\* _fire_alert creates the event ...
Fire(v) ==
    /\ evaluator[v].pc = "fire"
    /\ \E e \in Event :
        /\ NextEvent(e)
        /\ event' = [event EXCEPT ![e] = [status |-> "firing", cooling |-> TRUE]]
        /\ evaluator' = [u \in Evaluator |->
             IF u = v THEN [pc |-> "report", id |-> e, raced |-> FALSE]
             ELSE [evaluator[u] EXCEPT !.raced = @ \/ evaluator[u].pc = "fire"]]
        /\ overlapped' = IF evaluator[v].raced THEN overlapped \cup {e} ELSE overlapped
    /\ UNCHANGED <<rule, enabled, value>>

\* ... mails it, posts a banner and a notice to every user, any of which may fail, and saves
\* only the two columns that say so, which nobody reads: the row is as it was.
Report(v) ==
    /\ evaluator[v].pc = "report"
    /\ evaluator' = [evaluator EXCEPT ![v] = Waiting]
    /\ UNCHANGED <<rule, enabled, value, event, overlapped>>

\* _resolve_if_was_firing: one event per evaluation, the newest that fires.
Resolve(v) ==
    /\ evaluator[v].pc = "resolve"
    /\ event' = [e \in Event |->
         IF e \in Newest(Firing) THEN [event[e] EXCEPT !.status = "resolved"] ELSE event[e]]
    /\ evaluator' = [evaluator EXCEPT ![v] = Waiting]
    /\ UNCHANGED <<rule, enabled, value, overlapped>>

EvaluatorStep(v) == Evaluate(v) \/ CheckCooldown(v) \/ Fire(v) \/ Report(v) \/ Resolve(v)

AlertNext ==
    \/ \E v \in Evaluator : EvaluatorStep(v)
    \/ \E x \in {"bad", "good", "none"} : Measure(x)
    \/ \E e \in Event : CoolDown(e)
    \/ Toggle

AlertSpec == AlertInit /\ [][AlertNext]_alertVars

-----------------------------------------------------------------------------
\* One event of the token rule fires per cooldown, although the check and the creation are
\* two steps and events that still fire pile up unresolved, unless evaluations overlapped.
OneFiringPerCooldown ==
    rule = "tokens" => Cardinality({e \in Firing \ overlapped : event[e].cooling}) <= 1
=============================================================================
