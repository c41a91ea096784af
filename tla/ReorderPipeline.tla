--------------------------- MODULE ReorderPipeline ---------------------------
(***************************************************************************)
(* The daily reorder pipeline over the purchase-order table.  A delivery   *)
(* of run_agent_pipeline lets the DecisionAgent evaluate every SKU, each   *)
(* in a thread of its own, which raises an OPEN reorder flag where no      *)
(* order is open; then it reads the OPEN flags and runs the                *)
(* PurchasingAgent for each of them.  The task is acknowledged late: a     *)
(* delivery that is killed, or that lasts longer than the broker's         *)
(* visibility timeout, is followed, or joined, by another.                 *)
(***************************************************************************)
EXTENDS PurchasingService, PurchasingAgent

\* The members of Run are the deliveries: each runs one PurchasingAgent at a time.
CONSTANTS
    Sku,
    NumFlags    \* ids of the reorder_flag table: 1..NumFlags (bounds the model)

Flag == 1..NumFlags

\* An order's key names its SKU; the rest is the supplier and the quantity.
ASSUME PipelineAssumption ==
    /\ NumFlags \in Nat \ {0}
    /\ \A k \in Key : k.sku \in Sku

VARIABLES
    flag,       \* [Flag -> SKU and status]
    delivery,   \* [Run -> program counter, threads, flags it has read]
    overlapped, \* have two deliveries been at work at one time? (history)
    interrupted \* has a delivery been killed? (history)

vars == <<tableVars, client, agentVars, flag, delivery, overlapped, interrupted>>

FlagStatus == {"none", "open", "consumed"}
Thread == {"waiting", "decided", "insert", "finished"}
DeliveryState ==
    [pc: {"idle", "deciding", "flags", "agent", "done", "crashed"},
     thread: [Sku -> Thread], todo: SUBSET Flag]

TypeOK ==
    /\ TableTypeOK /\ ServiceTypeOK /\ AgentTypeOK
    /\ flag \in [Flag -> [sku: Sku, status: FlagStatus]]
    /\ delivery \in [Run -> DeliveryState]
    /\ overlapped \in BOOLEAN /\ interrupted \in BOOLEAN

NoThreads(pc) == [pc |-> pc, thread |-> [s \in Sku |-> "waiting"], todo |-> {}]

Init ==
    /\ TableInit /\ ServiceInit /\ AgentInit
    /\ flag = [f \in Flag |-> [sku |-> CHOOSE s \in Sku : TRUE, status |-> "none"]]
    /\ delivery = [w \in Run |-> NoThreads("idle")]
    /\ overlapped = FALSE /\ interrupted = FALSE

-----------------------------------------------------------------------------
In(w, pc) == delivery[w].pc = pc
AtWork(w) == delivery[w].pc \in {"deciding", "flags", "agent"}
OpenFlags == {f \in Flag : flag[f].status = "open"}
OpenFlagsOf(s) == {f \in OpenFlags : flag[f].sku = s}

\* PurchasingRepository.get_open_for_sku.
OpenOrdersOf(s) ==
    {p \in PO : order[p].key.sku = s /\ order[p].status \in ActiveStatus \cup InFlightStatus}

Unordered == <<tableVars, client, agentVars>>

\* The beat, or the broker that delivers the task again.  The forecast step waits for
\* nothing: what the forecasts say is known to the decision step, or not.
StartDelivery(w) ==
    /\ In(w, "idle")
    /\ delivery' = [delivery EXCEPT ![w].pc = "deciding"]
    /\ overlapped' = (overlapped \/ \E v \in Run : AtWork(v))
    /\ UNCHANGED <<Unordered, flag, interrupted>>

SetThread(w, s, at, to) ==
    /\ In(w, "deciding")
    /\ delivery[w].thread[s] = at
    /\ delivery' = [delivery EXCEPT ![w].thread[s] = to]

\* Faulty: the open orders are not looked at.
ObserveStockOnly(w, s) ==
    /\ SetThread(w, s, "waiting", "decided") \/ SetThread(w, s, "waiting", "finished")
    /\ UNCHANGED <<Unordered, flag, overlapped, interrupted>>

\* evaluate_sku up to its decision.  The stock and the forecast ask for a reorder
\* or not; an order that is open speaks against it.
Observe(w, s) ==
    /\ \/ SetThread(w, s, "waiting", "decided") /\ OpenOrdersOf(s) = {}
       \/ SetThread(w, s, "waiting", "finished")
    /\ UNCHANGED <<Unordered, flag, overlapped, interrupted>>

\* Faulty: the flag is created without looking for one.
PersistFlagBlindly(w, s) ==
    /\ SetThread(w, s, "decided", "insert")
    /\ UNCHANGED <<Unordered, flag, overlapped, interrupted>>

\* upsert_open_reorder_flag, the locked query: an OPEN flag of the SKU is updated, two
\* are an error, and with none there is nothing to lock ...
PersistFlag(w, s) ==
    /\ SetThread(w, s, "decided", IF OpenFlagsOf(s) = {} THEN "insert" ELSE "finished")
    /\ UNCHANGED <<Unordered, flag, overlapped, interrupted>>

NextFlag(f) == flag[f].status = "none" /\ \A g \in Flag : flag[g].status = "none" => f <= g

\* ... and one is inserted.
InsertFlag(w, s) ==
    /\ SetThread(w, s, "insert", "finished")
    /\ \E f \in Flag : NextFlag(f) /\ flag' = [flag EXCEPT ![f] = [sku |-> s, status |-> "open"]]
    /\ UNCHANGED <<Unordered, overlapped, interrupted>>

\* Faulty: what is read are the SKUs of the flags.
ReadFlagsBySku(w) ==
    /\ In(w, "deciding")
    /\ \A s \in Sku : delivery[w].thread[s] = "finished"
    /\ delivery' = [delivery EXCEPT ![w].pc = "flags",
                                    ![w].todo = {flag[f].sku : f \in OpenFlags}]
    /\ UNCHANGED <<Unordered, flag, overlapped, interrupted>>

\* _run_po_creation_step: the OPEN flags are read once, when all threads have ended.
ReadFlags(w) ==
    /\ In(w, "deciding")
    /\ \A s \in Sku : delivery[w].thread[s] = "finished"
    /\ delivery' = [delivery EXCEPT ![w].pc = "flags", ![w].todo = OpenFlags]
    /\ UNCHANGED <<Unordered, flag, overlapped, interrupted>>

\* The flag at hand: the newest first.
AtHand(w, f) == f \in delivery[w].todo /\ \A g \in delivery[w].todo : g <= f

NextFlagOf(w, f) ==
    delivery' = [delivery EXCEPT ![w].pc = "flags", ![w].todo = @ \ {f}]

\* The SKU has no supplier, or the language model's answer is of no use.
SkipFlag(w) ==
    /\ In(w, "flags")
    /\ \E f \in Flag : AtHand(w, f) /\ NextFlagOf(w, f)
    /\ UNCHANGED <<Unordered, flag, overlapped, interrupted>>

\* The language model names supplier and quantity, and PurchasingAgent.run begins.
OrderFlag(w) ==
    /\ In(w, "flags")
    /\ \E f \in Flag, k \in Key :
        /\ AtHand(w, f)
        /\ k.sku = flag[f].sku
        /\ StartRun(w, k, "plain")
    /\ delivery' = [delivery EXCEPT ![w].pc = "agent"]
    /\ UNCHANGED <<client, flag, overlapped, interrupted>>

AgentStep(w) ==
    /\ In(w, "agent")
    /\ Advance(w)
    /\ UNCHANGED <<client, flag, delivery, overlapped, interrupted>>

\* The call has returned, or its process is gone: nothing of the run is left.
ForgetRun(w) ==
    /\ run' = [run EXCEPT ![w] = NewRun]
    /\ result' = [result EXCEPT ![w] = "none"]
    /\ UNCHANGED <<tableVars, client, workflow>>

FlagFailed(w) ==
    /\ In(w, "agent")
    /\ result[w] = "failed"
    /\ \E f \in Flag : AtHand(w, f) /\ NextFlagOf(w, f)
    /\ ForgetRun(w)
    /\ UNCHANGED <<flag, overlapped, interrupted>>

\* Faulty: a flag is consumed whatever came of it.
ConsumeFlagAnyway(w) ==
    /\ In(w, "agent")
    /\ result[w] # "none"
    /\ \E f \in Flag :
        /\ AtHand(w, f) /\ NextFlagOf(w, f)
        /\ flag' = [flag EXCEPT ![f].status = "consumed"]
    /\ ForgetRun(w)
    /\ UNCHANGED <<overlapped, interrupted>>

\* flag.save(update_fields=['status']), on whatever the flag's status is by now.
ConsumeFlag(w) ==
    /\ In(w, "agent")
    /\ result[w] \notin {"none", "failed"}
    /\ \E f \in Flag :
        /\ AtHand(w, f) /\ NextFlagOf(w, f)
        /\ flag' = [flag EXCEPT ![f].status = "consumed"]
    /\ ForgetRun(w)
    /\ UNCHANGED <<overlapped, interrupted>>

EndDelivery(w) ==
    /\ In(w, "flags")
    /\ delivery[w].todo = {}
    /\ delivery' = [delivery EXCEPT ![w] = NoThreads("done")]
    /\ UNCHANGED <<Unordered, flag, overlapped, interrupted>>

\* The worker is killed, and the agent's run with it.
CrashDelivery(w) ==
    /\ RunMayCrash
    /\ AtWork(w)
    /\ delivery' = [delivery EXCEPT ![w] = NoThreads("crashed")]
    /\ interrupted' = TRUE
    /\ ForgetRun(w)
    /\ UNCHANGED <<flag, overlapped>>

Proceed(w) ==
    \/ \E s \in Sku : Observe(w, s) \/ PersistFlag(w, s) \/ InsertFlag(w, s)
    \/ ReadFlags(w)
    \/ SkipFlag(w) \/ OrderFlag(w) \/ AgentStep(w) \/ FlagFailed(w) \/ ConsumeFlag(w)
    \/ EndDelivery(w)

PipelineVars == <<agentVars, flag, delivery, overlapped, interrupted>>

Next ==
    \/ \E w \in Run : StartDelivery(w) \/ Proceed(w) \/ CrashDelivery(w)
    \/ ServiceNext /\ UNCHANGED PipelineVars

Spec == Init /\ [][Next]_vars

-----------------------------------------------------------------------------
(***************************************************************************)
(* Properties.                                                             *)
(***************************************************************************)

\* No reorder is lost: behind a flag that is CONSUMED stands an order of its SKU
\* that has reached the managers, workflow record and all, whoever was killed,
\* whatever was refused by the unique constraint and whichever delivery did it.
ConsumedWasOrdered ==
    \A f \in Flag : flag[f].status = "consumed" =>
        \E p \in PO : /\ order[p].key.sku = flag[f].sku
                      /\ Exists(p) /\ order[p].status # "draft"
                      /\ workflow[p] # NoWorkflow

\* A SKU has two OPEN flags only if two deliveries have been at work at one time:
\* one after the other, even after a crash, they find each other's flag.
\* (upsert_open_reorder_flag has no unique constraint under it.)
OneOpenFlagUnlessOverlapped ==
    \A f, g \in OpenFlags : f # g /\ flag[f].sku = flag[g].sku => overlapped

\* The pipeline orders a SKU again while an order for it is open only if deliveries
\* have overlapped or one was killed: a flag left OPEN by a crash is not compared
\* with the open orders again, and the language model may name another quantity.
OneOpenOrderUnlessTroubled ==
    ~overlapped /\ ~interrupted =>
        \A s \in Sku, p, q \in PO : p \in OpenOrdersOf(s) /\ q \in OpenOrdersOf(s) => p = q
=============================================================================
