---------------------------- MODULE DecisionAgent ----------------------------
(***************************************************************************)
(* The evaluations of the decision agent: a language model is given three  *)
(* tools (stock, forecast, open orders) and calls them in any order, again *)
(* and again, with arguments of its own; the last answer of each tool is   *)
(* what the formula is applied to.  evaluate_sku closes its tools over the *)
(* SKU; evaluate_product passes on the product the model names, and flags  *)
(* the SKU of the stock level it was shown.  Orders are opened and closed  *)
(* meanwhile.                                                              *)
(***************************************************************************)
EXTENDS Naturals

CONSTANTS
    Item,        \* products, each with one SKU
    NoItem,
    Decider,     \* threads that evaluate
    tool_retries \* 1 in the code

ASSUME DecisionAssumption == NoItem \notin Item /\ tool_retries \in Nat

Tool == {"stock_level_read_tool", "forecast_read_tool", "po_status_check_tool"}

VARIABLES
    onOrder,   \* items with an open order
    decision,  \* [Decider -> the evaluation: step, mode, target, the call of a tool]
    seen,      \* [Decider -> [Tool -> the item observed, or NoItem]]
    seenOpen,  \* [Decider -> has_open_po of the last observation]
    todo,      \* [Decider -> products of this run() that are still to be evaluated]
    result,    \* [Decider -> the item whose flag this evaluation upserted, or NoItem]
    unordered  \* [Decider -> the target was without an open order at some moment
               \*             since the evaluation began] (history)

decisionVars == <<onOrder, decision, seen, seenOpen, todo, result, unordered>>

DecisionTypeOK ==
    /\ onOrder \subseteq Item
    /\ decision \in [Decider -> [pc: {"idle", "model", "tool", "decide", "reason", "flag", "done", "failed"},
                                 mode: {"sku", "product"}, target: Item \cup {NoItem},
                                 tool: Tool, about: Item \cup {NoItem}, tries: 0..tool_retries]]
    /\ seen \in [Decider -> [Tool -> Item \cup {NoItem}]]
    /\ seenOpen \in [Decider -> BOOLEAN]
    /\ todo \in [Decider -> SUBSET Item]
    /\ result \in [Decider -> Item \cup {NoItem}]
    /\ unordered \in [Decider -> BOOLEAN]

NoDecision == [pc |-> "idle", mode |-> "sku", target |-> NoItem,
               tool |-> "stock_level_read_tool", about |-> NoItem, tries |-> 0]
NothingSeen == [t \in Tool |-> NoItem]

DecisionInit ==
    /\ onOrder = {}
    /\ decision = [d \in Decider |-> NoDecision]
    /\ seen = [d \in Decider |-> NothingSeen]
    /\ seenOpen = [d \in Decider |-> FALSE] /\ todo = [d \in Decider |-> {}]
    /\ result = [d \in Decider |-> NoItem]
    /\ unordered = [d \in Decider |-> FALSE]

-----------------------------------------------------------------------------
Deciding(d, pc) == decision[d].pc = pc
Resting(d) == decision[d].pc \in {"idle", "done", "failed"}
Proceed(d, pc) ==
    decision' = [decision EXCEPT ![d] = [NoDecision EXCEPT !.pc = pc, !.mode = decision[d].mode,
                                                           !.target = decision[d].target]]
Observed == <<seen, seenOpen>>

Begin(d, mode, i) ==
    /\ decision' = [decision EXCEPT ![d] = [NoDecision EXCEPT !.pc = "model", !.mode = mode,
                                                              !.target = i]]
    /\ seen' = [seen EXCEPT ![d] = NothingSeen]
    /\ seenOpen' = [seenOpen EXCEPT ![d] = FALSE]
    /\ result' = [result EXCEPT ![d] = NoItem]
    /\ unordered' = [unordered EXCEPT ![d] = i \notin onOrder]
    /\ UNCHANGED onOrder

\* A thread of the pipeline calls evaluate_sku.
EvaluateSku(d, i) ==
    /\ Resting(d) /\ todo[d] = {}
    /\ Begin(d, "sku", i)
    /\ UNCHANGED todo

\* run() of a context without injected instructions: its products one after another.
Run(d, items) ==
    /\ Resting(d) /\ todo[d] = {}
    /\ todo' = [todo EXCEPT ![d] = items]
    /\ UNCHANGED <<onOrder, decision, result, unordered, Observed>>

EvaluateProduct(d, i) ==
    /\ Resting(d) /\ i \in todo[d]
    /\ Begin(d, "product", i)
    /\ todo' = [todo EXCEPT ![d] = @ \ {i}]

AskTool(d, t, i) ==
    /\ decision' = [decision EXCEPT ![d].pc = "tool", ![d].tool = t, ![d].about = i]
    /\ UNCHANGED <<onOrder, todo, result, unordered, Observed>>

\* Faulty: the SKU tools, too, take the id the model names.
CallSkuToolAsNamed(d, t) ==
    /\ Deciding(d, "model") /\ decision[d].mode = "sku"
    /\ \E i \in Item : AskTool(d, t, i)

\* The model calls a tool, naming an id: _build_sku_tools overrides it ...
CallSkuTool(d, t) ==
    /\ Deciding(d, "model") /\ decision[d].mode = "sku"
    /\ AskTool(d, t, decision[d].target)

\* ... and _build_langchain_tools does not.
CallProductTool(d, t, i) ==
    /\ Deciding(d, "model") /\ decision[d].mode = "product"
    /\ AskTool(d, t, i)

\* get_open_po_status: an order in one of the statuses that count as open.
HasOpenOrder(i) == i \in onOrder

\* _run_tool: the services read the stock level, the next forecasts or the newest open order.
ToolAnswers(d) ==
    /\ Deciding(d, "tool")
    /\ LET t == decision[d].tool
           i == decision[d].about IN
        /\ seen' = [seen EXCEPT ![d][t] = i]
        /\ seenOpen' = [seenOpen EXCEPT ![d] = IF t = "po_status_check_tool" THEN HasOpenOrder(i) ELSE @]
    /\ Proceed(d, "model")
    /\ UNCHANGED <<onOrder, todo, result, unordered>>

\* It is tried again once; after that the model is told, or the evaluation ends.
ToolFails(d) ==
    /\ Deciding(d, "tool")
    /\ \/ /\ decision[d].tries < tool_retries
          /\ decision' = [decision EXCEPT ![d].tries = @ + 1]
          /\ UNCHANGED todo
       \/ decision[d].tries = tool_retries /\ Proceed(d, "model") /\ UNCHANGED todo
       \/ /\ decision[d].tries = tool_retries /\ Proceed(d, "failed")
          /\ todo' = [todo EXCEPT ![d] = {}]
    /\ UNCHANGED <<onOrder, result, unordered, Observed>>

\* The model has no more to ask: _require_observations wants all three.
ModelStops(d) ==
    /\ Deciding(d, "model")
    /\ \/ (\A t \in Tool : seen[d][t] # NoItem) /\ Proceed(d, "decide") /\ UNCHANGED todo
       \/ /\ (\E t \in Tool : seen[d][t] = NoItem) /\ Proceed(d, "failed")
          /\ todo' = [todo EXCEPT ![d] = {}]
    /\ UNCHANGED <<onOrder, result, unordered, Observed>>

\* The model raises, or the recursion limit is reached.  run() gives up its other products.
ModelRaises(d) ==
    /\ Deciding(d, "model") /\ Proceed(d, "failed")
    /\ todo' = [todo EXCEPT ![d] = {}]
    /\ UNCHANGED <<onOrder, result, unordered, Observed>>

\* quantity_available < total_predicted_demand + safety_stock (which the numbers of the tools
\* decide, and the horizon the model asked for) and not has_open_po.
Decide(d) ==
    /\ Deciding(d, "decide")
    /\ \/ ~seenOpen[d] /\ Proceed(d, "reason")
       \/ Proceed(d, "done")
    /\ UNCHANGED <<onOrder, todo, result, unordered, Observed>>

\* The reasoning, by the model or from a template, takes its time and does not fail.
Reason(d) ==
    /\ Deciding(d, "reason") /\ Proceed(d, "flag")
    /\ UNCHANGED <<onOrder, todo, result, unordered, Observed>>

\* The SKU of the decision.  In evaluate_product it is the one whose stock level was read.
SkuOf(d) == IF decision[d].mode = "sku" THEN decision[d].target
            ELSE seen[d]["stock_level_read_tool"]

\* persist_reorder_flag upserts the flag of the SKU, or finds that the SKU is gone.
PersistReorderFlag(d) ==
    /\ Deciding(d, "flag")
    /\ \/ /\ Proceed(d, "done") /\ UNCHANGED todo
          /\ result' = [result EXCEPT ![d] = SkuOf(d)]
       \/ /\ Proceed(d, "failed") /\ todo' = [todo EXCEPT ![d] = {}]
          /\ UNCHANGED result
    /\ UNCHANGED <<onOrder, unordered, Observed>>

\* Orders are opened and closed by whomever.
OpenOrder(i) ==
    /\ i \notin onOrder /\ onOrder' = onOrder \cup {i}
    /\ UNCHANGED <<decision, todo, result, unordered, Observed>>

CloseOrder(i) ==
    /\ i \in onOrder /\ onOrder' = onOrder \ {i}
    /\ unordered' = [d \in Decider |-> unordered[d] \/ i = decision[d].target]
    /\ UNCHANGED <<decision, todo, result, Observed>>

DecisionNext ==
    \/ \E d \in Decider :
        \/ \E i \in Item : EvaluateSku(d, i) \/ EvaluateProduct(d, i)
        \/ \E items \in SUBSET Item : Run(d, items)
        \/ \E t \in Tool, i \in Item : CallSkuTool(d, t) \/ CallProductTool(d, t, i)
        \/ ToolAnswers(d) \/ ToolFails(d) \/ ModelStops(d) \/ ModelRaises(d)
        \/ Decide(d) \/ Reason(d) \/ PersistReorderFlag(d)
    \/ \E i \in Item : OpenOrder(i) \/ CloseOrder(i)

DecisionSpec == DecisionInit /\ [][DecisionNext]_decisionVars

-----------------------------------------------------------------------------
\* evaluate_product uses what a tool said of another product.
Astray(d) ==
    decision[d].mode = "product" /\ \E t \in Tool : seen[d][t] # decision[d].target

\* Whatever the model asks, in which order, how often and about which id, an evaluation flags
\* only what it was to evaluate, and nothing that was on order all the while; evaluate_sku
\* always, evaluate_product unless the model led it astray.
FlagIsAboutItsTarget ==
    \A d \in Decider :
        result[d] # NoItem /\ ~Astray(d) => result[d] = decision[d].target /\ unordered[d]
=============================================================================
