-------------------------- MODULE Assistant_proofs ---------------------------
(***************************************************************************)
(* The assistant: evaluations are about their targets, conversations keep  *)
(* their word and structured questions answer what was asked, for any      *)
(* number of evaluations, answers and rows.                                *)
(***************************************************************************)
EXTENDS DecisionAgent, Chat, QueryFilters, FiniteSetTheorems, TLAPS

-----------------------------------------------------------------------------
(* The decision agent.                                                     *)

DecisionPc == {"idle", "model", "tool", "decide", "reason", "flag", "done", "failed"}
DecisionState == [pc: DecisionPc, mode: {"sku", "product"}, target: Item \cup {NoItem},
                  tool: Tool, about: Item \cup {NoItem}, tries: 0..tool_retries]

\* The SKU tools ask about the SKU only.
SkuToolsStay(d) ==
    decision[d].mode = "sku" =>
        /\ decision[d].pc = "tool" => decision[d].about = decision[d].target
        /\ \A t \in Tool : seen[d][t] \in {NoItem, decision[d].target}

\* Past the loop with the model, all three tools have been seen.
DecidesOnAll(d) ==
    decision[d].pc \in {"decide", "reason", "flag"} => \A t \in Tool : seen[d][t] # NoItem

\* What goes to a flag was seen without an open order.
FlagsUnordered(d) == decision[d].pc \in {"reason", "flag"} => ~seenOpen[d]

\* What was seen without an open order was without one.
SawTheTruth(d) ==
    /\ decision[d].target \in Item \ onOrder => unordered[d]
    /\ seen[d]["po_status_check_tool"] = decision[d].target /\ decision[d].target \in Item
            /\ ~seenOpen[d]
         => unordered[d]

\* A flag stands for the observations that led to it.
ResultStands(d) ==
    result[d] # NoItem =>
        /\ decision[d].pc = "done" /\ result[d] = SkuOf(d) /\ ~seenOpen[d]
        /\ \A t \in Tool : seen[d][t] # NoItem

EvaluationInv(d) ==
    /\ SkuToolsStay(d) /\ DecidesOnAll(d) /\ FlagsUnordered(d)
    /\ SawTheTruth(d) /\ ResultStands(d)

DecisionInv == DecisionTypeOK /\ \A d \in Decider : EvaluationInv(d)

LEMMA DecisionInitInv == DecisionInit => DecisionInv
<1> SUFFICES ASSUME DecisionInit PROVE DecisionInv  OBVIOUS
<1>1. NoDecision \in DecisionState
  <2>1. 0 \in 0..tool_retries  BY DecisionAssumption
  <2> QED  BY <2>1 DEF NoDecision, DecisionState, DecisionPc, Tool
<1>2. DecisionTypeOK
  BY <1>1 DEF DecisionInit, DecisionTypeOK, NothingSeen, DecisionState, DecisionPc
<1>3. ASSUME NEW d \in Decider PROVE EvaluationInv(d)
  <2>1. decision[d] = NoDecision /\ seen[d] = NothingSeen /\ result[d] = NoItem
    BY DEF DecisionInit
  <2>2. SkuToolsStay(d) /\ DecidesOnAll(d) /\ FlagsUnordered(d) /\ ResultStands(d)
    BY <2>1 DEF SkuToolsStay, DecidesOnAll, FlagsUnordered, ResultStands, NoDecision, NothingSeen
  <2>3. SawTheTruth(d)  BY <2>1, DecisionAssumption DEF SawTheTruth, NoDecision
  <2> QED  BY <2>2, <2>3 DEF EvaluationInv
<1> QED  BY <1>2, <1>3 DEF DecisionInv

-----------------------------------------------------------------------------
LEMMA DecisionState1 ==
    ASSUME DecisionTypeOK, NEW d \in Decider PROVE decision[d] \in DecisionState
BY DEF DecisionTypeOK, DecisionState, DecisionPc

\* What Proceed makes of an evaluation.
LEMMA ProceedType ==
    ASSUME DecisionTypeOK, NEW d \in Decider, NEW pc \in DecisionPc, Proceed(d, pc)
    PROVE  /\ decision' \in [Decider -> DecisionState]
           /\ \A e \in Decider \ {d} : decision'[e] = decision[e]
           /\ decision'[d].pc = pc /\ decision'[d].mode = decision[d].mode
           /\ decision'[d].target = decision[d].target
<1> DEFINE n == [NoDecision EXCEPT !.pc = pc, !.mode = decision[d].mode,
                                   !.target = decision[d].target]
<1>1. 0 \in 0..tool_retries  BY DecisionAssumption
<1>2. decision[d] \in DecisionState  BY DecisionState1
<1>3. n \in DecisionState /\ n.pc = pc /\ n.mode = decision[d].mode /\ n.target = decision[d].target
  BY <1>1, <1>2 DEF NoDecision, DecisionState, DecisionPc, Tool
<1>4. decision' = [decision EXCEPT ![d] = n]  BY DEF Proceed
<1>5. decision \in [Decider -> DecisionState]
  BY DEF DecisionTypeOK, DecisionState, DecisionPc
<1> HIDE DEF n
<1> QED  BY <1>3, <1>4, <1>5

\* The other evaluations are as they were.
LEMMA OthersStill ==
    ASSUME DecisionInv, NEW e \in Decider, onOrder' = onOrder,
           decision'[e] = decision[e], seen'[e] = seen[e], seenOpen'[e] = seenOpen[e],
           result'[e] = result[e], unordered'[e] = unordered[e]
    PROVE  EvaluationInv(e)'
BY DEF DecisionInv, EvaluationInv, SkuToolsStay, DecidesOnAll, FlagsUnordered, SawTheTruth,
       ResultStands, SkuOf

\* An evaluation that proceeds without having seen or flagged anything new.
LEMMA ProceedInv ==
    ASSUME DecisionInv, NEW d \in Decider, NEW pc \in DecisionPc \ {"tool"}, Proceed(d, pc),
           decision[d].pc # "done",
           pc \in {"decide", "reason", "flag"} => \A t \in Tool : seen[d][t] # NoItem,
           pc \in {"reason", "flag"} => ~seenOpen[d],
           todo' \in [Decider -> SUBSET Item], UNCHANGED <<onOrder, result, unordered, Observed>>
    PROVE  DecisionInv'
<1>1. DecisionTypeOK  BY DEF DecisionInv
<1>2. /\ decision' \in [Decider -> DecisionState]
      /\ \A e \in Decider \ {d} : decision'[e] = decision[e]
      /\ decision'[d].pc = pc /\ decision'[d].mode = decision[d].mode
      /\ decision'[d].target = decision[d].target
  BY <1>1, ProceedType
<1>3. DecisionTypeOK'  BY <1>1, <1>2 DEF DecisionTypeOK, DecisionState, DecisionPc, Observed
<1>4. EvaluationInv(d)  BY DEF DecisionInv
<1>5. EvaluationInv(d)'
  <2>1. SkuToolsStay(d)'  BY <1>2, <1>4 DEF EvaluationInv, SkuToolsStay, Observed
  <2>2. DecidesOnAll(d)' /\ FlagsUnordered(d)'  BY <1>2 DEF DecidesOnAll, FlagsUnordered, Observed
  <2>3. SawTheTruth(d)'  BY <1>2, <1>4 DEF EvaluationInv, SawTheTruth, Observed
  <2>4. ResultStands(d)'  BY <1>2, <1>4 DEF EvaluationInv, ResultStands, Observed
  <2> QED  BY <2>1, <2>2, <2>3, <2>4 DEF EvaluationInv
<1>6. \A e \in Decider \ {d} : EvaluationInv(e)'  BY <1>2, OthersStill DEF Observed
<1> QED  BY <1>3, <1>5, <1>6 DEF DecisionInv

-----------------------------------------------------------------------------
LEMMA BeginInv ==
    ASSUME DecisionInv, NEW d \in Decider, NEW mode \in {"sku", "product"}, NEW i \in Item,
           Begin(d, mode, i), todo' \in [Decider -> SUBSET Item]
    PROVE  DecisionInv'
<1> DEFINE n == [NoDecision EXCEPT !.pc = "model", !.mode = mode, !.target = i]
<1>1. n \in DecisionState /\ n.pc = "model" /\ n.mode = mode /\ n.target = i
  <2>1. 0 \in 0..tool_retries  BY DecisionAssumption
  <2> QED  BY <2>1 DEF NoDecision, DecisionState, DecisionPc, Tool
<1>2. decision \in [Decider -> DecisionState]
  BY DEF DecisionInv, DecisionTypeOK, DecisionState, DecisionPc
<1>3. decision' = [decision EXCEPT ![d] = n]  BY DEF Begin
<1> HIDE DEF n
<1>4. NothingSeen \in [Tool -> Item \cup {NoItem}]  BY DEF NothingSeen
<1>5. DecisionTypeOK'
  <2>1. decision' \in [Decider -> DecisionState]  BY <1>1, <1>2, <1>3
  <2>2. seen' \in [Decider -> [Tool -> Item \cup {NoItem}]]
    BY <1>4 DEF DecisionInv, DecisionTypeOK, Begin
  <2>3. seenOpen' \in [Decider -> BOOLEAN]  BY DEF DecisionInv, DecisionTypeOK, Begin
  <2>4. unordered' \in [Decider -> BOOLEAN]
    <3>1. (i \notin onOrder) \in BOOLEAN  OBVIOUS
    <3> QED  BY <3>1 DEF DecisionInv, DecisionTypeOK, Begin
  <2>5. result' \in [Decider -> Item \cup {NoItem}]  BY DEF DecisionInv, DecisionTypeOK, Begin
  <2>6. onOrder' \subseteq Item  BY DEF DecisionInv, DecisionTypeOK, Begin
  <2> QED
    BY <2>1, <2>2, <2>3, <2>4, <2>5, <2>6 DEF DecisionTypeOK, DecisionState, DecisionPc
<1>6. /\ decision'[d] = n /\ seen'[d] = NothingSeen /\ result'[d] = NoItem
      /\ unordered'[d] = (i \notin onOrder) /\ onOrder' = onOrder
  BY <1>2, <1>3 DEF DecisionInv, DecisionTypeOK, Begin
<1>7. EvaluationInv(d)'
  <2>1. SkuToolsStay(d)' /\ DecidesOnAll(d)' /\ FlagsUnordered(d)' /\ ResultStands(d)'
    BY <1>1, <1>6 DEF SkuToolsStay, DecidesOnAll, FlagsUnordered, ResultStands, NothingSeen
  <2>2. SawTheTruth(d)'
    BY <1>1, <1>6, DecisionAssumption DEF SawTheTruth, NothingSeen, Tool
  <2> QED  BY <2>1, <2>2 DEF EvaluationInv
<1>8. \A e \in Decider \ {d} : EvaluationInv(e)'
  <2> SUFFICES ASSUME NEW e \in Decider \ {d} PROVE EvaluationInv(e)'  OBVIOUS
  <2>1. /\ decision'[e] = decision[e] /\ seen'[e] = seen[e] /\ seenOpen'[e] = seenOpen[e]
        /\ result'[e] = result[e] /\ unordered'[e] = unordered[e]
    BY <1>2, <1>3 DEF DecisionInv, DecisionTypeOK, Begin
  <2> QED  BY <1>6, <2>1, OthersStill
<1> QED  BY <1>5, <1>7, <1>8 DEF DecisionInv

LEMMA AskToolInv ==
    ASSUME DecisionInv, NEW d \in Decider, NEW t \in Tool, NEW i \in Item \cup {NoItem},
           Deciding(d, "model"), AskTool(d, t, i),
           decision[d].mode = "sku" => i = decision[d].target
    PROVE  DecisionInv'
<1> DEFINE n == [decision[d] EXCEPT !.pc = "tool", !.tool = t, !.about = i]
<1>1. decision \in [Decider -> DecisionState]
  BY DEF DecisionInv, DecisionTypeOK, DecisionState, DecisionPc
<1>2. /\ n \in DecisionState /\ n.pc = "tool" /\ n.about = i
      /\ n.mode = decision[d].mode /\ n.target = decision[d].target
  BY <1>1 DEF DecisionState, DecisionPc
<1>3. decision' = [decision EXCEPT ![d] = n]  BY <1>1 DEF AskTool, DecisionState
<1> HIDE DEF n
<1>4. DecisionTypeOK'
  <2>1. decision' \in [Decider -> DecisionState]  BY <1>1, <1>2, <1>3
  <2> QED  BY <2>1 DEF DecisionInv, DecisionTypeOK, DecisionState, DecisionPc, AskTool, Observed
<1>5. EvaluationInv(d) /\ decision'[d] = n  BY <1>1, <1>3 DEF DecisionInv
<1>6. EvaluationInv(d)'
  <2>1. SkuToolsStay(d)'  BY <1>2, <1>5 DEF EvaluationInv, SkuToolsStay, AskTool, Observed
  <2>2. DecidesOnAll(d)' /\ FlagsUnordered(d)'
    BY <1>2, <1>5 DEF DecidesOnAll, FlagsUnordered
  <2>3. SawTheTruth(d)'  BY <1>2, <1>5 DEF EvaluationInv, SawTheTruth, AskTool, Observed
  <2>4. ResultStands(d)'  BY <1>5 DEF EvaluationInv, ResultStands, AskTool, Deciding
  <2> QED  BY <2>1, <2>2, <2>3, <2>4 DEF EvaluationInv
<1>7. \A e \in Decider \ {d} : EvaluationInv(e)'
  BY <1>1, <1>3, OthersStill DEF AskTool, Observed
<1> QED  BY <1>4, <1>6, <1>7 DEF DecisionInv

\* An observation: for a SKU it is of the target; of no open order, if there is none.
LEMMA ToolAnswersInv ==
    ASSUME DecisionInv, NEW d \in Decider, ToolAnswers(d) PROVE DecisionInv'
<1> DEFINE t == decision[d].tool
           i == decision[d].about
           o == IF t = "po_status_check_tool" THEN HasOpenOrder(i) ELSE seenOpen[d]
<1>1. DecisionTypeOK /\ EvaluationInv(d)  BY DEF DecisionInv
<1>2. t \in Tool /\ i \in Item \cup {NoItem} /\ o \in BOOLEAN
  <2>1. t \in Tool /\ i \in Item \cup {NoItem}  BY <1>1, DecisionState1 DEF DecisionState
  <2>2. seenOpen[d] \in BOOLEAN  BY <1>1 DEF DecisionTypeOK
  <2>3. HasOpenOrder(i) \in BOOLEAN  BY DEF HasOpenOrder
  <2>4. o \in BOOLEAN  BY <2>2, <2>3
  <2> QED  BY <2>1, <2>4
<1>3. /\ decision' \in [Decider -> DecisionState]
      /\ \A e \in Decider \ {d} : decision'[e] = decision[e]
      /\ decision'[d].pc = "model" /\ decision'[d].mode = decision[d].mode
      /\ decision'[d].target = decision[d].target
  BY <1>1, ProceedType DEF ToolAnswers, DecisionPc
<1>4. /\ seen' = [seen EXCEPT ![d][t] = i] /\ seenOpen' = [seenOpen EXCEPT ![d] = o]
      /\ decision[d].pc = "tool"
      /\ UNCHANGED <<onOrder, todo, result, unordered>>
  BY DEF ToolAnswers, Deciding
<1>5. seen'[d] = [seen[d] EXCEPT ![t] = i] /\ seenOpen'[d] = o
  BY <1>1, <1>4 DEF DecisionTypeOK
<1>6. seen \in [Decider -> [Tool -> Item \cup {NoItem}]]  BY <1>1 DEF DecisionTypeOK
<1>7. SkuToolsStay(d) => (decision[d].mode = "sku" => i = decision[d].target)
  BY <1>4 DEF SkuToolsStay
<1>11. i \in Item /\ ~HasOpenOrder(i) /\ i = decision[d].target => unordered[d]
  BY <1>1 DEF EvaluationInv, SawTheTruth, HasOpenOrder
<1> HIDE DEF t, i
<1>8. DecisionTypeOK'
  <2>1. seen' \in [Decider -> [Tool -> Item \cup {NoItem}]]  BY <1>2, <1>4, <1>6
  <2>2. seenOpen' \in [Decider -> BOOLEAN]  BY <1>1, <1>2, <1>4 DEF DecisionTypeOK
  <2> QED  BY <1>1, <1>3, <1>4, <2>1, <2>2 DEF DecisionTypeOK, DecisionState, DecisionPc
<1>9. EvaluationInv(d)'
  <2>1. SkuToolsStay(d)'
    BY <1>1, <1>2, <1>3, <1>5, <1>6, <1>7 DEF EvaluationInv, SkuToolsStay
  <2>2. DecidesOnAll(d)' /\ FlagsUnordered(d)'  BY <1>3 DEF DecidesOnAll, FlagsUnordered
  <2>3. SawTheTruth(d)'
    <3>1. CASE t = "po_status_check_tool"
      <4>1. seen'[d]["po_status_check_tool"] = i  BY <1>2, <1>5, <1>6, <3>1
      <4>2. seenOpen'[d] = HasOpenOrder(i)  BY <1>5, <3>1
      <4> QED  BY <1>1, <1>3, <1>4, <1>11, <4>1, <4>2 DEF EvaluationInv, SawTheTruth
    <3>2. CASE t # "po_status_check_tool"
      <4>1. seen'[d]["po_status_check_tool"] = seen[d]["po_status_check_tool"]
        BY <1>5, <1>6, <3>2 DEF Tool
      <4>2. seenOpen'[d] = seenOpen[d]  BY <1>5, <3>2
      <4> QED  BY <1>1, <1>3, <1>4, <4>1, <4>2 DEF EvaluationInv, SawTheTruth
    <3> QED  BY <3>1, <3>2
  <2>4. ResultStands(d)'  BY <1>1, <1>4 DEF EvaluationInv, ResultStands
  <2> QED  BY <2>1, <2>2, <2>3, <2>4 DEF EvaluationInv
<1>10. \A e \in Decider \ {d} : EvaluationInv(e)'
  <2> SUFFICES ASSUME NEW e \in Decider \ {d} PROVE EvaluationInv(e)'  OBVIOUS
  <2>1. seen'[e] = seen[e] /\ seenOpen'[e] = seenOpen[e]  BY <1>1, <1>4 DEF DecisionTypeOK
  <2> QED  BY <1>3, <1>4, <2>1, OthersStill
<1> QED  BY <1>8, <1>9, <1>10 DEF DecisionInv

LEMMA TodoType ==
    ASSUME DecisionInv, NEW d \in Decider
    PROVE  todo \in [Decider -> SUBSET Item] /\ [todo EXCEPT ![d] = {}] \in [Decider -> SUBSET Item]
BY DEF DecisionInv, DecisionTypeOK

LEMMA ToolFailsInv ==
    ASSUME DecisionInv, NEW d \in Decider, ToolFails(d) PROVE DecisionInv'
<1>1. decision[d].pc = "tool" /\ UNCHANGED <<onOrder, result, unordered, Observed>>
  BY DEF ToolFails, Deciding
<1>2. ASSUME decision[d].tries < tool_retries,
             decision' = [decision EXCEPT ![d].tries = @ + 1], UNCHANGED todo
      PROVE  DecisionInv'
  <2> DEFINE n == [decision[d] EXCEPT !.tries = @ + 1]
  <2>1. decision \in [Decider -> DecisionState]
    BY DEF DecisionInv, DecisionTypeOK, DecisionState, DecisionPc
  <2>2. n \in DecisionState
    <3>1. decision[d].tries + 1 \in 0..tool_retries
      BY <1>2, <2>1, DecisionAssumption DEF DecisionState
    <3> QED  BY <2>1, <3>1 DEF DecisionState
  <2>3. /\ n.pc = decision[d].pc /\ n.mode = decision[d].mode /\ n.target = decision[d].target
        /\ n.about = decision[d].about
    BY <2>1 DEF DecisionState
  <2>4. decision' = [decision EXCEPT ![d] = n]  BY <1>2, <2>1 DEF DecisionState
  <2> HIDE DEF n
  <2>5. DecisionTypeOK'
    <3>1. decision' \in [Decider -> DecisionState]  BY <2>1, <2>2, <2>4
    <3> QED
      BY <1>1, <1>2, <3>1 DEF DecisionInv, DecisionTypeOK, DecisionState, DecisionPc, Observed
  <2>6. EvaluationInv(d)'
    BY <1>1, <2>1, <2>3, <2>4
       DEF DecisionInv, EvaluationInv, SkuToolsStay, DecidesOnAll, FlagsUnordered, SawTheTruth,
           ResultStands, SkuOf, Observed
  <2>7. \A e \in Decider \ {d} : EvaluationInv(e)'
    BY <1>1, <2>1, <2>4, OthersStill DEF Observed
  <2> QED  BY <2>5, <2>6, <2>7 DEF DecisionInv
<1>3. ASSUME Proceed(d, "model"), UNCHANGED todo PROVE DecisionInv'
  BY <1>1, <1>3, ProceedInv, TodoType DEF DecisionPc
<1>4. ASSUME Proceed(d, "failed"), todo' = [todo EXCEPT ![d] = {}] PROVE DecisionInv'
  BY <1>1, <1>4, ProceedInv, TodoType DEF DecisionPc
<1> QED  BY <1>2, <1>3, <1>4 DEF ToolFails

LEMMA PersistInv ==
    ASSUME DecisionInv, NEW d \in Decider, PersistReorderFlag(d) PROVE DecisionInv'
<1>1. decision[d].pc = "flag" /\ UNCHANGED <<onOrder, unordered, Observed>>
  BY DEF PersistReorderFlag, Deciding
<1>2. ASSUME Proceed(d, "done"), UNCHANGED todo, result' = [result EXCEPT ![d] = SkuOf(d)]
      PROVE  DecisionInv'
  <2>1. DecisionTypeOK /\ EvaluationInv(d)  BY DEF DecisionInv
  <2>2. /\ decision' \in [Decider -> DecisionState]
        /\ \A e \in Decider \ {d} : decision'[e] = decision[e]
        /\ decision'[d].pc = "done" /\ decision'[d].mode = decision[d].mode
        /\ decision'[d].target = decision[d].target
    BY <1>2, <2>1, ProceedType DEF DecisionPc
  <2>3. SkuOf(d) \in Item \cup {NoItem}
    BY <2>1, DecisionState1 DEF SkuOf, DecisionState, DecisionTypeOK, Tool
  <2>4. DecisionTypeOK'
    BY <1>1, <1>2, <2>1, <2>2, <2>3 DEF DecisionTypeOK, DecisionState, DecisionPc, Observed
  <2>5. EvaluationInv(d)'
    <3>1. SkuToolsStay(d)' /\ DecidesOnAll(d)' /\ FlagsUnordered(d)' /\ SawTheTruth(d)'
      BY <1>1, <2>1, <2>2
         DEF EvaluationInv, SkuToolsStay, DecidesOnAll, FlagsUnordered, SawTheTruth, Observed
    <3>2. result'[d] = SkuOf(d)  BY <1>2, <2>1 DEF DecisionTypeOK
    <3>3. ResultStands(d)'
      BY <1>1, <2>1, <2>2, <3>2
         DEF EvaluationInv, DecidesOnAll, FlagsUnordered, ResultStands, SkuOf, Observed
    <3> QED  BY <3>1, <3>3 DEF EvaluationInv
  <2>6. \A e \in Decider \ {d} : EvaluationInv(e)'
    BY <1>1, <1>2, <2>1, <2>2, OthersStill DEF Observed, DecisionTypeOK
  <2> QED  BY <2>4, <2>5, <2>6 DEF DecisionInv
<1>3. ASSUME Proceed(d, "failed"), todo' = [todo EXCEPT ![d] = {}], UNCHANGED result
      PROVE  DecisionInv'
  BY <1>1, <1>3, ProceedInv, TodoType DEF DecisionPc
<1> QED  BY <1>2, <1>3 DEF PersistReorderFlag

-----------------------------------------------------------------------------
\* Orders open and close under an evaluation; what it has seen keeps being true of a moment.
LEMMA OrdersInv ==
    ASSUME DecisionInv, NEW i \in Item, OpenOrder(i) \/ CloseOrder(i) PROVE DecisionInv'
<1>1. DecisionTypeOK'  BY DEF DecisionInv, DecisionTypeOK, OpenOrder, CloseOrder, Observed
<1>2. ASSUME NEW d \in Decider PROVE EvaluationInv(d)'
  <2>1. EvaluationInv(d) /\ UNCHANGED <<decision, seen, seenOpen, result>>
    BY DEF DecisionInv, OpenOrder, CloseOrder, Observed
  <2>2. SkuToolsStay(d)' /\ DecidesOnAll(d)' /\ FlagsUnordered(d)' /\ ResultStands(d)'
    BY <2>1 DEF EvaluationInv, SkuToolsStay, DecidesOnAll, FlagsUnordered, ResultStands, SkuOf
  <2>3. unordered[d] => unordered'[d]  BY DEF DecisionInv, DecisionTypeOK, OpenOrder, CloseOrder
  <2>4. decision[d].target \in Item \ onOrder' => unordered'[d]
    BY <2>1, <2>3 DEF EvaluationInv, SawTheTruth, OpenOrder, CloseOrder
  <2>5. SawTheTruth(d)'  BY <2>1, <2>3, <2>4 DEF EvaluationInv, SawTheTruth
  <2> QED  BY <2>2, <2>5 DEF EvaluationInv
<1> QED  BY <1>1, <1>2 DEF DecisionInv

LEMMA RunInv ==
    ASSUME DecisionInv, NEW d \in Decider, NEW items \in SUBSET Item, Run(d, items)
    PROVE  DecisionInv'
BY DEF Run, Observed, DecisionInv, DecisionTypeOK, EvaluationInv, SkuToolsStay, DecidesOnAll,
       FlagsUnordered, SawTheTruth, ResultStands, SkuOf

LEMMA DecisionStep == DecisionInv /\ [DecisionNext]_decisionVars => DecisionInv'
<1> SUFFICES ASSUME DecisionInv, [DecisionNext]_decisionVars PROVE DecisionInv'
  OBVIOUS
<1>1. ASSUME NEW d \in Decider, NEW i \in Item, EvaluateSku(d, i) PROVE DecisionInv'
  BY <1>1, BeginInv, TodoType DEF EvaluateSku
<1>2. ASSUME NEW d \in Decider, NEW i \in Item, EvaluateProduct(d, i) PROVE DecisionInv'
  <2>1. todo' \in [Decider -> SUBSET Item]
    BY <1>2 DEF EvaluateProduct, DecisionInv, DecisionTypeOK
  <2> QED  BY <1>2, <2>1, BeginInv DEF EvaluateProduct
<1>3. ASSUME NEW d \in Decider, NEW items \in SUBSET Item, Run(d, items) PROVE DecisionInv'
  BY <1>3, RunInv
<1>4. ASSUME NEW d \in Decider, NEW t \in Tool, CallSkuTool(d, t) PROVE DecisionInv'
  <2>1. decision[d].target \in Item \cup {NoItem}
    BY DecisionState1 DEF DecisionState, DecisionInv
  <2> QED  BY <1>4, <2>1, AskToolInv DEF CallSkuTool
<1>5. ASSUME NEW d \in Decider, NEW t \in Tool, NEW i \in Item, CallProductTool(d, t, i)
      PROVE  DecisionInv'
  BY <1>5, AskToolInv DEF CallProductTool
<1>6. ASSUME NEW d \in Decider, ToolAnswers(d) PROVE DecisionInv'  BY <1>6, ToolAnswersInv
<1>7. ASSUME NEW d \in Decider, ToolFails(d) PROVE DecisionInv'  BY <1>7, ToolFailsInv
<1>8. ASSUME NEW d \in Decider, ModelStops(d) PROVE DecisionInv'
  BY <1>8, ProceedInv, TodoType DEF ModelStops, Deciding, DecisionPc
<1>9. ASSUME NEW d \in Decider, ModelRaises(d) PROVE DecisionInv'
  BY <1>9, ProceedInv, TodoType DEF ModelRaises, Deciding, DecisionPc
<1>10. ASSUME NEW d \in Decider, Decide(d) PROVE DecisionInv'
  <2>1. \A t \in Tool : seen[d][t] # NoItem
    BY <1>10 DEF Decide, Deciding, DecisionInv, EvaluationInv, DecidesOnAll
  <2> QED  BY <1>10, <2>1, ProceedInv, TodoType DEF Decide, Deciding, DecisionPc
<1>11. ASSUME NEW d \in Decider, Reason(d) PROVE DecisionInv'
  <2>1. ~seenOpen[d] /\ \A t \in Tool : seen[d][t] # NoItem
    BY <1>11 DEF Reason, Deciding, DecisionInv, EvaluationInv, DecidesOnAll, FlagsUnordered
  <2> QED  BY <1>11, <2>1, ProceedInv, TodoType DEF Reason, Deciding, DecisionPc
<1>12. ASSUME NEW d \in Decider, PersistReorderFlag(d) PROVE DecisionInv'  BY <1>12, PersistInv
<1>13. ASSUME NEW i \in Item, OpenOrder(i) \/ CloseOrder(i) PROVE DecisionInv'
  BY <1>13, OrdersInv
<1>14. CASE UNCHANGED decisionVars
  BY <1>14 DEF decisionVars, DecisionInv, DecisionTypeOK, EvaluationInv, SkuToolsStay,
               DecidesOnAll, FlagsUnordered, SawTheTruth, ResultStands, SkuOf
<1> QED
  BY <1>1, <1>2, <1>3, <1>4, <1>5, <1>6, <1>7, <1>8, <1>9, <1>10, <1>11, <1>12, <1>13, <1>14
     DEF DecisionNext

\* A flag is worth what was seen.
LEMMA DecisionInvSuffices == DecisionInv => FlagIsAboutItsTarget
<1> SUFFICES ASSUME DecisionInv, NEW d \in Decider, result[d] # NoItem, ~Astray(d)
             PROVE  result[d] = decision[d].target /\ unordered[d]
  BY DEF FlagIsAboutItsTarget
<1>1. EvaluationInv(d) /\ decision[d] \in DecisionState
  BY DecisionState1 DEF DecisionInv
<1>2. \A t \in Tool : seen[d][t] = decision[d].target
  BY <1>1 DEF EvaluationInv, ResultStands, SkuToolsStay, Astray, DecisionState
<1>3. \A t \in Tool : seen[d][t] # NoItem /\ ~seenOpen[d]
  BY <1>1 DEF EvaluationInv, ResultStands
<1>4. result[d] = decision[d].target
  BY <1>1, <1>2 DEF EvaluationInv, ResultStands, SkuOf, Tool
<1>5. decision[d].target \in Item
  BY <1>1, <1>2, <1>3 DEF DecisionState, Tool
<1>6. unordered[d]
  BY <1>1, <1>2, <1>3, <1>5 DEF EvaluationInv, SawTheTruth, Tool
<1> QED  BY <1>4, <1>6

\* Whatever the model asks, an evaluation flags only what it was to evaluate, and nothing that
\* was on order all the while; evaluate_product unless the model led it astray.
THEOREM FlagsAreAboutTheirTargets == DecisionSpec => []FlagIsAboutItsTarget
BY DecisionInvSuffices, DecisionInitInv, DecisionStep, PTL DEF DecisionSpec

-----------------------------------------------------------------------------
(* Chat.                                                                   *)

TurnPc == {"idle", "asked", "loaded", "streaming", "titling", "ended", "failed"}

\* The stream that is read is the one whose abort the browser holds.
ReadsCurrent(a) == turn[a].reader \in {"open", "retrying"} => ui.current = a

\* What was stored of an answer that is whole, or was left, is what was sent, unless the
\* database refused it.
Stored(a) ==
    /\ a \notin unsaved
    /\ turn[a].pc \in {"titling", "ended"} /\ turn[a].row > 0 /\ ~turn[a].plain /\ turn[a].shown > 1
    => turn[a].row = turn[a].shown

\* A question that was not asked has no message; a stream loses its message only with the
\* conversation.
RowsBelong(a) ==
    /\ turn[a].pc = "idle" => turn[a].row = 0
    /\ turn[a].pc = "streaming" /\ turn[a].placeholder /\ conversation.exists => turn[a].row > 0

TurnInv(a) == ReadsCurrent(a) /\ Stored(a) /\ RowsBelong(a)

\* A conversation that was renamed between two turns has a message of a turn that is over,
\* and no turn will give it a title.
AnAnswer == \E b \in Turn : turn[b].pc \in {"ended", "failed"} /\ turn[b].row > 0
NameIsSafe ==
    settledName =>
        /\ conversation.title = "user"
        /\ conversation.exists =>
              /\ AnAnswer
              /\ \A a \in Turn : turn[a].pc \in {"loaded", "titling"} => ~turn[a].new

ConversationInv ==
    /\ ChatTypeOK /\ IsFiniteSet(Rows(turn)) /\ NameIsSafe
    /\ \A a \in Turn : TurnInv(a)

LEMMA ConversationInvSuffices == ConversationInv => ChatInv
<1> SUFFICES ASSUME ConversationInv PROVE ChatInv  OBVIOUS
<1>1. OneLiveStream
  <2>1. Reading \subseteq {ui.current}  BY DEF ConversationInv, TurnInv, ReadsCurrent, Reading
  <2>2. IsFiniteSet({ui.current}) /\ Cardinality({ui.current}) = 1  BY FS_Singleton
  <2>3. IsFiniteSet(Reading) /\ Cardinality(Reading) <= Cardinality({ui.current})
    BY <2>1, <2>2, FS_Subset
  <2> QED  BY <2>2, <2>3 DEF OneLiveStream
<1>2. SeenIsStored  BY DEF ConversationInv, TurnInv, Stored, SeenIsStored
<1>3. NameStands  BY DEF ConversationInv, NameIsSafe, NameStands
<1> QED  BY <1>1, <1>2, <1>3 DEF ChatInv

LEMMA ChatInitInv == ChatInit => ConversationInv
<1> SUFFICES ASSUME ChatInit PROVE ConversationInv  OBVIOUS
<1>1. NoAnswer \in TurnState  BY DEF NoAnswer, TurnState, Whole
<1>2. ChatTypeOK  BY <1>1 DEF ChatInit, ChatTypeOK
<1>3. \A a \in Turn : turn[a].pc = "idle" /\ turn[a].row = 0 /\ turn[a].reader = "none"
  BY DEF ChatInit, NoAnswer
<1>4. Rows(turn) = {}  BY <1>3 DEF Rows
<1>5. IsFiniteSet(Rows(turn))  BY <1>4, FS_EmptySet
<1>6. ~settledName  BY DEF ChatInit
<1> QED  BY <1>2, <1>3, <1>5, <1>6 DEF ConversationInv, TurnInv, ReadsCurrent, Stored, RowsBelong, NameIsSafe

\* A step of one turn alone, on the server, that keeps its reader.
LEMMA ServerMoves ==
    ASSUME ConversationInv, UNCHANGED <<conversation, ui, settledName>>,
           NEW a \in Turn, NEW next \in TurnState, turn' = [turn EXCEPT ![a] = next],
           next.reader = turn[a].reader,
           turn[a].pc \notin {"ended", "failed"},
           unsaved' \in SUBSET Turn, unsaved \subseteq unsaved',
           next.pc \in {"titling", "ended"} /\ next.row > 0 /\ ~next.plain /\ next.shown > 1
               => next.row = next.shown \/ a \in unsaved',
           next.pc = "idle" => next.row = 0,
           next.pc = "streaming" /\ next.placeholder /\ conversation.exists => next.row > 0,
           settledName /\ conversation.exists /\ next.pc \in {"loaded", "titling"} => ~next.new
    PROVE  ConversationInv'
<1>1. turn \in [Turn -> TurnState]  BY DEF ConversationInv, ChatTypeOK
<1>2. turn' \in [Turn -> TurnState] /\ \A b \in Turn : turn'[b] = IF b = a THEN next ELSE turn[b]
  BY <1>1
<1>3. ChatTypeOK'  BY <1>2 DEF ConversationInv, ChatTypeOK
<1>4. IsFiniteSet(Rows(turn)')
  <2>1. Rows(turn)' \subseteq Rows(turn) \cup {a}  BY <1>2 DEF Rows
  <2>2. IsFiniteSet(Rows(turn) \cup {a})  BY FS_AddElement DEF ConversationInv
  <2> QED  BY <2>1, <2>2, FS_Subset
<1>5. \A b \in Turn : TurnInv(b)'
  BY <1>2 DEF ConversationInv, TurnInv, ReadsCurrent, Stored, RowsBelong
<1>6. NameIsSafe'
  <2>1. AnAnswer => AnAnswer'  BY <1>2 DEF AnAnswer
  <2> QED  BY <1>2, <2>1 DEF ConversationInv, NameIsSafe
<1> QED  BY <1>3, <1>4, <1>5, <1>6 DEF ConversationInv

LEMMA AskInv == ASSUME ConversationInv, NEW a \in Turn, Ask(a) PROVE ConversationInv'
<1> DEFINE next == [turn[a] EXCEPT !.pc = "asked", !.plain = TRUE]
<1>1. turn[a] \in TurnState  BY DEF ConversationInv, ChatTypeOK
<1>2. next \in TurnState /\ next.pc = "asked" /\ next.reader = turn[a].reader
  BY <1>1 DEF TurnState
<1>3. turn' = [turn EXCEPT ![a] = next] /\ turn[a].pc = "idle"  BY DEF Ask
<1>4. UNCHANGED <<conversation, ui, settledName, unsaved>> /\ unsaved \in SUBSET Turn
  BY DEF ConversationInv, ChatTypeOK, Ask
<1> HIDE DEF next
<1> QED  BY <1>2, <1>3, <1>4, ServerMoves

LEMMA LoadConversationInv ==
    ASSUME ConversationInv, NEW a \in Turn, LoadConversation(a) PROVE ConversationInv'
<1>1. turn[a] \in TurnState  BY DEF ConversationInv, ChatTypeOK
<1>2. PICK first \in IF turn[a].plain THEN IsNew ELSE {FALSE} :
        turn' = [turn EXCEPT ![a].pc = IF conversation.exists THEN "loaded" ELSE "failed",
                             ![a].new = first]
  BY DEF LoadConversation
<1> DEFINE next == [turn[a] EXCEPT !.pc = IF conversation.exists THEN "loaded" ELSE "failed",
                                   !.new = first]
<1>3. turn' = [turn EXCEPT ![a] = next] /\ turn[a].pc = "asked"  BY <1>2 DEF LoadConversation
<1>4. first \in BOOLEAN  BY DEF IsNew
<1>5. settledName /\ conversation.exists => ~first
  <2> SUFFICES ASSUME settledName, conversation.exists PROVE ~first  OBVIOUS
  <2>1. Rows(turn) # {}  BY DEF ConversationInv, NameIsSafe, AnAnswer, Rows
  <2> QED  BY <2>1 DEF IsNew
<1>6. UNCHANGED <<conversation, ui, settledName, unsaved>> /\ unsaved \in SUBSET Turn
  BY DEF ConversationInv, ChatTypeOK, LoadConversation
<1>7. next \in TurnState /\ next.pc \in {"loaded", "failed"} /\ next.new = first
      /\ next.reader = turn[a].reader
  BY <1>1, <1>4 DEF TurnState
<1> HIDE DEF next
<1> QED  BY <1>3, <1>5, <1>6, <1>7, ServerMoves

LEMMA CreatePlaceholderInv ==
    ASSUME ConversationInv, NEW a \in Turn, CreatePlaceholder(a) PROVE ConversationInv'
<1>1. turn[a] \in TurnState  BY DEF ConversationInv, ChatTypeOK
<1>2. PICK row \in {0, 1} :
        turn' = [turn EXCEPT ![a].pc = "streaming", ![a].placeholder = (row = 1), ![a].row = row]
  BY DEF CreatePlaceholder
<1> DEFINE there == row = 1
           next == [turn[a] EXCEPT !.pc = "streaming", !.placeholder = there, !.row = row]
<1>3. turn' = [turn EXCEPT ![a] = next] /\ turn[a].pc = "loaded"
  BY <1>2 DEF CreatePlaceholder
<1>4. UNCHANGED <<conversation, ui, settledName, unsaved>> /\ unsaved \in SUBSET Turn
  BY DEF ConversationInv, ChatTypeOK, CreatePlaceholder
<1>5. row \in 0..Whole /\ there \in BOOLEAN /\ (there => row > 0)  BY <1>2 DEF Whole
<1> HIDE DEF there
<1>6. /\ next \in TurnState /\ next.pc = "streaming" /\ next.reader = turn[a].reader
      /\ next.row = row /\ next.placeholder = there
  BY <1>1, <1>5 DEF TurnState
<1> HIDE DEF next
<1> QED  BY <1>3, <1>4, <1>5, <1>6, ServerMoves

LEMMA StreamTokenInv ==
    ASSUME ConversationInv, NEW a \in Turn, StreamToken(a) PROVE ConversationInv'
<1> DEFINE text == turn[a].shown + 1
<1>1. turn[a] \in TurnState  BY DEF ConversationInv, ChatTypeOK
<1>2. turn[a].pc = "streaming" /\ text \in 1..Whole
  BY <1>1 DEF StreamToken, TurnState, Whole
<1>3. PICK row \in {turn[a].row, Flushed(a, text)} :
        turn' = [turn EXCEPT ![a].shown = text, ![a].row = row]
  BY DEF StreamToken
<1>4. UNCHANGED <<conversation, ui, settledName, unsaved>> /\ unsaved \in SUBSET Turn
  BY DEF ConversationInv, ChatTypeOK, StreamToken
<1> HIDE DEF text
<1>5. row \in 0..Whole /\ (turn[a].row > 0 => row > 0)
  BY <1>1, <1>2 DEF Flushed, TurnState, Whole
<1> DEFINE next == [turn[a] EXCEPT !.shown = text, !.row = row]
<1>6. next \in TurnState /\ next.pc = "streaming" /\ next.reader = turn[a].reader
      /\ next.placeholder = turn[a].placeholder /\ next.row = row
  BY <1>1, <1>2, <1>5 DEF TurnState
<1>7. turn' = [turn EXCEPT ![a] = next]  BY <1>3
<1>8. next.placeholder /\ conversation.exists => next.row > 0
  BY <1>2, <1>5, <1>6 DEF ConversationInv, TurnInv, RowsBelong
<1> HIDE DEF next
<1> QED  BY <1>2, <1>4, <1>6, <1>7, <1>8, ServerMoves

\* The last write of an answer: what it leaves in the row, or that it was refused.
LEMMA LastWrite ==
    ASSUME ConversationInv, NEW a \in Turn, NEW row, Flushes(a, row)
    PROVE  /\ row \in 0..Whole /\ (turn[a].row > 0 => row > 0)
           /\ row > 0 => row = turn[a].shown \/ a \in unsaved'
           /\ unsaved' \in SUBSET Turn /\ unsaved \subseteq unsaved'
<1>1. turn[a] \in TurnState /\ unsaved \in SUBSET Turn  BY DEF ConversationInv, ChatTypeOK
<1>2. turn[a].row \in 0..Whole /\ turn[a].shown \in 1..Whole /\ Whole = 3
  BY <1>1 DEF TurnState, Whole
<1>3. CASE row = Flushed(a, turn[a].shown) /\ UNCHANGED unsaved
  BY <1>1, <1>2, <1>3 DEF Flushed
<1>4. CASE row = turn[a].row /\ unsaved' = unsaved \cup {a}  BY <1>1, <1>2, <1>4
<1> QED  BY <1>3, <1>4 DEF Flushes

LEMMA DisconnectInv ==
    ASSUME ConversationInv, NEW a \in Turn, Disconnect(a) PROVE ConversationInv'
<1>1. turn[a] \in TurnState /\ unsaved \in SUBSET Turn  BY DEF ConversationInv, ChatTypeOK
<1>2. PICK row \in 0..Whole :
        /\ IF turn[a].shown > 1 THEN Flushes(a, row) ELSE row = turn[a].row /\ UNCHANGED unsaved
        /\ turn' = [turn EXCEPT ![a].pc = "ended", ![a].row = row]
  BY DEF Disconnect
<1> DEFINE next == [turn[a] EXCEPT !.pc = "ended", !.row = row]
<1>3. turn' = [turn EXCEPT ![a] = next] /\ turn[a].pc = "streaming"  BY <1>2 DEF Disconnect
<1>4. UNCHANGED <<conversation, ui, settledName>>  BY DEF Disconnect
<1>5. /\ unsaved' \in SUBSET Turn /\ unsaved \subseteq unsaved'
      /\ turn[a].shown > 1 /\ row > 0 => row = turn[a].shown \/ a \in unsaved'
  BY <1>1, <1>2, LastWrite
<1>6. next \in TurnState /\ next.pc = "ended" /\ next.reader = turn[a].reader
      /\ next.row = row /\ next.shown = turn[a].shown
  BY <1>1, <1>2 DEF TurnState
<1> HIDE DEF next
<1> QED  BY <1>3, <1>4, <1>5, <1>6, ServerMoves

LEMMA BreakInv == ASSUME ConversationInv, NEW a \in Turn, Break(a) PROVE ConversationInv'
<1> DEFINE next == [turn[a] EXCEPT !.pc = "failed"]
<1>1. turn[a] \in TurnState  BY DEF ConversationInv, ChatTypeOK
<1>2. next \in TurnState /\ next.pc = "failed" /\ next.reader = turn[a].reader
  BY <1>1 DEF TurnState
<1>3. turn' = [turn EXCEPT ![a] = next] /\ turn[a].pc \in {"streaming", "loaded"}  BY DEF Break
<1>4. UNCHANGED <<conversation, ui, settledName, unsaved>> /\ unsaved \in SUBSET Turn
  BY DEF ConversationInv, ChatTypeOK, Break
<1> HIDE DEF next
<1> QED  BY <1>2, <1>3, <1>4, ServerMoves

LEMMA FinishEmptyInv ==
    ASSUME ConversationInv, NEW a \in Turn, FinishEmpty(a) PROVE ConversationInv'
<1> DEFINE next == [turn[a] EXCEPT !.pc = "ended"]
<1>1. turn[a] \in TurnState /\ unsaved \in SUBSET Turn  BY DEF ConversationInv, ChatTypeOK
<1>2. next \in TurnState /\ next.pc = "ended" /\ next.reader = turn[a].reader
      /\ next.shown = turn[a].shown
  BY <1>1 DEF TurnState
<1>3. /\ turn' = [turn EXCEPT ![a] = next] /\ turn[a].pc = "streaming" /\ turn[a].shown = 1
      /\ UNCHANGED <<conversation, ui, settledName, unsaved>>
  BY DEF FinishEmpty
<1> HIDE DEF next
<1>4. ~(next.shown > 1)  BY <1>2, <1>3
<1> QED  BY <1>1, <1>2, <1>3, <1>4, ServerMoves

\* An answer that is written when the conversation was answered before is not the first.
LEMMA NotTheFirst ==
    ASSUME ConversationInv, NEW a \in Turn, turn[a].pc = "streaming", NEW row \in 0..Whole,
           conversation.exists => row > 0
    PROVE  settledName /\ conversation.exists =>
               Cardinality(Rows([turn EXCEPT ![a].row = row])) # 1
<1> DEFINE rows == [turn EXCEPT ![a].row = row]
<1> SUFFICES ASSUME settledName, conversation.exists PROVE Cardinality(Rows(rows)) # 1  OBVIOUS
<1>1. turn \in [Turn -> TurnState]  BY DEF ConversationInv, ChatTypeOK
<1>2. PICK b \in Turn : turn[b].pc \in {"ended", "failed"} /\ turn[b].row > 0
  BY DEF ConversationInv, NameIsSafe, AnAnswer
<1>3. a # b  BY <1>2
<1>4. \A c \in Turn : rows[c].row = IF c = a THEN row ELSE turn[c].row  BY <1>1 DEF TurnState
<1> HIDE DEF rows
<1>5. a \in Rows(rows) /\ b \in Rows(rows)  BY <1>2, <1>3, <1>4 DEF Rows
<1>6. Rows(rows) \subseteq Rows(turn) \cup {a}  BY <1>4 DEF Rows
<1>7. IsFiniteSet(Rows(rows))
  <2>1. IsFiniteSet(Rows(turn) \cup {a})  BY FS_AddElement DEF ConversationInv
  <2> QED  BY <1>6, <2>1, FS_Subset
<1>8. ~\E c : Rows(rows) = {c}  BY <1>3, <1>5
<1> QED  BY <1>7, <1>8, FS_Singleton

LEMMA FinalizeInv == ASSUME ConversationInv, NEW a \in Turn, Finalize(a) PROVE ConversationInv'
<1>1. turn[a] \in TurnState /\ turn \in [Turn -> TurnState] /\ unsaved \in SUBSET Turn
  BY DEF ConversationInv, ChatTypeOK
<1>2. /\ turn[a].pc = "streaming" /\ turn[a].shown > 1
      /\ UNCHANGED <<conversation, ui, settledName>>
  BY DEF Finalize
<1>3. CASE turn' = [turn EXCEPT ![a].pc = "failed"] /\ UNCHANGED unsaved
  <2> DEFINE next == [turn[a] EXCEPT !.pc = "failed"]
  <2>1. next \in TurnState /\ next.pc = "failed" /\ next.reader = turn[a].reader
    BY <1>1 DEF TurnState
  <2>2. turn' = [turn EXCEPT ![a] = next]  BY <1>3
  <2> HIDE DEF next
  <2> QED  BY <1>1, <1>2, <1>3, <2>1, <2>2, ServerMoves
<1>4. ASSUME NEW row \in 0..Whole,
             IF turn[a].placeholder THEN Flushes(a, row) ELSE SaveAnswer(a, row),
             LET rows == [turn EXCEPT ![a].row = row] IN
             turn' = [rows EXCEPT ![a].pc = "titling", ![a].new = Cardinality(Rows(rows)) = 1]
      PROVE  ConversationInv'
  <2> DEFINE first == Cardinality(Rows([turn EXCEPT ![a].row = row])) = 1
             whole == [turn[a] EXCEPT !.row = row, !.pc = "titling", !.new = first]
  <2>1. first \in BOOLEAN  OBVIOUS
  <2>2. turn[a].shown \in 1..Whole /\ turn[a].row \in 0..Whole  BY <1>1 DEF TurnState
  <2>3. /\ row > 0 => row = turn[a].shown \/ a \in unsaved'
        /\ unsaved' \in SUBSET Turn /\ unsaved \subseteq unsaved'
    <3>1. CASE turn[a].placeholder  BY <1>4, <3>1, LastWrite
    <3>2. CASE ~turn[a].placeholder  BY <1>1, <1>4, <3>2 DEF SaveAnswer
    <3> QED  BY <3>1, <3>2
  <2>4. conversation.exists => row > 0
    <3>1. CASE turn[a].placeholder
      <4>1. conversation.exists => turn[a].row > 0
        BY <1>2, <3>1 DEF ConversationInv, TurnInv, RowsBelong
      <4> QED  BY <1>4, <3>1, <4>1, LastWrite
    <3>2. CASE ~turn[a].placeholder  BY <1>2, <1>4, <2>2, <3>2 DEF SaveAnswer
    <3> QED  BY <3>1, <3>2
  <2>5. settledName /\ conversation.exists => ~first  BY <1>2, <2>4, NotTheFirst
  <2>6. turn' = [turn EXCEPT ![a] = whole]
    <3> HIDE DEF first
    <3>1. turn' = [[turn EXCEPT ![a].row = row] EXCEPT ![a].pc = "titling", ![a].new = first]
      BY <1>4 DEF first
    <3> QED  BY <1>1, <3>1
  <2> HIDE DEF first
  <2>7. /\ whole \in TurnState /\ whole.pc = "titling" /\ whole.reader = turn[a].reader
        /\ whole.row = row /\ whole.new = first /\ whole.shown = turn[a].shown
    BY <1>1, <2>1 DEF TurnState
  <2> HIDE DEF whole
  <2> QED  BY <1>2, <2>3, <2>5, <2>6, <2>7, ServerMoves
<1> QED  BY <1>3, <1>4 DEF Finalize

LEMMA SaveMessagesInv ==
    ASSUME ConversationInv, NEW a \in Turn, SaveMessages(a) PROVE ConversationInv'
<1> DEFINE row == IF conversation.exists THEN Whole ELSE 0
           step == IF conversation.exists THEN "titling" ELSE "failed"
           next == [turn[a] EXCEPT !.pc = step, !.row = row]
<1>1. turn[a] \in TurnState  BY DEF ConversationInv, ChatTypeOK
<1>2. turn[a].pc = "loaded" /\ turn[a].plain /\ turn' = [turn EXCEPT ![a] = next]
      /\ UNCHANGED <<conversation, ui, settledName, unsaved>> /\ unsaved \in SUBSET Turn
  BY DEF ConversationInv, ChatTypeOK, SaveMessages
<1>3. row \in 0..Whole /\ step \in {"titling", "failed"}  BY DEF Whole
<1> HIDE DEF row, step
<1>4. /\ next \in TurnState /\ next.pc \in {"titling", "failed"} /\ next.reader = turn[a].reader
      /\ next.plain = turn[a].plain /\ next.new = turn[a].new
  BY <1>1, <1>3 DEF TurnState
<1>5. settledName /\ conversation.exists => ~next.new
  BY <1>2, <1>4 DEF ConversationInv, NameIsSafe
<1> HIDE DEF next
<1> QED  BY <1>2, <1>4, <1>5, ServerMoves

LEMMA AutoTitleInv == ASSUME ConversationInv, NEW a \in Turn, AutoTitle(a) PROVE ConversationInv'
<1> DEFINE next == [turn[a] EXCEPT !.pc = "ended", !.new = FALSE]
<1>1. turn \in [Turn -> TurnState] /\ conversation \in [exists: BOOLEAN, title: {"default", "auto", "user"}]
  BY DEF ConversationInv, ChatTypeOK
<1>2. turn[a].pc = "titling" /\ UNCHANGED <<ui, settledName, unsaved>> /\ turn' = [turn EXCEPT ![a] = next]
  BY DEF AutoTitle
<1>3. /\ next \in TurnState /\ next.pc = "ended" /\ next.reader = turn[a].reader
      /\ next.plain = turn[a].plain /\ next.row = turn[a].row /\ next.shown = turn[a].shown
  BY <1>1 DEF TurnState
<1> HIDE DEF next
<1>4. turn' \in [Turn -> TurnState] /\ \A b \in Turn : turn'[b] = IF b = a THEN next ELSE turn[b]
  BY <1>1, <1>2, <1>3
<1>5. /\ conversation' \in [exists: BOOLEAN, title: {"default", "auto", "user"}]
      /\ conversation'.exists = conversation.exists
      /\ (turn[a].new /\ conversation.exists) \/ conversation' = conversation
  BY <1>1 DEF AutoTitle
<1>6. ChatTypeOK'  BY <1>2, <1>4, <1>5 DEF ConversationInv, ChatTypeOK
<1>7. IsFiniteSet(Rows(turn)')
  <2>1. Rows(turn)' \subseteq Rows(turn)  BY <1>3, <1>4 DEF Rows
  <2> QED  BY <2>1, FS_Subset DEF ConversationInv
<1>8. ASSUME NEW b \in Turn PROVE TurnInv(b)'
  <2>1. TurnInv(b)  BY DEF ConversationInv
  <2> QED  BY <1>2, <1>3, <1>4, <1>5, <2>1 DEF TurnInv, ReadsCurrent, Stored, RowsBelong
<1>9. NameIsSafe'
  <2>1. AnAnswer => AnAnswer'  BY <1>3, <1>4 DEF AnAnswer
  <2>2. settledName /\ conversation.exists => ~turn[a].new
    BY <1>2 DEF ConversationInv, NameIsSafe
  <2> QED  BY <1>2, <1>3, <1>4, <1>5, <2>1, <2>2 DEF ConversationInv, NameIsSafe
<1> QED  BY <1>6, <1>7, <1>8, <1>9 DEF ConversationInv

-----------------------------------------------------------------------------
\* A turn is as it was but for its reader.
SameAnswer(new, old) ==
    /\ new.pc = old.pc /\ new.plain = old.plain /\ new.new = old.new
    /\ new.row = old.row /\ new.shown = old.shown /\ new.placeholder = old.placeholder

\* Steps of the browser touch readers only, but for the turn that is sent.
LEMMA BrowserSteps ==
    ASSUME ConversationInv, UNCHANGED <<conversation, settledName, unsaved>>,
           ui' \in [sending: BOOLEAN, loading: BOOLEAN, current: Turn \cup {NoTurn}, failed: BOOLEAN],
           turn' \in [Turn -> TurnState],
           \A a \in Turn : turn'[a].reader \in {"open", "retrying"} => ui'.current = a,
           \A a \in Turn :
               \/ SameAnswer(turn'[a], turn[a])
               \/ turn[a].pc = "idle" /\ turn'[a].pc = "asked" /\ turn'[a].row = 0
    PROVE  ConversationInv'
<1>1. ChatTypeOK'  BY DEF ConversationInv, ChatTypeOK
<1>2. IsFiniteSet(Rows(turn)')
  <2>1. Rows(turn)' \subseteq Rows(turn)  BY DEF Rows, SameAnswer
  <2> QED  BY <2>1, FS_Subset DEF ConversationInv
<1>3. ASSUME NEW a \in Turn PROVE TurnInv(a)'
  <2>1. TurnInv(a)  BY DEF ConversationInv
  <2>2. ReadsCurrent(a)'  BY DEF ReadsCurrent
  <2>3. CASE SameAnswer(turn'[a], turn[a])
    <3>1. Stored(a)'  BY <2>1, <2>3 DEF TurnInv, Stored, SameAnswer
    <3>2. RowsBelong(a)'  BY <2>1, <2>3 DEF TurnInv, RowsBelong, SameAnswer
    <3> QED  BY <2>2, <3>1, <3>2 DEF TurnInv
  <2>4. CASE turn[a].pc = "idle" /\ turn'[a].pc = "asked" /\ turn'[a].row = 0
    BY <2>2, <2>4 DEF TurnInv, Stored, RowsBelong
  <2> QED  BY <2>3, <2>4
<1>4. NameIsSafe'
  <2>1. AnAnswer => AnAnswer'  BY DEF AnAnswer, SameAnswer
  <2>2. \A a \in Turn : turn'[a].pc \in {"loaded", "titling"} =>
            turn[a].pc = turn'[a].pc /\ turn'[a].new = turn[a].new
    BY DEF SameAnswer
  <2> QED  BY <2>1, <2>2 DEF ConversationInv, NameIsSafe
<1> QED  BY <1>1, <1>2, <1>3, <1>4 DEF ConversationInv

\* Aborting leaves no stream of the browser's open, and everything else as it was.
LEMMA AbortingCloses ==
    ASSUME ConversationInv
    PROVE  /\ Aborting(turn) \in [Turn -> TurnState]
           /\ \A a \in Turn : /\ Aborting(turn)[a].reader \notin {"open", "retrying"}
                              /\ SameAnswer(Aborting(turn)[a], turn[a])
<1>1. \A a \in Turn : turn[a] \in TurnState  BY DEF ConversationInv, ChatTypeOK
<1>2. \A a \in Turn : turn[a].reader \in {"open", "retrying"} => ui.current = a
  BY DEF ConversationInv, TurnInv, ReadsCurrent
<1>3. \A a \in Turn :
        Aborting(turn)[a] = IF a = ui.current /\ turn[a].reader \in {"open", "retrying"}
                            THEN [turn[a] EXCEPT !.reader = "aborted"] ELSE turn[a]
  BY DEF Aborting
<1>4. \A a \in Turn : Aborting(turn)[a] \in TurnState  BY <1>1, <1>3 DEF TurnState
<1>5. Aborting(turn) \in [Turn -> TurnState]  BY <1>4 DEF Aborting
<1>6. \A a \in Turn : SameAnswer(Aborting(turn)[a], turn[a])
  BY <1>1, <1>3 DEF TurnState, SameAnswer
<1>7. \A a \in Turn : Aborting(turn)[a].reader \notin {"open", "retrying"}
  BY <1>1, <1>2, <1>3 DEF TurnState
<1> QED  BY <1>5, <1>6, <1>7

LEMMA NewTurn == NoAnswer \in TurnState /\ NoAnswer.row = 0
BY DEF NoAnswer, TurnState, Whole

LEMMA PostInv == ASSUME ConversationInv, NEW a \in Turn, Send(a) \/ Retry(a) PROVE ConversationInv'
<1>1. PICK how \in {"open", "retrying"} :
        turn' = [Aborting(turn) EXCEPT ![a] = [NoAnswer EXCEPT !.pc = "asked", !.reader = how]]
  BY DEF Send, Retry
<1> DEFINE asked == [NoAnswer EXCEPT !.pc = "asked", !.reader = how]
<1>2. asked \in TurnState /\ asked.pc = "asked" /\ asked.row = 0
  BY <1>1, NewTurn DEF TurnState
<1>3. turn' = [Aborting(turn) EXCEPT ![a] = asked]  BY <1>1
<1> HIDE DEF asked
<1>4. turn[a].pc = "idle" /\ UNCHANGED <<conversation, settledName, unsaved>>  BY DEF Send, Retry
<1>5. /\ ui' \in [sending: BOOLEAN, loading: BOOLEAN, current: Turn \cup {NoTurn}, failed: BOOLEAN]
      /\ ui'.current = a
  <2>1. CASE Send(a)  BY <2>1 DEF Send
  <2>2. CASE Retry(a)
    <3>1. ui' = [ui EXCEPT !.loading = TRUE, !.current = a, !.failed = FALSE]  BY <2>2 DEF Retry
    <3>2. ui \in [sending: BOOLEAN, loading: BOOLEAN, current: Turn \cup {NoTurn}, failed: BOOLEAN]
      BY DEF ConversationInv, ChatTypeOK
    <3> QED  BY <3>1, <3>2
  <2> QED  BY <2>1, <2>2
<1>6. /\ turn' \in [Turn -> TurnState]
      /\ \A b \in Turn : turn'[b] = IF b = a THEN asked ELSE Aborting(turn)[b]
  BY <1>2, <1>3, AbortingCloses
<1>7. \A b \in Turn : turn'[b].reader \in {"open", "retrying"} => ui'.current = b
  BY <1>5, <1>6, AbortingCloses
<1>8. \A b \in Turn : \/ SameAnswer(turn'[b], turn[b])
                      \/ turn[b].pc = "idle" /\ turn'[b].pc = "asked" /\ turn'[b].row = 0
  BY <1>2, <1>4, <1>6, AbortingCloses
<1> QED  BY <1>4, <1>5, <1>6, <1>7, <1>8, BrowserSteps

LEMMA LoadFromConversationInv == ASSUME ConversationInv, LoadFromConversation PROVE ConversationInv'
<1>1. /\ ui' \in [sending: BOOLEAN, loading: BOOLEAN, current: Turn \cup {NoTurn}, failed: BOOLEAN]
      /\ turn' = Aborting(turn) /\ UNCHANGED <<conversation, settledName, unsaved>>
  BY DEF LoadFromConversation
<1>2. \A b \in Turn : turn'[b].reader \notin {"open", "retrying"} /\ SameAnswer(turn'[b], turn[b])
  BY <1>1, AbortingCloses
<1>3. turn' \in [Turn -> TurnState]  BY <1>1, AbortingCloses
<1> QED  BY <1>1, <1>2, <1>3, BrowserSteps

LEMMA SettleInv == ASSUME ConversationInv, NEW a \in Turn, Settle(a) PROVE ConversationInv'
<1> DEFINE sending == ui.sending /\ turn[a].reader = "retrying"
           failed == IF turn[a].reader # "aborted" /\ turn[a].pc # "ended" THEN TRUE ELSE ui.failed
           next == [turn[a] EXCEPT !.reader = "closed"]
<1>1. /\ turn \in [Turn -> TurnState]
      /\ ui \in [sending: BOOLEAN, loading: BOOLEAN, current: Turn \cup {NoTurn}, failed: BOOLEAN]
  BY DEF ConversationInv, ChatTypeOK
<1>2. next \in TurnState /\ next.reader = "closed" /\ SameAnswer(next, turn[a])
  BY <1>1 DEF TurnState, SameAnswer
<1>3. turn' = [turn EXCEPT ![a] = next] /\ UNCHANGED <<conversation, settledName, unsaved>>  BY DEF Settle
<1> HIDE DEF next
<1>4. /\ turn' \in [Turn -> TurnState]
      /\ \A b \in Turn : turn'[b] = IF b = a THEN next ELSE turn[b]
  BY <1>1, <1>2, <1>3
<1>5. ui' = [ui EXCEPT !.sending = sending, !.loading = FALSE,
                       !.current = IF ui.current = a THEN NoTurn ELSE ui.current,
                       !.failed = failed]
  BY DEF Settle
<1>6. sending \in BOOLEAN /\ failed \in BOOLEAN  BY <1>1
<1> HIDE DEF sending, failed
<1>7. /\ ui' \in [sending: BOOLEAN, loading: BOOLEAN, current: Turn \cup {NoTurn}, failed: BOOLEAN]
      /\ ui'.current = IF ui.current = a THEN NoTurn ELSE ui.current
  BY <1>1, <1>5, <1>6
<1>8. \A b \in Turn : turn'[b].reader \in {"open", "retrying"} => ui'.current = b
  BY <1>2, <1>4, <1>7 DEF ConversationInv, TurnInv, ReadsCurrent
<1>9. \A b \in Turn : SameAnswer(turn'[b], turn[b])  BY <1>2, <1>4 DEF SameAnswer
<1> QED  BY <1>3, <1>4, <1>7, <1>8, <1>9, BrowserSteps

LEMMA RenameInv == ASSUME ConversationInv, Rename PROVE ConversationInv'
<1>1. /\ conversation' = [conversation EXCEPT !.title = "user"]
      /\ settledName' = (Between /\ Rows(turn) # {}) /\ UNCHANGED <<turn, ui, unsaved>>
  BY DEF Rename
<1>2. conversation \in [exists: BOOLEAN, title: {"default", "auto", "user"}]
  BY DEF ConversationInv, ChatTypeOK
<1>3. /\ conversation' \in [exists: BOOLEAN, title: {"default", "auto", "user"}]
      /\ conversation'.title = "user" /\ conversation'.exists = conversation.exists
  BY <1>1, <1>2
<1>4. settledName' \in BOOLEAN  BY <1>1
<1>5. ChatTypeOK'  BY <1>1, <1>3, <1>4 DEF ConversationInv, ChatTypeOK
<1>6. IsFiniteSet(Rows(turn)')  BY <1>1 DEF ConversationInv, Rows
<1>7. \A a \in Turn : TurnInv(a)'
  BY <1>1, <1>3 DEF ConversationInv, TurnInv, ReadsCurrent, Stored, RowsBelong
<1>8. NameIsSafe'
  <2> SUFFICES ASSUME settledName' PROVE AnAnswer' /\ \A a \in Turn : turn'[a].pc \notin {"loaded", "titling"}
    BY <1>3 DEF NameIsSafe
  <2>1. Between /\ Rows(turn) # {}  BY <1>1
  <2>2. PICK b \in Turn : turn[b].row > 0  BY <2>1 DEF Rows
  <2>3. turn[b].pc # "idle"
    <3>1. RowsBelong(b)  BY DEF ConversationInv, TurnInv
    <3> QED  BY <2>2, <3>1 DEF RowsBelong
  <2> QED  BY <1>1, <2>1, <2>2, <2>3 DEF Between, AnAnswer
<1> QED  BY <1>5, <1>6, <1>7, <1>8 DEF ConversationInv

LEMMA DeleteConversationInv == ASSUME ConversationInv, DeleteConversation PROVE ConversationInv'
<1>1. /\ conversation' = [conversation EXCEPT !.exists = FALSE] /\ UNCHANGED <<ui, settledName, unsaved>>
      /\ turn' = [a \in Turn |-> [turn[a] EXCEPT !.row = 0]]
  BY DEF DeleteConversation
<1>2. /\ conversation \in [exists: BOOLEAN, title: {"default", "auto", "user"}]
      /\ turn \in [Turn -> TurnState]
  BY DEF ConversationInv, ChatTypeOK
<1>3. /\ conversation' \in [exists: BOOLEAN, title: {"default", "auto", "user"}]
      /\ conversation'.title = conversation.title /\ ~conversation'.exists
  BY <1>1, <1>2
<1>4. ASSUME NEW a \in Turn
      PROVE  /\ turn'[a] \in TurnState /\ turn'[a].row = 0
             /\ turn'[a].reader = turn[a].reader
  <2>1. 0 \in 0..Whole  BY DEF Whole
  <2>2. turn'[a] = [turn[a] EXCEPT !.row = 0] /\ turn[a] \in TurnState  BY <1>1, <1>2
  <2> QED  BY <2>1, <2>2 DEF TurnState
<1>5. turn' \in [Turn -> TurnState]  BY <1>1, <1>4
<1>6. ChatTypeOK'  BY <1>1, <1>3, <1>5 DEF ConversationInv, ChatTypeOK
<1>7. Rows(turn)' = {}  BY <1>4 DEF Rows
<1>8. IsFiniteSet(Rows(turn)')  BY <1>7, FS_EmptySet
<1>9. ASSUME NEW a \in Turn PROVE TurnInv(a)'
  <2>1. turn'[a].row = 0 /\ turn'[a].reader = turn[a].reader /\ ~conversation'.exists
    BY <1>3, <1>4
  <2>2. ReadsCurrent(a)'  BY <1>1, <2>1 DEF ConversationInv, TurnInv, ReadsCurrent
  <2>3. Stored(a)' /\ RowsBelong(a)'  BY <2>1 DEF Stored, RowsBelong
  <2> QED  BY <2>2, <2>3 DEF TurnInv
<1>10. NameIsSafe'  BY <1>1, <1>3 DEF ConversationInv, NameIsSafe
<1> QED  BY <1>6, <1>8, <1>9, <1>10 DEF ConversationInv

LEMMA ChatStep == ConversationInv /\ [ChatNext]_chatVars => ConversationInv'
<1> SUFFICES ASSUME ConversationInv, [ChatNext]_chatVars PROVE ConversationInv'  OBVIOUS
<1>1. CASE LoadFromConversation \/ Rename \/ DeleteConversation
  BY <1>1, LoadFromConversationInv, RenameInv, DeleteConversationInv
<1>2. ASSUME NEW a \in Turn, Send(a) \/ Retry(a) \/ Settle(a) PROVE ConversationInv'
  BY <1>2, PostInv, SettleInv
<1>3. ASSUME NEW a \in Turn,
             \/ Ask(a) \/ LoadConversation(a) \/ CreatePlaceholder(a) \/ StreamToken(a)
             \/ Disconnect(a) \/ Break(a) \/ FinishEmpty(a) \/ Finalize(a) \/ SaveMessages(a) \/ AutoTitle(a)
      PROVE  ConversationInv'
  BY <1>3, AskInv, LoadConversationInv, CreatePlaceholderInv, StreamTokenInv, DisconnectInv,
     BreakInv, FinishEmptyInv, FinalizeInv, SaveMessagesInv, AutoTitleInv
<1>4. CASE UNCHANGED chatVars
  BY <1>4 DEF chatVars, ConversationInv, ChatTypeOK, Rows, NameIsSafe, AnAnswer, TurnInv,
              ReadsCurrent, Stored, RowsBelong
<1> QED  BY <1>1, <1>2, <1>3, <1>4 DEF ChatNext

\* For any number of questions and whatever the browser opens, sends, retries or leaves, one
\* stream is read at a time, what was seen is stored, and a settled name stands.
THEOREM ConversationsKeepTheirWord == ChatSpec => []ChatInv
BY ConversationInvSuffices, ChatInitInv, ChatStep, PTL DEF ChatSpec

-----------------------------------------------------------------------------
(* Structured questions.                                                   *)

QueryState == [endpoint: {"query", "chat", "stream"}, action: Action, conditions: SUBSET Condition]

\* A question is answered from the conditions its handler uses, with a filter that runs.
AnswerInv ==
    stage = "answered" =>
        \E used \in Used : /\ filter = (UNION {Translate(c) : c \in used}) \cup OwnRules
                           /\ \A p \in filter : Runs(p)

FilterInv == query \in QueryState /\ AnswerInv

-----------------------------------------------------------------------------
LEMMA ConditionParts ==
    ASSUME NEW c \in Condition
    PROVE  c.op \in Op /\ c.field \in Field /\ c.shape \in {"one", "list"} /\ c.value \subseteq Value
BY DEF Condition

\* A field is compared with the column it is about, but for the available quantity.
LEMMA ColumnOfField ==
    ASSUME NEW f \in Field
    PROVE  FIELD_ALIASES[f] = IF f = "quantity_available" THEN "quantity_on_hand" ELSE Meant(f)
BY DEF FIELD_ALIASES, Meant

\* A condition that was translated operator for operator says what it said.
LEMMA TranslatedFaithfully ==
    ASSUME NEW c \in Condition, c.field # "quantity_available", ~ScalarForList(c),
           NEW negated \in BOOLEAN,
           negated <=> c.op \in Negated, NEW row
    PROVE  (\A p \in Where(c, OP_MAP[c.op], negated) : Matches(p, row)) <=> Holds(c, row)
<1> DEFINE p == [field |-> FIELD_ALIASES[c.field], value |-> c.value, negated |-> negated,
                 lookup |-> OP_MAP[c.op]]
<1>2. c.op \in Op /\ FIELD_ALIASES[c.field] = Meant(c.field)  BY ConditionParts, ColumnOfField
<1>3. OP_MAP[c.op] \notin {"below", "none"}  BY <1>2 DEF OP_MAP, Op, Negated, ListOp
<1>a. OP_MAP[c.op] = "in" => c.shape = "list"
  BY <1>2, ConditionParts DEF OP_MAP, Op, Negated, ListOp, ScalarForList
<1>1. Where(c, OP_MAP[c.op], negated) = {p}  BY <1>a DEF Where
<1>4. p.field = Meant(c.field) /\ p.lookup = OP_MAP[c.op] /\ p.value = c.value /\ p.negated = negated
  BY <1>2
<1> HIDE DEF p
<1>5. negated = (c.op \in Negated)  OBVIOUS
<1>6. Matches(p, row) <=> Holds(c, row)  BY <1>3, <1>4, <1>5 DEF Matches, Holds
<1> QED  BY <1>1, <1>6

\* What raises cannot run.
LEMMA RaisesCannotRun ==
    ASSUME NEW c, \A p \in Raises(c) : Runs(p) PROVE FALSE
<1> DEFINE p == [field |-> FIELD_ALIASES[c.field], value |-> c.value, negated |-> FALSE, lookup |-> "bad"]
<1>1. p \in Raises(c) /\ p.lookup = "bad"  BY DEF Raises, Where
<1>2. Runs(p)  BY <1>1
<1>3. "bad" \notin KnownLookup
  <2>1. \A op \in Op : OP_MAP[op] # "bad"  BY DEF OP_MAP, Op, Negated, ListOp
  <2> QED  BY <2>1 DEF KnownLookup, Lookup
<1> QED  BY <1>1, <1>2, <1>3 DEF Runs

Faithful(c, row) == (\A p \in Translate(c) : Matches(p, row)) <=> Holds(c, row)

\* A list without members asks for no row, and gets none.
LEMMA NothingIsFaithful ==
    ASSUME NEW c, NEW row, Translate(c) = Nothing, c.op = "in", c.value = {} PROVE Faithful(c, row)
<1> DEFINE p == [field |-> "pk", lookup |-> "none", value |-> {}, negated |-> FALSE]
<1>1. Translate(c) = {p} /\ p.lookup = "none"  BY DEF Nothing
<1> HIDE DEF p
<1>2. ~Matches(p, row)  BY <1>1 DEF Matches
<1>3. OP_MAP[c.op] = "in" /\ c.op \notin Negated  BY DEF OP_MAP, Op, Negated, ListOp
<1>4. ~Holds(c, row)  BY <1>3 DEF Holds, Compare
<1> QED  BY <1>1, <1>2, <1>4 DEF Faithful

\* Where one of the two general translators is used.
LEMMA ParsedFaithfully ==
    ASSUME NEW c \in Condition, NEW row,
           Translate(c) = ParseCondition(c) \/ Translate(c) = Where(c, OP_MAP[c.op], c.op \in Negated),
           c.field # "quantity_available", ~ScalarForList(c)
    PROVE  Faithful(c, row)
<1> DEFINE negated == c.op \in Negated
<1>1. negated \in BOOLEAN /\ (negated <=> c.op \in Negated)  OBVIOUS
<1>2. CASE Translate(c) = Nothing /\ c.op = "in" /\ c.value = {}  BY <1>2, NothingIsFaithful
<1>3. CASE Translate(c) = Where(c, OP_MAP[c.op], negated)
  <2> HIDE DEF negated
  <2> QED  BY <1>1, <1>3, TranslatedFaithfully DEF Faithful
<1>4. negated = (c.op = "neq" \/ (c.op = "not_in" /\ c.shape = "list"))
  BY ConditionParts DEF Negated, ListOp, ScalarForList
<1> QED  BY <1>2, <1>3, <1>4 DEF ParseCondition

\* Where a handler takes one operator only, and the condition has it.
LEMMA LookedUpFaithfully ==
    ASSUME NEW c \in Condition, NEW row, Translate(c) = Where(c, OP_MAP[c.op], FALSE),
           c.field # "quantity_available", c.op \notin Negated, ~ScalarForList(c)
    PROVE  Faithful(c, row)
BY TranslatedFaithfully DEF Faithful

\* An aliased quantity is no column of the sales nor of the suppliers.
LEMMA QuantityIsNoColumn ==
    ASSUME NEW c \in Condition,
           query.action \in {"get_sales_report", "get_top_products", "get_supplier_info"},
           NEW lookup, NEW negated, Translate(c) = Where(c, lookup, negated),
           \A p \in Translate(c) : Runs(p)
    PROVE  c.field # "quantity_available"
<1> SUFFICES ASSUME c.field = "quantity_available" PROVE FALSE  OBVIOUS
<1>1. PICK p \in Translate(c) : p.field = FIELD_ALIASES[c.field]  BY DEF Where
<1>2. p.field = "quantity_on_hand"  BY <1>1, ConditionParts, ColumnOfField
<1>3. p.field \in Column[query.action] \cup {"pk"}  BY <1>1 DEF Runs
<1> QED  BY <1>2, <1>3 DEF Column

\* So a condition on the sales that is not about nothing is about one of their columns.
LEMMA SalesFaithfully ==
    ASSUME NEW c \in Condition, query.action \in {"get_sales_report", "get_top_products"}, NEW row,
           Translate(c) = ParseCondition(c) \/ Translate(c) = Where(c, OP_MAP[c.op], c.op \in Negated),
           \A p \in Translate(c) : Runs(p), ~ScalarForList(c)
    PROVE  Faithful(c, row)
<1>1. CASE Translate(c) = Nothing /\ c.op = "in" /\ c.value = {}  BY <1>1, NothingIsFaithful
<1>2. CASE c.field # "quantity_available"  BY <1>2, ParsedFaithfully
<1>3. CASE \E lookup, negated : Translate(c) = Where(c, lookup, negated)
  BY <1>2, <1>3, QuantityIsNoColumn
<1> QED  BY <1>1, <1>2, <1>3 DEF ParseCondition

\* The handlers of a question agree on each condition that none of them misreads.
LEMMA HandlersAreFaithful ==
    ASSUME query \in QueryState, NEW c \in Condition, ~Misread(c),
           \A p \in Translate(c) : Runs(p), NEW row
    PROVE  Faithful(c, row)
<1>a. c.op \in Op /\ c.field \in Field  BY ConditionParts
<1>b. ~ScalarForList(c)  BY DEF Misread
<1>1. CASE query.action = "get_inventory"
  <2>1. Translate(c) = ParseCondition(c)  BY <1>1 DEF Translate
  <2>2. c.field # "quantity_available"  BY <1>1 DEF Misread
  <2> QED  BY <1>b, <2>1, <2>2, ParsedFaithfully
<1>2. CASE query.action = "get_sales_report"
  <2>1. Translate(c) = ParseCondition(c)  BY <1>2 DEF Translate
  <2> QED  BY <1>2, <1>b, <2>1, SalesFaithfully
<1>3. CASE query.action = "get_total_value"
  <2>1. c.field # "limit" /\ c.field # "quantity_available"  BY <1>3 DEF Misread
  <2>2. Translate(c) = ParseCondition(c) \/ Translate(c) = Where(c, OP_MAP[c.op], c.op \in Negated)
    BY <1>3, <2>1 DEF Translate, ConditionToQ
  <2> QED  BY <1>b, <2>1, <2>2, ParsedFaithfully
<1>4. CASE query.action = "get_top_products"
  <2>1. query.endpoint = "query" /\ c.field # "limit"  BY <1>4 DEF Misread
  <2>2. Translate(c) = Where(c, OP_MAP[c.op], c.op \in Negated)
    BY <1>4, <2>1 DEF Translate, ConditionToQ
  <2> QED  BY <1>4, <1>b, <2>2, SalesFaithfully
<1>5. CASE query.action = "get_supplier_info"
  <2>1. c.op \notin Negated  BY <1>5 DEF Misread
  <2>2. Translate(c) = Where(c, OP_MAP[c.op], FALSE)  BY <1>5 DEF Translate, SupplierInfo
  <2>3. c.field # "quantity_available"  BY <1>5, <2>2, QuantityIsNoColumn
  <2> QED  BY <1>b, <2>1, <2>2, <2>3, LookedUpFaithfully
<1>6. CASE query.action = "get_supplier_performance"
  <2>a. Translate(c) = SupplierPerformance(c)  BY <1>6 DEF Translate
  <2>b. c.field \in {"supplier_name", "is_active", "date_from", "date_to"}
    BY <1>6 DEF Misread, ACTION_ALLOWED_FIELDS
  <2>1. CASE c.field = "supplier_name"
    <3>1. c.op \notin Negated
      <4>1. ASSUME c.op \in Negated PROVE FALSE
        <5>1. Translate(c) = Raises(c)  BY <2>a, <2>1, <4>1 DEF SupplierPerformance
        <5> QED  BY <5>1, RaisesCannotRun
      <4> QED  BY <4>1
    <3>2. Translate(c) = Where(c, OP_MAP[c.op], FALSE)  BY <2>a, <2>1, <3>1 DEF SupplierPerformance
    <3> QED  BY <1>b, <2>1, <3>1, <3>2, LookedUpFaithfully
  <2>2. CASE c.field = "is_active"
    <3>1. c.op = "eq"  BY <1>6, <2>2 DEF Misread
    <3>2. Translate(c) = Where(c, "exact", FALSE) /\ OP_MAP[c.op] = "exact"
      BY <2>a, <2>2, <3>1 DEF SupplierPerformance, OP_MAP
    <3> QED  BY <1>b, <2>2, <3>1, <3>2, LookedUpFaithfully DEF Negated
  <2>3. CASE c.field = "date_from"
    <3>1. c.op = "gte"  BY <1>6, <2>3 DEF Misread
    <3>2. Translate(c) = Where(c, "gte", FALSE) /\ OP_MAP[c.op] = "gte"
      BY <2>a, <2>3, <3>1 DEF SupplierPerformance, OP_MAP
    <3> QED  BY <1>b, <2>3, <3>1, <3>2, LookedUpFaithfully DEF Negated
  <2>4. CASE c.field = "date_to"
    <3>1. c.op = "lte"  BY <1>6, <2>4 DEF Misread
    <3>2. Translate(c) = Where(c, "lte", FALSE) /\ OP_MAP[c.op] = "lte"
      BY <2>a, <2>4, <3>1 DEF SupplierPerformance, OP_MAP
    <3> QED  BY <1>b, <2>4, <3>1, <3>2, LookedUpFaithfully DEF Negated
  <2> QED  BY <2>b, <2>1, <2>2, <2>3, <2>4
<1>7. CASE query.action = "get_low_stock"
  <2>1. query.endpoint = "query"
    <3>1. ASSUME query.endpoint # "query" PROVE FALSE
      <4>1. Translate(c) = Raises(c)  BY <1>7, <3>1 DEF Translate
      <4> QED  BY <4>1, RaisesCannotRun
    <3> QED  BY <3>1
  <2>2. Translate(c) = LowStock(c)  BY <1>7, <2>1 DEF Translate
  <2>3. c.field \in {"product_name", "sku_code", "category", "quantity_on_hand", "reorder_point"}
    BY <1>7 DEF Misread, ACTION_ALLOWED_FIELDS
  <2>4. CASE c.field = "quantity_on_hand"
    <3>1. c.op \in {"lt", "lte", "eq", "gt", "gte"}  BY <1>7, <2>4 DEF Misread
    <3>2. Translate(c) = Where(c, OP_MAP[c.op], FALSE)  BY <2>2, <2>4, <3>1 DEF LowStock
    <3> QED  BY <1>b, <2>4, <3>1, <3>2, LookedUpFaithfully DEF Negated
  <2>5. CASE c.field = "reorder_point"
    <3>1. Translate(c) = Raises(c)  BY <2>2, <2>5 DEF LowStock
    <3> QED  BY <3>1, RaisesCannotRun
  <2>6. CASE c.field = "product_name"
    <3>1. c.op = "contains"  BY <1>7, <2>6 DEF Misread
    <3>2. Translate(c) = Where(c, "icontains", FALSE) /\ OP_MAP[c.op] = "icontains"
      BY <2>2, <2>6, <3>1 DEF LowStock, OP_MAP
    <3> QED  BY <1>b, <2>6, <3>1, <3>2, LookedUpFaithfully DEF Negated
  <2>7. CASE c.field \in {"sku_code", "category"}
    <3>1. c.op = "eq"  BY <1>7, <2>7 DEF Misread
    <3>2. Translate(c) = Where(c, "exact", FALSE) /\ OP_MAP[c.op] = "exact"
      BY <2>2, <2>7, <3>1 DEF LowStock, OP_MAP
    <3> QED  BY <1>b, <2>7, <3>1, <3>2, LookedUpFaithfully DEF Negated
  <2> QED  BY <2>3, <2>4, <2>5, <2>6, <2>7
<1>8. CASE query.action = "forecast_demand"  BY <1>8 DEF Misread
<1> QED  BY <1>1, <1>2, <1>3, <1>4, <1>5, <1>6, <1>7, <1>8 DEF QueryState, Action

LEMMA FilterInvSuffices == FilterInv => AnsweredIsFiltered
<1> SUFFICES ASSUME FilterInv, stage = "answered", \A c \in query.conditions : ~Misread(c), NEW row
             PROVE  (\A p \in filter : Matches(p, row)) <=>
                        /\ \A c \in query.conditions : Holds(c, row)
                        /\ \A p \in OwnRules : Matches(p, row)
  BY DEF AnsweredIsFiltered
<1>1. PICK used \in Used : /\ filter = (UNION {Translate(c) : c \in used}) \cup OwnRules
                           /\ \A p \in filter : Runs(p)
  BY DEF FilterInv, AnswerInv
<1>2. query \in QueryState /\ query.conditions \subseteq Condition
  BY DEF FilterInv, QueryState
\* The handler that uses one condition at most misreads every one.
<1>3. used = query.conditions
  <2>1. CASE query.action = "forecast_demand"
    <3>1. query.conditions = {}  BY <2>1 DEF Misread
    <3>2. {{c} : c \in query.conditions} = {}  BY <3>1
    <3> QED  BY <1>1, <3>1, <3>2 DEF Used
  <2>2. CASE query.action # "forecast_demand"  BY <1>1, <2>2 DEF Used
  <2> QED  BY <2>1, <2>2
<1>4. \A c \in query.conditions : \A p \in Translate(c) : p \in filter  BY <1>1, <1>3
<1>5. \A c \in query.conditions : Faithful(c, row)
  BY <1>1, <1>2, <1>4, HandlersAreFaithful
<1>6. (\A p \in filter : Matches(p, row)) <=>
         /\ \A c \in query.conditions : \A p \in Translate(c) : Matches(p, row)
         /\ \A p \in OwnRules : Matches(p, row)
  <2>a. filter = (UNION {Translate(c) : c \in query.conditions}) \cup OwnRules
    BY <1>1, <1>3
  <2>1. \A p : p \in filter <=> (\E c \in query.conditions : p \in Translate(c)) \/ p \in OwnRules
    BY <2>a
  <2> QED  BY <2>1
<1> QED  BY <1>5, <1>6 DEF Faithful

-----------------------------------------------------------------------------
LEMMA FilterInitInv == FilterInit => FilterInv
BY DEF FilterInit, FilterInv, QueryState, AnswerInv

\* What an answered question was answered with depends on the question alone.
LEMMA AnswerStands ==
    ASSUME query' = query, NEW used, NEW q,
           q = (UNION {Translate(c) : c \in used}) \cup OwnRules, \A p \in q : Runs(p)
    PROVE  (q = (UNION {Translate(c) : c \in used}) \cup OwnRules)' /\ (\A p \in q : Runs(p))'
           /\ Used' = Used
<1>1. Used' = Used /\ OwnRules' = OwnRules  BY DEF Used, OwnRules, DefaultThreshold, ActiveOnly
<1>2. (UNION {Translate(c) : c \in used})' = UNION {Translate(c) : c \in used}
  BY DEF Translate, ParseCondition, ConditionToQ, LowStock, SupplierInfo, SupplierPerformance,
         ForecastDemand
<1>3. \A p : Runs(p)' <=> Runs(p)  BY DEF Runs
<1> QED  BY <1>1, <1>2, <1>3

\* A step of the parser answers nothing yet.
LEMMA ParserMoves ==
    ASSUME FilterInv, query' \in QueryState, stage' # "answered" PROVE FilterInv'
BY DEF FilterInv, AnswerInv

LEMMA HandleInv == ASSUME FilterInv, Handle PROVE FilterInv'
<1>1. query' = query /\ query' \in QueryState  BY DEF Handle, FilterInv
<1>2. PICK used \in Used :
        LET q == (UNION {Translate(c) : c \in used}) \cup OwnRules
            runs == HasHandler /\ \A p \in q : Runs(p)
        IN  \/ runs /\ stage' = "answered" /\ filter' = q
            \/ /\ runs => \E p \in q : p.lookup = "letters"
               /\ stage' = "refused" /\ UNCHANGED filter
  BY DEF Handle
<1>3. CASE stage' = "refused"  BY <1>1, <1>3, ParserMoves
<1>4. CASE stage' = "answered"
  <2>1. /\ filter' = (UNION {Translate(c) : c \in used}) \cup OwnRules
        /\ \A p \in filter' : Runs(p)
    BY <1>2, <1>4
  <2> QED  BY <1>1, <2>1, AnswerStands DEF FilterInv, AnswerInv
<1> QED  BY <1>2, <1>3, <1>4

LEMMA FilterStep == FilterInv /\ [FilterNext]_filterVars => FilterInv'
<1> SUFFICES ASSUME FilterInv, [FilterNext]_filterVars PROVE FilterInv'  OBVIOUS
<1>a. query \in QueryState  BY DEF FilterInv
<1>1. CASE AddCondition
  <2>1. PICK c \in Condition : query' = [query EXCEPT !.conditions = @ \cup {c}]
    BY <1>1 DEF AddCondition
  <2>2. query' \in QueryState  BY <1>a, <2>1 DEF QueryState
  <2> QED  BY <1>1, <2>2, ParserMoves DEF AddCondition
<1>2. CASE ParseToolCall \/ ParseText
  BY <1>2, <1>a, ParserMoves DEF ParseToolCall, ParseText
<1>3. CASE KeywordFallback
  <2>1. query' = query \/ \E a \in Action : query' = [query EXCEPT !.action = a, !.conditions = {}]
    BY <1>3 DEF KeywordFallback
  <2>2. query' \in QueryState  BY <1>a, <2>1 DEF QueryState
  <2> QED  BY <1>3, <2>2, ParserMoves DEF KeywordFallback
<1>4. CASE MatchCachedQuery
  <2>1. PICK a \in Action, cs \in SUBSET Condition :
           query' = [query EXCEPT !.action = a, !.conditions = cs]
    <3>1. CASE \E a \in Action \ {"get_sales_report", "forecast_demand"} :
                  query' = [query EXCEPT !.action = a, !.conditions = {}]
      BY <3>1
    <3>2. CASE \E v \in Value : query' = [query EXCEPT !.action = "get_low_stock", !.conditions =
                  {[field |-> "quantity_on_hand", op |-> "eq", shape |-> "one", value |-> {v}]}]
      <4>1. PICK v \in Value : query' = [query EXCEPT !.action = "get_low_stock", !.conditions =
                  {[field |-> "quantity_on_hand", op |-> "eq", shape |-> "one", value |-> {v}]}]
        BY <3>2
      <4> DEFINE c == [field |-> "quantity_on_hand", op |-> "eq", shape |-> "one", value |-> {v}]
      <4>2. c \in Condition
        <5>1. "quantity_on_hand" \in Field
          <6>1. "quantity_on_hand" \in ACTION_ALLOWED_FIELDS["get_low_stock"]
            BY DEF ACTION_ALLOWED_FIELDS
          <6>2. "get_low_stock" \in Action  BY DEF Action
          <6> QED  BY <6>1, <6>2 DEF Field
        <5>2. "eq" \in Op /\ "eq" \notin ListOp  BY DEF Op, ListOp
        <5>3. c \in [field: Field, op: Op, shape: {"one", "list"}, value: SUBSET Value] /\ c.value = {v} /\ c.shape = "one"
          BY <5>1, <5>2
        <5> QED  BY <5>3 DEF Condition
      <4> HIDE DEF c
      <4>3. {c} \in SUBSET Condition /\ "get_low_stock" \in Action  BY <4>2 DEF Action
      <4> QED  BY <4>1, <4>3 DEF c
    <3> QED  BY <1>4, <3>1, <3>2 DEF MatchCachedQuery
  <2>2. query' \in QueryState  BY <1>a, <2>1 DEF QueryState
  <2> QED  BY <1>4, <2>2, ParserMoves DEF MatchCachedQuery
<1>5. CASE Handle  BY <1>5, HandleInv
<1>6. CASE UNCHANGED filterVars
  <2>1. UNCHANGED <<stage, query, filter>>  BY <1>6 DEF filterVars
  <2>2. CASE stage # "answered"  BY <1>a, <2>1, <2>2, ParserMoves
  <2>3. CASE stage = "answered"
    <3>1. PICK used \in Used : /\ filter = (UNION {Translate(c) : c \in used}) \cup OwnRules
                              /\ \A p \in filter : Runs(p)
      BY <2>3 DEF FilterInv, AnswerInv
    <3> QED  BY <1>a, <2>1, <3>1, AnswerStands DEF FilterInv, AnswerInv
  <2> QED  BY <2>2, <2>3
<1> QED  BY <1>1, <1>2, <1>3, <1>4, <1>5, <1>6 DEF FilterNext

\* For any values and any number of conditions, a question that is answered is answered with
\* the rows its conditions describe, but for the conditions named as misread.
THEOREM AnswersAreFiltered == FilterSpec => []AnsweredIsFiltered
BY FilterInvSuffices, FilterInitInv, FilterStep, PTL DEF FilterSpec

=============================================================================
