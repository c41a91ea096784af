------------------------ MODULE ReorderPipeline_proofs ------------------------
(***************************************************************************)
(* Theorems about ReorderPipeline for every value of its constants.        *)
(***************************************************************************)
EXTENDS ReorderPipeline, OrderSteps_proofs

-----------------------------------------------------------------------------
LEMMA NewRunType == NewRun \in RunState
<1>1. \E k \in Key : TRUE  BY TableAssumption
<1>2. 1 \in PO  BY TableAssumption DEF PO
<1>3. 0 \in 0..MaxAttempts - 1  BY AgentAssumption
<1> QED  BY <1>1, <1>2, <1>3 DEF NewRun, RunState, Step, Contexts

LEMMA InitType == Init => TypeOK
<1> SUFFICES ASSUME Init PROVE TypeOK  OBVIOUS
<1>1. TableTypeOK
  <2>1. EmptyRow("unborn") \in Row  BY EmptyRowType DEF NoRow
  <2> QED  BY <2>1, TableAssumption DEF Init, TableInit, TableTypeOK, Txn
<1>2. ServiceTypeOK  BY DEF Init, ServiceInit, ServiceTypeOK, ClientState
<1>3. AgentTypeOK
  BY NewRunType DEF Init, AgentInit, AgentTypeOK, Result, NoWorkflow
<1>4. flag \in [Flag -> [sku: Sku, status: FlagStatus]]
  <2>1. \E s \in Sku : TRUE  BY TableAssumption, PipelineAssumption
  <2> QED  BY <2>1 DEF Init, FlagStatus
<1>5. delivery \in [Run -> DeliveryState]
  BY DEF Init, NoThreads, DeliveryState, Thread
<1> QED  BY <1>1, <1>2, <1>3, <1>4, <1>5 DEF TypeOK, Init

\* What a delivery does to itself keeps it a delivery.
LEMMA SetThreadType ==
    ASSUME TypeOK, NEW w \in Run, NEW s \in Sku, NEW at, NEW to \in Thread, SetThread(w, s, at, to)
    PROVE  delivery' \in [Run -> DeliveryState]
<1>1. delivery[w] \in DeliveryState  BY DEF TypeOK
<1>2. [delivery[w] EXCEPT !.thread[s] = to] \in DeliveryState  BY <1>1 DEF DeliveryState
<1>3. delivery' = [delivery EXCEPT ![w] = [delivery[w] EXCEPT !.thread[s] = to]]
  BY DEF SetThread, TypeOK, DeliveryState
<1> QED  BY <1>2, <1>3 DEF TypeOK

LEMMA NextFlagOfType ==
    ASSUME TypeOK, NEW w \in Run, NEW f \in Flag, NextFlagOf(w, f)
    PROVE  delivery' \in [Run -> DeliveryState]
<1>1. delivery[w] \in DeliveryState  BY DEF TypeOK
<1>2. [delivery[w] EXCEPT !.pc = "flags", !.todo = @ \ {f}] \in DeliveryState
  BY <1>1 DEF DeliveryState
<1>3. delivery' = [delivery EXCEPT ![w] = [delivery[w] EXCEPT !.pc = "flags", !.todo = @ \ {f}]]
  BY DEF NextFlagOf, TypeOK, DeliveryState
<1> QED  BY <1>2, <1>3 DEF TypeOK

LEMMA NoThreadsType ==
    ASSUME TypeOK, NEW w \in Run, NEW pc \in {"done", "crashed"},
           delivery' = [delivery EXCEPT ![w] = NoThreads(pc)]
    PROVE  delivery' \in [Run -> DeliveryState]
<1>1. NoThreads(pc) \in DeliveryState  BY DEF NoThreads, DeliveryState, Thread
<1> QED  BY <1>1 DEF TypeOK

\* A run that is forgotten is as good as new.
LEMMA ForgetRunType ==
    ASSUME TypeOK, NEW w \in Run, ForgetRun(w)
    PROVE  TableTypeOK' /\ ServiceTypeOK' /\ AgentTypeOK'
BY NewRunType
DEF ForgetRun, TypeOK, TableTypeOK, ServiceTypeOK, AgentTypeOK, Result, tableVars

LEMMA FlagStatusType ==
    ASSUME TypeOK, NEW f \in Flag, NEW s \in FlagStatus, flag' = [flag EXCEPT ![f].status = s]
    PROVE  flag' \in [Flag -> [sku: Sku, status: FlagStatus]]
BY DEF TypeOK

LEMMA StepType == TypeOK /\ [Next]_vars => TypeOK'
<1> SUFFICES ASSUME TypeOK, [Next]_vars PROVE TypeOK'  OBVIOUS
<1>1. /\ TableTypeOK /\ ServiceTypeOK /\ AgentTypeOK
      /\ flag \in [Flag -> [sku: Sku, status: FlagStatus]]
      /\ delivery \in [Run -> DeliveryState]
      /\ overlapped \in BOOLEAN /\ interrupted \in BOOLEAN
  BY DEF TypeOK
<1>2. ASSUME UNCHANGED Unordered PROVE TableTypeOK' /\ ServiceTypeOK' /\ AgentTypeOK'
  BY <1>1, <1>2 DEF Unordered, tableVars, agentVars, TableTypeOK, ServiceTypeOK, AgentTypeOK
<1>3. CASE UNCHANGED vars
  BY <1>1, <1>2, <1>3 DEF vars, Unordered, TypeOK
<1>4. CASE ServiceNext /\ UNCHANGED PipelineVars
  BY <1>1, <1>4, ServiceStepType DEF PipelineVars, agentVars, AgentTypeOK, TypeOK
<1>5. ASSUME NEW w \in Run, StartDelivery(w) PROVE TypeOK'
  <2>1. delivery' \in [Run -> DeliveryState]  BY <1>1, <1>5 DEF StartDelivery, DeliveryState
  <2>2. overlapped' \in BOOLEAN  BY <1>5 DEF StartDelivery
  <2> QED  BY <1>1, <1>2, <1>5, <2>1, <2>2 DEF StartDelivery, TypeOK
<1>6. ASSUME NEW w \in Run, NEW s \in Sku, Observe(w, s) \/ PersistFlag(w, s) PROVE TypeOK'
  <2>1. delivery' \in [Run -> DeliveryState]
    BY <1>6, SetThreadType DEF Observe, PersistFlag, Thread
  <2> QED  BY <1>1, <1>2, <1>6, <2>1 DEF Observe, PersistFlag, TypeOK
<1>7. ASSUME NEW w \in Run, NEW s \in Sku, InsertFlag(w, s) PROVE TypeOK'
  <2>1. delivery' \in [Run -> DeliveryState]
    BY <1>7, SetThreadType DEF InsertFlag, Thread
  <2>2. flag' \in [Flag -> [sku: Sku, status: FlagStatus]]
    BY <1>1, <1>7 DEF InsertFlag, FlagStatus
  <2> QED  BY <1>1, <1>2, <1>7, <2>1, <2>2 DEF InsertFlag, TypeOK
<1>8. ASSUME NEW w \in Run, ReadFlags(w) PROVE TypeOK'
  <2>1. [delivery[w] EXCEPT !.pc = "flags", !.todo = OpenFlags] \in DeliveryState
    BY <1>1 DEF DeliveryState, OpenFlags
  <2>2. delivery' = [delivery EXCEPT ![w] = [delivery[w] EXCEPT !.pc = "flags", !.todo = OpenFlags]]
    BY <1>1, <1>8 DEF ReadFlags, DeliveryState
  <2>3. delivery' \in [Run -> DeliveryState]  BY <1>1, <2>1, <2>2
  <2> QED  BY <1>1, <1>2, <1>8, <2>3 DEF ReadFlags, TypeOK
<1>9. ASSUME NEW w \in Run, SkipFlag(w) PROVE TypeOK'
  <2>1. delivery' \in [Run -> DeliveryState]  BY <1>9, NextFlagOfType DEF SkipFlag
  <2> QED  BY <1>1, <1>2, <1>9, <2>1 DEF SkipFlag, TypeOK
<1>10. ASSUME NEW w \in Run, OrderFlag(w) PROVE TypeOK'
  <2>1. TableTypeOK' /\ AgentTypeOK'
    BY <1>1, <1>10, StartRunType DEF OrderFlag, Contexts
  <2>2. delivery' \in [Run -> DeliveryState]  BY <1>1, <1>10 DEF OrderFlag, DeliveryState
  <2> QED  BY <1>1, <1>10, <2>1, <2>2 DEF OrderFlag, TypeOK, ServiceTypeOK
<1>11. ASSUME NEW w \in Run, AgentStep(w) PROVE TypeOK'
  BY <1>1, <1>11, AdvanceType DEF AgentStep, TypeOK, ServiceTypeOK
<1>12. ASSUME NEW w \in Run, FlagFailed(w) PROVE TypeOK'
  <2>1. delivery' \in [Run -> DeliveryState]  BY <1>12, NextFlagOfType DEF FlagFailed
  <2> QED  BY <1>1, <1>12, <2>1, ForgetRunType DEF FlagFailed, TypeOK
<1>13. ASSUME NEW w \in Run, ConsumeFlag(w) PROVE TypeOK'
  <2>1. delivery' \in [Run -> DeliveryState]  BY <1>13, NextFlagOfType DEF ConsumeFlag
  <2>2. flag' \in [Flag -> [sku: Sku, status: FlagStatus]]
    BY <1>13, FlagStatusType DEF ConsumeFlag, FlagStatus
  <2> QED  BY <1>1, <1>13, <2>1, <2>2, ForgetRunType DEF ConsumeFlag, TypeOK
<1>14. ASSUME NEW w \in Run, EndDelivery(w) PROVE TypeOK'
  <2>1. delivery' \in [Run -> DeliveryState]  BY <1>14, NoThreadsType DEF EndDelivery
  <2> QED  BY <1>1, <1>2, <1>14, <2>1 DEF EndDelivery, TypeOK
<1>15. ASSUME NEW w \in Run, CrashDelivery(w) PROVE TypeOK'
  <2>1. delivery' \in [Run -> DeliveryState]  BY <1>15, NoThreadsType DEF CrashDelivery
  <2> QED  BY <1>1, <1>15, <2>1, ForgetRunType DEF CrashDelivery, TypeOK
<1> QED
  BY <1>3, <1>4, <1>5, <1>6, <1>7, <1>8, <1>9, <1>10, <1>11, <1>12, <1>13, <1>14, <1>15
  DEF Next, Proceed

\* Whatever deliveries overlap, whoever is killed and whatever the managers do meanwhile,
\* every row, run, flag and delivery keeps its type.
THEOREM TypeCorrect == Spec => []TypeOK
<1>1. Init => TypeOK  BY InitType
<1>2. TypeOK /\ [Next]_vars => TypeOK'  BY StepType
<1> QED  BY <1>1, <1>2, PTL DEF Spec

-----------------------------------------------------------------------------
(***************************************************************************)
(* One OPEN flag of a SKU.                                                 *)
(*                                                                         *)
(* Until two deliveries overlap, one is at work, and a thread of it that   *)
(* is about to insert a flag has found none.                               *)
(***************************************************************************)
OneAtWork == \A v, w \in Run : AtWork(v) /\ AtWork(w) => v = w
ThreadsWait == \A w \in Run : In(w, "idle") => \A s \in Sku : delivery[w].thread[s] = "waiting"
InsertsFirst ==
    \A w \in Run, s \in Sku :
        In(w, "deciding") /\ delivery[w].thread[s] = "insert" => OpenFlagsOf(s) = {}
OneOpenFlag == \A f, g \in OpenFlags : flag[f].sku = flag[g].sku => f = g

FlagsApart == OneAtWork /\ InsertsFirst /\ OneOpenFlag
FlagInv == TypeOK /\ ThreadsWait /\ (~overlapped => FlagsApart)

LEMMA FlagInit == Init => FlagInv
<1> SUFFICES ASSUME Init PROVE FlagInv  OBVIOUS
<1>1. TypeOK  BY InitType
<1>2. \A w \in Run : delivery[w].pc = "idle" /\ \A s \in Sku : delivery[w].thread[s] = "waiting"
  BY DEF Init, NoThreads
<1>3. OpenFlags = {}  BY DEF Init, OpenFlags
<1> QED
  BY <1>1, <1>2, <1>3
  DEF FlagInv, FlagsApart, OneAtWork, ThreadsWait, InsertsFirst, OneOpenFlag, AtWork, In

\* A step that opens no flag, starts no delivery and leaves the deciding ones alone.
LEMMA FlagsShrink ==
    ASSUME FlagInv, TypeOK', UNCHANGED overlapped,
           \A v \in Run :
               /\ AtWork(v)' => AtWork(v)
               /\ delivery'[v].pc \in {"idle", "deciding"} => UNCHANGED delivery[v],
           \A f \in Flag : flag'[f].status = "open" => UNCHANGED flag[f]
    PROVE  FlagInv'
<1>1. ThreadsWait'  BY DEF FlagInv, ThreadsWait, In
<1>2. \A f \in Flag : f \in OpenFlags' => f \in OpenFlags /\ flag'[f].sku = flag[f].sku
  BY DEF OpenFlags
<1>3. OpenFlags' \subseteq Flag  BY DEF OpenFlags
<1>4. ASSUME FlagsApart PROVE FlagsApart'
  <2>1. OneAtWork'  BY <1>4 DEF FlagsApart, OneAtWork
  <2>2. InsertsFirst'
    BY <1>2, <1>3, <1>4 DEF FlagsApart, InsertsFirst, In, OpenFlagsOf
  <2>3. OneOpenFlag'  BY <1>2, <1>3, <1>4 DEF FlagsApart, OneOpenFlag
  <2> QED  BY <2>1, <2>2, <2>3 DEF FlagsApart
<1> QED  BY <1>1, <1>4 DEF FlagInv

\* A delivery that leaves its deciding step.
LEMMA DecidedShrink ==
    ASSUME FlagInv, TypeOK', UNCHANGED overlapped, NEW w \in Run, NEW new \in DeliveryState,
           AtWork(w), new.pc \notin {"idle", "deciding"},
           delivery' = [delivery EXCEPT ![w] = new],
           \A f \in Flag : flag'[f].status = "open" => UNCHANGED flag[f]
    PROVE  FlagInv'
<1>1. \A v \in Run : delivery'[v] = IF v = w THEN new ELSE delivery[v]
  BY DEF FlagInv, TypeOK
<1> QED  BY <1>1, FlagsShrink DEF AtWork

\* What a step of the SKU's thread does to its delivery.
LEMMA ThreadSet ==
    ASSUME TypeOK, NEW w \in Run, NEW s \in Sku, NEW at, NEW to, SetThread(w, s, at, to)
    PROVE  /\ delivery[w].pc = "deciding" /\ delivery'[w].pc = "deciding"
           /\ delivery'[w].todo = delivery[w].todo
           /\ delivery[w].thread[s] = at
           /\ \A t \in Sku : delivery'[w].thread[t] = IF t = s THEN to ELSE delivery[w].thread[t]
           /\ \A v \in Run \ {w} : delivery'[v] = delivery[v]
<1>1. delivery[w] \in DeliveryState  BY DEF TypeOK
<1>2. delivery' = [delivery EXCEPT ![w] = [delivery[w] EXCEPT !.thread[s] = to]]
  BY DEF SetThread, TypeOK, DeliveryState
<1>3. /\ [delivery[w] EXCEPT !.thread[s] = to].pc = delivery[w].pc
      /\ [delivery[w] EXCEPT !.thread[s] = to].todo = delivery[w].todo
      /\ [delivery[w] EXCEPT !.thread[s] = to].thread = [delivery[w].thread EXCEPT ![s] = to]
  BY <1>1 DEF DeliveryState
<1>4. delivery'[w] = [delivery[w] EXCEPT !.thread[s] = to]
      /\ \A v \in Run \ {w} : delivery'[v] = delivery[v]
  BY <1>2 DEF TypeOK
<1>5. \A t \in Sku : delivery'[w].thread[t] = IF t = s THEN to ELSE delivery[w].thread[t]
  BY <1>1, <1>3, <1>4 DEF DeliveryState
<1> QED  BY <1>3, <1>4, <1>5 DEF SetThread, In

\* What a delivery that is through with a flag does to itself.
LEMMA FlagPassed ==
    ASSUME TypeOK, NEW w \in Run, NEW f \in Flag, NextFlagOf(w, f)
    PROVE  LET new == [delivery[w] EXCEPT !.pc = "flags", !.todo = @ \ {f}]
           IN  /\ delivery' = [delivery EXCEPT ![w] = new] /\ new \in DeliveryState
               /\ new.pc = "flags" /\ new.todo = delivery[w].todo \ {f}
<1>1. delivery[w] \in DeliveryState  BY DEF TypeOK
<1>2. /\ [delivery[w] EXCEPT !.pc = "flags", !.todo = @ \ {f}] \in DeliveryState
      /\ [delivery[w] EXCEPT !.pc = "flags", !.todo = @ \ {f}].pc = "flags"
      /\ [delivery[w] EXCEPT !.pc = "flags", !.todo = @ \ {f}].todo = delivery[w].todo \ {f}
  BY <1>1 DEF DeliveryState
<1>3. delivery' = [delivery EXCEPT ![w] = [delivery[w] EXCEPT !.pc = "flags", !.todo = @ \ {f}]]
  BY DEF NextFlagOf, TypeOK, DeliveryState
<1> QED  BY <1>2, <1>3

LEMMA NextFlagKeeps ==
    ASSUME FlagInv, TypeOK', UNCHANGED overlapped, NEW w \in Run, AtWork(w),
           NEW f \in Flag, NextFlagOf(w, f),
           \A g \in Flag : flag'[g].status = "open" => UNCHANGED flag[g]
    PROVE  FlagInv'
<1>1. TypeOK  BY DEF FlagInv
<1>2. PICK new \in DeliveryState : delivery' = [delivery EXCEPT ![w] = new] /\ new.pc = "flags"
  BY <1>1, FlagPassed
<1> QED  BY <1>2, DecidedShrink

\* A thread looks for an OPEN flag before it goes on to insert one, and a flag is
\* inserted by the one delivery at work.
LEMMA ThreadKeeps ==
    ASSUME FlagInv, TypeOK', NEW w \in Run, NEW s \in Sku,
           Observe(w, s) \/ PersistFlag(w, s) \/ InsertFlag(w, s)
    PROVE  FlagInv'
<1>1. TypeOK /\ ThreadsWait /\ (~overlapped => FlagsApart)  BY DEF FlagInv
<1>2. PICK at, to : SetThread(w, s, at, to) /\ (to = "insert" => OpenFlagsOf(s) = {})
                    /\ (InsertFlag(w, s) => at = "insert" /\ to = "finished")
                    /\ (~InsertFlag(w, s) => UNCHANGED flag)
  BY DEF Observe, PersistFlag, InsertFlag
<1>3. /\ delivery[w].pc = "deciding" /\ delivery'[w].pc = "deciding"
      /\ delivery[w].thread[s] = at
      /\ \A t \in Sku : delivery'[w].thread[t] = IF t = s THEN to ELSE delivery[w].thread[t]
      /\ \A v \in Run \ {w} : delivery'[v] = delivery[v]
  BY <1>1, <1>2, ThreadSet
<1>4. ThreadsWait'  BY <1>1, <1>3 DEF ThreadsWait, In
<1>5. ASSUME ~overlapped PROVE FlagsApart'
  <2>1. OneAtWork /\ InsertsFirst /\ OneOpenFlag  BY <1>1, <1>5 DEF FlagsApart
  <2>2. \A v \in Run : AtWork(v)' <=> AtWork(v)  BY <1>3 DEF AtWork
  <2>3. OneAtWork'  BY <2>1, <2>2 DEF OneAtWork
  <2>4. \A v \in Run : In(v, "deciding") => v = w
    BY <1>3, <2>1 DEF OneAtWork, AtWork, In
  <2>5. CASE ~InsertFlag(w, s)
    <3>1. UNCHANGED flag  BY <1>2, <2>5
    <3>2. InsertsFirst'
      BY <1>2, <1>3, <2>1, <3>1 DEF InsertsFirst, In, OpenFlagsOf, OpenFlags
    <3>3. OneOpenFlag'  BY <2>1, <3>1 DEF OneOpenFlag, OpenFlags
    <3> QED  BY <2>3, <3>2, <3>3 DEF FlagsApart
  <2>6. CASE InsertFlag(w, s)
    <3>1. PICK f \in Flag : /\ flag[f].status = "none"
                           /\ flag' = [flag EXCEPT ![f] = [sku |-> s, status |-> "open"]]
      BY <2>6 DEF InsertFlag, NextFlag
    <3>2. \A g \in Flag : flag'[g] = IF g = f THEN [sku |-> s, status |-> "open"] ELSE flag[g]
      BY <1>1, <3>1 DEF TypeOK
    <3>3. OpenFlags' = OpenFlags \cup {f}  BY <3>2 DEF OpenFlags
    <3>4. OpenFlagsOf(s) = {}
      BY <1>2, <1>3, <2>1, <2>6 DEF InsertsFirst, In
    <3>8. flag'[f].sku = s /\ \A g \in OpenFlags : flag'[g].sku = flag[g].sku /\ flag[g].sku # s
      BY <3>1, <3>2, <3>4 DEF OpenFlagsOf, OpenFlags
    <3>5. OneOpenFlag'  BY <2>1, <3>3, <3>8 DEF OneOpenFlag
    <3>6. \A t \in Sku \ {s} : OpenFlagsOf(t)' = OpenFlagsOf(t)
      BY <3>1, <3>2, <3>3 DEF OpenFlagsOf, OpenFlags
    <3>7. InsertsFirst'
      BY <1>2, <1>3, <2>1, <2>4, <2>6, <3>6 DEF InsertsFirst, In
    <3> QED  BY <2>3, <3>5, <3>7 DEF FlagsApart
  <2> QED  BY <2>5, <2>6
<1>6. UNCHANGED overlapped  BY DEF Observe, PersistFlag, InsertFlag
<1> QED  BY <1>4, <1>5, <1>6 DEF FlagInv

LEMMA FlagStep == FlagInv /\ [Next]_vars => FlagInv'
<1> SUFFICES ASSUME FlagInv, [Next]_vars PROVE FlagInv'  OBVIOUS
<1>1. TypeOK /\ TypeOK'  BY StepType DEF FlagInv
<1>2. /\ flag \in [Flag -> [sku: Sku, status: FlagStatus]]
      /\ delivery \in [Run -> DeliveryState]
  BY <1>1 DEF TypeOK
<1>3. ASSUME UNCHANGED <<flag, delivery, overlapped>> PROVE FlagInv'
  BY <1>1, <1>3, FlagsShrink DEF AtWork
<1>4. CASE UNCHANGED vars  BY <1>3, <1>4 DEF vars
<1>5. CASE ServiceNext /\ UNCHANGED PipelineVars  BY <1>3, <1>5 DEF PipelineVars
<1>6. ASSUME NEW w \in Run, StartDelivery(w) PROVE FlagInv'
  <2>1. \A v \in Run : delivery'[v] = IF v = w THEN [delivery[w] EXCEPT !.pc = "deciding"]
                                      ELSE delivery[v]
    BY <1>2, <1>6 DEF StartDelivery
  <2>2. delivery'[w].pc = "deciding" /\ delivery'[w].thread = delivery[w].thread
    BY <1>2, <2>1 DEF DeliveryState
  <2>3. ThreadsWait'  BY <2>1, <2>2 DEF FlagInv, ThreadsWait, In
  <2>4. ASSUME ~overlapped' PROVE FlagsApart'
    <3>1. ~overlapped /\ \A v \in Run : ~AtWork(v)  BY <1>6, <2>4 DEF StartDelivery
    <3>2. OneAtWork'  BY <2>1, <3>1 DEF OneAtWork, AtWork
    <3>3. InsertsFirst'
      BY <1>6, <2>1, <2>2, <3>1 DEF InsertsFirst, FlagInv, ThreadsWait, StartDelivery, In, AtWork
    <3>4. OneOpenFlag'
      BY <1>6, <3>1 DEF FlagInv, FlagsApart, OneOpenFlag, OpenFlags, StartDelivery
    <3> QED  BY <3>2, <3>3, <3>4 DEF FlagsApart
  <2> QED  BY <1>1, <2>3, <2>4 DEF FlagInv
<1>7. ASSUME NEW w \in Run, NEW s \in Sku, Observe(w, s) \/ PersistFlag(w, s) \/ InsertFlag(w, s)
      PROVE  FlagInv'
  BY <1>1, <1>7, ThreadKeeps
<1>8. ASSUME NEW w \in Run, ReadFlags(w) PROVE FlagInv'
  <2> DEFINE new == [delivery[w] EXCEPT !.pc = "flags", !.todo = OpenFlags]
  <2>1. new \in DeliveryState /\ new.pc = "flags"  BY <1>2 DEF DeliveryState, OpenFlags
  <2>2. delivery' = [delivery EXCEPT ![w] = new]
    BY <1>2, <1>8 DEF ReadFlags, DeliveryState
  <2>3. AtWork(w) /\ UNCHANGED <<flag, overlapped>>  BY <1>8 DEF ReadFlags, AtWork, In
  <2> HIDE DEF new
  <2> QED  BY <1>1, <2>1, <2>2, <2>3, DecidedShrink
<1>9. ASSUME NEW w \in Run, SkipFlag(w) \/ FlagFailed(w) PROVE FlagInv'
  BY <1>1, <1>9, NextFlagKeeps DEF SkipFlag, FlagFailed, AtWork, In
<1>10. ASSUME NEW w \in Run, ConsumeFlag(w) PROVE FlagInv'
  <2>1. PICK f \in Flag : NextFlagOf(w, f) /\ flag' = [flag EXCEPT ![f].status = "consumed"]
    BY <1>10 DEF ConsumeFlag
  <2>2. \A g \in Flag : flag'[g].status = "open" => UNCHANGED flag[g]  BY <1>2, <2>1
  <2> QED  BY <1>1, <1>10, <2>1, <2>2, NextFlagKeeps DEF ConsumeFlag, AtWork, In
<1>11. ASSUME NEW w \in Run, OrderFlag(w) PROVE FlagInv'
  <2> DEFINE new == [delivery[w] EXCEPT !.pc = "agent"]
  <2>1. new \in DeliveryState /\ new.pc = "agent"  BY <1>2 DEF DeliveryState
  <2>2. delivery' = [delivery EXCEPT ![w] = new]  BY <1>2, <1>11 DEF OrderFlag
  <2>3. AtWork(w) /\ UNCHANGED <<flag, overlapped>>  BY <1>11 DEF OrderFlag, AtWork, In
  <2> HIDE DEF new
  <2> QED  BY <1>1, <2>1, <2>2, <2>3, DecidedShrink
<1>12. ASSUME NEW w \in Run, AgentStep(w) PROVE FlagInv'  BY <1>3, <1>12 DEF AgentStep
<1>13. ASSUME NEW w \in Run, EndDelivery(w) \/ CrashDelivery(w) PROVE FlagInv'
  <2>1. PICK pc \in {"done", "crashed"} : delivery' = [delivery EXCEPT ![w] = NoThreads(pc)]
    BY <1>13 DEF EndDelivery, CrashDelivery
  <2>2. NoThreads(pc) \in DeliveryState /\ NoThreads(pc).pc \notin {"idle", "deciding"}
    BY DEF NoThreads, DeliveryState, Thread
  <2> QED
    BY <1>1, <1>13, <2>1, <2>2, DecidedShrink DEF EndDelivery, CrashDelivery, AtWork, In
<1> QED
  BY <1>4, <1>5, <1>6, <1>7, <1>8, <1>9, <1>10, <1>11, <1>12, <1>13 DEF Next, Proceed

\* Two OPEN flags of one SKU come of overlapping deliveries and of nothing else: with
\* deliveries one after the other, crashes included, upsert_open_reorder_flag finds the
\* flag, though no constraint of the table stands behind it.
THEOREM OneFlagUnlessOverlapped == Spec => []OneOpenFlagUnlessOverlapped
<1>1. Init => FlagInv  BY FlagInit
<1>2. FlagInv /\ [Next]_vars => FlagInv'  BY FlagStep
<1>3. FlagInv => OneOpenFlagUnlessOverlapped
  BY DEF FlagInv, FlagsApart, OneOpenFlag, OneOpenFlagUnlessOverlapped
<1> QED  BY <1>1, <1>2, <1>3, PTL DEF Spec

-----------------------------------------------------------------------------
(***************************************************************************)
(* What becomes of the orders.                                             *)
(*                                                                         *)
(* Where nobody edits, an order keeps its key, is never deleted and never  *)
(* becomes a draft again, and its workflow record stays.                   *)
(***************************************************************************)
OrdersStay ==
    \A p \in PO : Exists(p) => /\ Exists(p)' /\ order'[p].key = order[p].key
                               /\ order'[p].status = "draft" => order[p].status = "draft"
RecordsStay == \A p \in PO : workflow[p] # NoWorkflow => workflow'[p] # NoWorkflow

NothingBecomesDraft == \A c \in Client : client[c].op = "transition" => client[c].to # "draft"

LEMMA OrderWritten ==
    ASSUME TableTypeOK, NEW p \in PO, NEW s \in Status \ {"draft"}, SetStatus(p, s)
    PROVE  OrdersStay /\ order'[p].status = s
<1>1. order' = [order EXCEPT ![p] = [order[p] EXCEPT !.status = s]]
  BY DEF SetStatus, TableTypeOK
<1>2. /\ [order[p] EXCEPT !.status = s].status = s
      /\ [order[p] EXCEPT !.status = s].key = order[p].key
  BY DEF TableTypeOK, Row
<1>3. \A q \in PO : order'[q] = IF q = p THEN [order[p] EXCEPT !.status = s] ELSE order[q]
  BY <1>1 DEF TableTypeOK
<1>4. s \notin NoRow  BY DEF NoRow, Status, ActiveStatus, InFlightStatus, FinalStatus
<1> QED  BY <1>2, <1>3, <1>4 DEF OrdersStay, Exists

LEMMA OrderInserted ==
    ASSUME TableTypeOK, NEW p \in PO, NEW row, CreateRow(p, row)
    PROVE  OrdersStay /\ order'[p] = row
<1>1. order[p].status = "unborn"  BY DEF CreateRow, NextId, Unborn
<1>2. \A q \in PO : order'[q] = IF q = p THEN row ELSE order[q]  BY DEF CreateRow, TableTypeOK
<1> QED  BY <1>1, <1>2 DEF OrdersStay, Exists, NoRow

LEMMA OrdersSame == ASSUME UNCHANGED order PROVE OrdersStay
BY DEF OrdersStay, Exists

LEMMA OrdersStayService ==
    ASSUME ~Editing, TableTypeOK, ServiceTypeOK, HeldIsAllowed, NothingBecomesDraft, ServiceNext
    PROVE  OrdersStay /\ NothingBecomesDraft'
<1>1. {"approved", "rejected", "sent"} \subseteq Status \ {"draft"}
  BY DEF Status, ActiveStatus, InFlightStatus, FinalStatus
<1>2. ASSUME UNCHANGED client PROVE NothingBecomesDraft'  BY <1>2 DEF NothingBecomesDraft
<1>3. ASSUME NEW p \in PO, ApproveBegin(p) \/ DispatchSupplierEmail(p) \/ ApproveRollback(p)
      PROVE  OrdersStay /\ NothingBecomesDraft'
  BY <1>2, <1>3, OrdersSame DEF ApproveBegin, DispatchSupplierEmail, ApproveRollback
<1>4. ASSUME NEW p \in PO, ApproveCommit(p) \/ RejectPO(p)
      PROVE  OrdersStay /\ NothingBecomesDraft'
  BY <1>1, <1>2, <1>4, OrderWritten DEF ApproveCommit, RejectPO
<1>5. ASSUME NEW p \in PO, NEW row \in Writable(EmptyRow("draft")), CreateOrder(p, row)
      PROVE  OrdersStay /\ NothingBecomesDraft'
  BY <1>2, <1>5, OrderInserted DEF CreateOrder
<1>6. ASSUME NEW c \in Client, NEW p \in PO, SendPO(c, p)
      PROVE  OrdersStay /\ NothingBecomesDraft'
  <2>1. order' = [order EXCEPT ![p] = [order[p] EXCEPT !.status = "sent", !.sentAt = "recent"]]
    BY <1>6 DEF SendPO, TableTypeOK
  <2>2. /\ [order[p] EXCEPT !.status = "sent", !.sentAt = "recent"].status = "sent"
        /\ [order[p] EXCEPT !.status = "sent", !.sentAt = "recent"].key = order[p].key
    BY DEF TableTypeOK, Row
  <2>3. OrdersStay  BY <2>1, <2>2 DEF OrdersStay, TableTypeOK, Exists, NoRow
  <2> QED  BY <1>2, <1>6, <2>3 DEF SendPO
<1>7. ASSUME NEW c \in Client, NEW p \in PO, NEW s \in ToolTargets, TransitionRead(c, p, s)
      PROVE  OrdersStay /\ NothingBecomesDraft'
  <2>1. order[p].status \in Status  BY <1>7 DEF TransitionRead, Exists, TableTypeOK, Row
  <2>2. s # "draft"
    BY <1>7, <2>1 DEF TransitionRead, LEGAL_TRANSITIONS, Status, ActiveStatus, InFlightStatus,
                      FinalStatus
  <2>3. NothingBecomesDraft'
    BY <1>7, <2>2 DEF TransitionRead, Transition, NothingBecomesDraft, ServiceTypeOK
  <2> QED  BY <1>7, <2>3, OrdersSame DEF TransitionRead, tableVars
<1>8. ASSUME NEW c \in Client, TransitionWrite(c) PROVE OrdersStay /\ NothingBecomesDraft'
  <2>1. client[c].po \in PO
    BY <1>8 DEF TransitionWrite, ServiceTypeOK, ClientState, Idle, Transition, Edit
  <2>2. client[c].to \in Status \ {"draft"}
    BY <1>8, ServiceAssumption DEF TransitionWrite, HeldIsAllowed, NothingBecomesDraft
  <2>3. OrdersStay  BY <1>8, <2>1, <2>2, OrdersSame, OrderWritten DEF TransitionWrite
  <2>4. NothingBecomesDraft'
    BY <1>8 DEF TransitionWrite, NothingBecomesDraft, ServiceTypeOK, Idle
  <2> QED  BY <2>3, <2>4
<1>9. ASSUME NEW c \in Client PROVE ~EditSave(c)  BY DEF HeldIsAllowed, EditSave
<1>10. ASSUME NEW c \in Client, NEW p \in PO PROVE ~EditRead(c, p)  BY DEF EditRead
<1> QED
  BY <1>3, <1>4, <1>5, <1>6, <1>7, <1>8, <1>9, <1>10 DEF ServiceNext

\* Neither does a run delete an order, turn one into a draft or drop a workflow record.
LEMMA OrdersStayRun ==
    ASSUME TableTypeOK, AgentTypeOK, NEW a \in Run, Advance(a)
    PROVE  OrdersStay /\ RecordsStay
<1>1. Ordered(a) \in PO  BY DEF AgentTypeOK, Ordered, RunState
<1>2. {"pending_approval", "approved", "rejected", "email_sent", "waiting_confirmation",
       "confirmed", "failed", "timeout"} \subseteq Status \ {"draft"}
  BY DEF Status, ActiveStatus, InFlightStatus, FinalStatus
<1>3. ASSUME UNCHANGED workflow PROVE RecordsStay  BY <1>3 DEF RecordsStay
<1>4. ASSUME NEW s, s # NoWorkflow, UpdateStatus(a, s) PROVE RecordsStay
  BY <1>1, <1>4 DEF UpdateStatus, RecordsStay, AgentTypeOK
<1>5. ASSUME NEW s \in Status \ {"draft"}, NEW pc, WriteThen(a, s, pc) PROVE OrdersStay /\ RecordsStay
  BY <1>1, <1>3, <1>5, OrdersSame, OrderWritten DEF WriteThen
<1>6. CASE DraftInsert(a)
  BY <1>3, <1>6, OrdersSame, OrderInserted DEF DraftInsert
<1>7. CASE WorkflowInsert(a)
  <2>1. RecordsStay  BY <1>1, <1>7 DEF WorkflowInsert, RecordsStay, AgentTypeOK, NoWorkflow
  <2> QED  BY <1>7, <2>1, OrdersSame DEF WorkflowInsert, tableVars
<1>8. CASE PendingWrite(a) \/ WaitingWrite(a) \/ ConfirmWrite(a) \/ MarkFailed(a) \/ MarkTimeout(a)
  BY <1>2, <1>5, <1>8 DEF PendingWrite, WaitingWrite, ConfirmWrite, MarkFailed, MarkTimeout
<1>9. CASE RunApproves(a) \/ RunRejects(a)
  BY <1>1, <1>2, <1>3, <1>9, OrdersSame, OrderWritten DEF RunApproves, RunRejects
<1>10. CASE EmailSentWrite(a)
  <2>1. CASE UNCHANGED order  BY <1>3, <1>10, <2>1, OrdersSame DEF EmailSentWrite
  <2>2. CASE ~UNCHANGED order
    <3> DEFINE row == [order[Ordered(a)] EXCEPT !.status = "email_sent", !.sentAt = "recent",
                                                !.messageId = TRUE]
    <3>1. order' = [order EXCEPT ![Ordered(a)] = row]
      BY <1>1, <1>10, <2>2 DEF EmailSentWrite, TableTypeOK
    <3>2. row.status = "email_sent" /\ row.key = order[Ordered(a)].key
      BY <1>1 DEF TableTypeOK, Row
    <3> HIDE DEF row
    <3>3. OrdersStay  BY <1>1, <3>1, <3>2 DEF OrdersStay, TableTypeOK, Exists, NoRow
    <3> QED  BY <1>3, <1>10, <3>3 DEF EmailSentWrite
  <2> QED  BY <2>1, <2>2
<1>11. CASE SendEmail(a)  BY <1>3, <1>11, OrdersSame DEF SendEmail
<1>12. CASE ApprovalGate(a)
  <2>1. "pending_approval" # NoWorkflow  BY DEF NoWorkflow
  <2> QED  BY <1>4, <1>12, <2>1, OrdersSame DEF ApprovalGate, tableVars
<1>13. CASE RecordWorkflow(a)
  <2>1. \A s \in {"approved", "email_sent", "waiting_confirmation", "rejected", "confirmed",
                  "failed", "timeout"} : s # NoWorkflow
    BY DEF NoWorkflow
  <2> QED
    BY <1>4, <1>13, <2>1, OrdersSame DEF RecordWorkflow, Record, RecordAndReturn, tableVars
<1>14. CASE WorkflowRead(a) \/ PendingRead(a) \/ EmailSentRead(a) \/ WaitingRead(a) \/ Poll(a)
            \/ ConfirmRead(a)
  BY <1>3, <1>14, OrdersSame
  DEF WorkflowRead, PendingRead, EmailSentRead, WaitingRead, Poll, ConfirmRead, CheckThen,
      tableVars
<1> QED
  BY <1>6, <1>7, <1>8, <1>9, <1>10, <1>11, <1>12, <1>13, <1>14 DEF Advance

-----------------------------------------------------------------------------
(***************************************************************************)
(* No reorder is lost.                                                     *)
(*                                                                         *)
(* A delivery runs the agent for the flag at hand; what it runs holds an   *)
(* order of that flag's SKU from its draft on, past the drafting steps one *)
(* that has left 'draft', and it ends well only with a workflow record.    *)
(***************************************************************************)
Drafting == {"workflow_read", "workflow_insert", "pending_read", "pending_write"}
Ordering(w) == run[w].pc \notin {"idle", "draft_insert", "done", "crashed"}
EndedWell(w) == result[w] \notin {"none", "failed"}

MindsFlag(w) ==
    /\ delivery[w].pc # "agent" => run[w].pc = "idle" /\ result[w] = "none"
    /\ delivery[w].pc = "agent" => \E f \in Flag : AtHand(w, f) /\ run[w].key.sku = flag[f].sku
    /\ \A f \in delivery[w].todo : flag[f].status # "none"
HoldsOrder(w) ==
    Ordering(w) \/ EndedWell(w) =>
        /\ Exists(run[w].po) /\ order[run[w].po].key = run[w].key
        /\ order[run[w].po].status = "draft" => run[w].pc \in Drafting /\ run[w].drafted
IsRecorded(w) == EndedWell(w) => run[w].pc = "done" /\ workflow[run[w].po] # NoWorkflow

Serves(w) == HoldsOrder(w) /\ IsRecorded(w)

OrderedInv ==
    /\ TypeOK /\ HeldIsAllowed /\ NothingBecomesDraft
    /\ \A w \in Run : MindsFlag(w) /\ Serves(w)
    /\ ConsumedWasOrdered

LEMMA OrderedInit == Init => OrderedInv
<1> SUFFICES ASSUME Init PROVE OrderedInv  OBVIOUS
<1>1. TypeOK  BY InitType
<1>2. HeldIsAllowed /\ NothingBecomesDraft
  BY DEF Init, ServiceInit, HeldIsAllowed, NothingBecomesDraft, Idle
<1>3. \A w \in Run : /\ run[w].pc = "idle" /\ result[w] = "none"
                     /\ delivery[w].pc = "idle" /\ delivery[w].todo = {}
  BY DEF Init, AgentInit, NewRun, NoThreads
<1>4. \A f \in Flag : flag[f].status = "none"  BY DEF Init
<1>5. \A w \in Run : MindsFlag(w)  BY <1>3 DEF MindsFlag
<1>6. \A w \in Run : Serves(w)
  BY <1>3 DEF Serves, HoldsOrder, IsRecorded, Ordering, EndedWell
<1>7. ConsumedWasOrdered  BY <1>4 DEF ConsumedWasOrdered
<1> QED  BY <1>1, <1>2, <1>5, <1>6, <1>7 DEF OrderedInv

-----------------------------------------------------------------------------
\* What a run keeps while it moves on, and where its result comes from.
LEMMA RunMoves ==
    ASSUME AgentTypeOK, NEW a \in Run, NEW pc, Goto(a, pc)
    PROVE  /\ run'[a].pc = pc /\ run'[a].po = run[a].po /\ run'[a].key = run[a].key
           /\ run'[a].drafted = run[a].drafted /\ run'[a].ctx = run[a].ctx
           /\ result'[a] = result[a]
BY DEF Goto, AgentTypeOK, RunState

LEMMA RunReturns ==
    ASSUME AgentTypeOK, NEW a \in Run, NEW r, Return(a, r)
    PROVE  /\ run'[a].pc = "done" /\ run'[a].po = run[a].po /\ run'[a].key = run[a].key
           /\ run'[a].drafted = run[a].drafted /\ run'[a].ctx = run[a].ctx
           /\ result'[a] = r
BY DEF Return, AgentTypeOK, RunState

\* A run that goes on still holds its order, if it goes past the drafting steps with
\* an order that is no draft.
LEMMA ServesOn ==
    ASSUME AgentTypeOK, OrdersStay, NEW a \in Run, Serves(a), Ordering(a), NEW pc, Goto(a, pc),
           order'[run[a].po].status = "draft" => pc \in Drafting /\ run[a].drafted
    PROVE  Serves(a)' /\ run'[a].key = run[a].key
<1>1. run[a].po \in PO  BY DEF AgentTypeOK, RunState
<1>2. ~EndedWell(a)  BY DEF Serves, IsRecorded, Ordering
<1>3. order'[run[a].po].status \notin NoRow /\ order'[run[a].po].key = run[a].key
  BY <1>1 DEF Serves, HoldsOrder, OrdersStay, Exists
<1>4. ~EndedWell(a)'  BY <1>2, RunMoves DEF EndedWell
<1> QED  BY <1>3, <1>4, RunMoves DEF Serves, HoldsOrder, IsRecorded, Exists

LEMMA ServesRaised ==
    ASSUME AgentTypeOK, NEW a \in Run, Raise(a)
    PROVE  Serves(a)' /\ run'[a].key = run[a].key
BY RunReturns DEF Raise, Serves, HoldsOrder, IsRecorded, Ordering, EndedWell

\* Past the drafting steps, an order never is a draft again.
LEMMA ServesPast ==
    ASSUME AgentTypeOK, OrdersStay, NEW a \in Run, Serves(a), Ordering(a), run[a].pc \notin Drafting
    PROVE  /\ order'[run[a].po].status \notin NoRow \cup {"draft"}
           /\ order'[run[a].po].key = run[a].key
<1>1. run[a].po \in PO  BY DEF AgentTypeOK, RunState
<1> QED  BY <1>1 DEF Serves, HoldsOrder, OrdersStay, Exists

LEMMA ServesReturned ==
    ASSUME AgentTypeOK, OrdersStay, NEW a \in Run, Serves(a), Ordering(a), run[a].pc \notin Drafting,
           NEW r, Return(a, r), workflow'[run[a].po] # NoWorkflow
    PROVE  Serves(a)' /\ run'[a].key = run[a].key
BY ServesPast, RunReturns DEF Serves, HoldsOrder, IsRecorded, Exists

\* Every statement of a run leaves it with its order.
LEMMA ServesStep ==
    ASSUME TableTypeOK, AgentTypeOK, NEW a \in Run, Serves(a), Advance(a)
    PROVE  Serves(a)' /\ run'[a].key = run[a].key
<1> DEFINE Done == Serves(a)' /\ run'[a].key = run[a].key
<1>1. OrdersStay /\ RecordsStay  BY OrdersStayRun
<1>2. Ordered(a) = run[a].po /\ run[a].po \in PO  BY DEF Ordered, AgentTypeOK, RunState
<1>3. ASSUME Raise(a) PROVE Done  BY <1>3, ServesRaised
<1>4. ASSUME Ordering(a), run[a].pc \notin Drafting, NEW pc, Goto(a, pc) PROVE Done
  BY <1>1, <1>4, ServesOn, ServesPast
<1>5. ASSUME Ordering(a), run[a].pc \notin Drafting, NEW r, Return(a, r),
             workflow'[run[a].po] # NoWorkflow
      PROVE  Done
  BY <1>1, <1>5, ServesReturned
<1>6. CASE DraftInsert(a)
  <2>1. CASE Raise(a)  BY <1>3, <2>1
  <2>2. CASE ~Raise(a)
    <3>1. PICK p \in PO :
              /\ CreateRow(p, [EmptyRow("draft") EXCEPT !.key = run[a].key])
              /\ run' = [run EXCEPT ![a] = [@ EXCEPT !.pc = "workflow_read", !.po = p, !.drafted = TRUE]]
              /\ UNCHANGED result
      BY <1>6, <2>2 DEF DraftInsert
    <3>2. run[a] \in RunState  BY DEF AgentTypeOK
    <3>3. /\ run'[a].pc = "workflow_read" /\ run'[a].po = p /\ run'[a].key = run[a].key
          /\ run'[a].drafted = TRUE
      BY <3>1, <3>2 DEF AgentTypeOK, RunState
    <3>4. order'[p].status = "draft" /\ order'[p].key = run[a].key
      <4>1. order'[p] = [EmptyRow("draft") EXCEPT !.key = run[a].key]  BY <3>1, OrderInserted
      <4>2. EmptyRow("draft") \in Row  BY EmptyRowType DEF Status, ActiveStatus
      <4>3. EmptyRow("draft").status = "draft"  BY DEF EmptyRow
      <4> QED  BY <4>1, <4>2, <4>3 DEF Row
    <3>5. ~EndedWell(a)'  BY <1>6, <3>1 DEF Serves, IsRecorded, EndedWell, DraftInsert, At
    <3> QED
      BY <3>3, <3>4, <3>5 DEF Serves, HoldsOrder, IsRecorded, Drafting, Exists, NoRow
  <2> QED  BY <2>1, <2>2
<1>7. CASE WorkflowRead(a)
  <2>1. Ordering(a)  BY <1>7 DEF WorkflowRead, At, Ordering
  <2>2. UNCHANGED order  BY <1>7 DEF WorkflowRead, tableVars
  <2>3. order[run[a].po].status = "draft" => run[a].drafted  BY <2>1 DEF Serves, HoldsOrder
  <2>4. PICK pc : Goto(a, pc) /\ (run[a].drafted => pc \in Drafting)
    BY <1>7 DEF WorkflowRead, Drafting
  <2> QED  BY <1>1, <2>1, <2>2, <2>3, <2>4, ServesOn
<1>8. CASE WorkflowInsert(a)
  <2>1. Ordering(a)  BY <1>8 DEF WorkflowInsert, At, Ordering
  <2>2. UNCHANGED order  BY <1>8 DEF WorkflowInsert, tableVars
  <2>3. order[run[a].po].status = "draft" => run[a].drafted  BY <2>1 DEF Serves, HoldsOrder
  <2>4. CASE ~Raise(a)
    <3>1. PICK pc : Goto(a, pc) /\ (run[a].drafted => pc \in Drafting)
      BY <1>8, <2>4 DEF WorkflowInsert, Drafting
    <3> QED  BY <1>1, <2>1, <2>2, <2>3, <3>1, ServesOn
  <2> QED  BY <1>3, <2>4
<1>9. CASE PendingRead(a)
  <2>1. Ordering(a)  BY <1>9 DEF PendingRead, At, Ordering
  <2>2. UNCHANGED order  BY <1>9 DEF PendingRead, CheckThen, tableVars
  <2>3. order[run[a].po].status = "draft" => run[a].drafted  BY <2>1 DEF Serves, HoldsOrder
  <2>4. Exists(Ordered(a))  BY <1>2, <2>1 DEF Serves, HoldsOrder
  <2> DEFINE next == IF Exists(Ordered(a)) /\ "pending_approval" \in LEGAL_TRANSITIONS[StatusOf(a)]
                     THEN "pending_write" ELSE "gate"
  <2>5. CheckThen(a, TRUE, next)  BY <1>9 DEF PendingRead
  <2>6. order[run[a].po].status = "draft" => next \in Drafting
    BY <1>2, <2>4 DEF StatusOf, LEGAL_TRANSITIONS, Status, ActiveStatus, Drafting
  <2> HIDE DEF next
  <2>7. Goto(a, next)  BY <2>4, <2>5 DEF CheckThen
  <2> QED  BY <1>1, <2>1, <2>2, <2>3, <2>6, <2>7, ServesOn
<1>10. CASE PendingWrite(a)
  <2>1. Ordering(a)  BY <1>10 DEF PendingWrite, At, Ordering
  <2>2. CASE ~Raise(a)
    <3>1. SetStatus(run[a].po, "pending_approval") /\ Goto(a, "gate")
      BY <1>2, <1>10, <2>2 DEF PendingWrite, WriteThen
    <3>2. "pending_approval" \in Status \ {"draft"}  BY DEF Status, ActiveStatus
    <3>3. order'[run[a].po].status # "draft"  BY <1>2, <3>1, <3>2, OrderWritten
    <3> QED  BY <1>1, <2>1, <3>1, <3>3, ServesOn
  <2> QED  BY <1>3, <2>2
<1>11. CASE ApprovalGate(a)
  <2>1. Ordering(a) /\ run[a].pc \notin Drafting
    BY <1>11 DEF ApprovalGate, At, Ordering, Drafting
  <2>2. HasWorkflow(a) => workflow'[run[a].po] # NoWorkflow
    BY <1>1, <1>2 DEF HasWorkflow, RecordsStay
  <2> QED  BY <1>3, <1>4, <1>5, <1>11, <2>1, <2>2 DEF ApprovalGate
<1>12. CASE RecordWorkflow(a)
  <2>1. Ordering(a) /\ run[a].pc \notin Drafting
    BY <1>12 DEF RecordWorkflow, Record, RecordAndReturn, At, Ordering, Drafting
  <2>2. HasWorkflow(a) => workflow'[run[a].po] # NoWorkflow
    BY <1>1, <1>2 DEF HasWorkflow, RecordsStay
  <2> QED
    BY <1>3, <1>4, <1>5, <1>12, <2>1, <2>2 DEF RecordWorkflow, Record, RecordAndReturn
<1>13. CASE Poll(a)
  <2>1. Ordering(a) /\ run[a].pc \notin Drafting  BY <1>13 DEF Poll, At, Ordering, Drafting
  <2>2. CASE run' = [run EXCEPT ![a].attempt = @ + 1] /\ UNCHANGED result
    <3>1. run[a] \in RunState  BY DEF AgentTypeOK
    <3>2. /\ run'[a].pc = run[a].pc /\ run'[a].po = run[a].po /\ run'[a].key = run[a].key
          /\ run'[a].drafted = run[a].drafted /\ result'[a] = result[a]
      BY <2>2, <3>1 DEF AgentTypeOK, RunState
    <3>3. ~EndedWell(a)  BY <2>1 DEF Serves, IsRecorded, Ordering
    <3> QED
      BY <1>1, <2>1, <3>2, <3>3, ServesPast
      DEF Serves, HoldsOrder, IsRecorded, EndedWell, Exists
  <2> QED  BY <1>3, <1>4, <1>13, <2>1, <2>2 DEF Poll
<1>14. CASE RunApproves(a) \/ RunRejects(a) \/ SendEmail(a) \/ EmailSentWrite(a)
  <2>1. Ordering(a) /\ run[a].pc \notin Drafting
    BY <1>14 DEF RunApproves, RunRejects, SendEmail, EmailSentWrite, At, Ordering, Drafting
  <2> QED
    BY <1>3, <1>4, <1>14, <2>1 DEF RunApproves, RunRejects, SendEmail, EmailSentWrite
<1>15. CASE EmailSentRead(a) \/ WaitingRead(a) \/ ConfirmRead(a)
  <2>1. Ordering(a) /\ run[a].pc \notin Drafting
    BY <1>15 DEF EmailSentRead, WaitingRead, ConfirmRead, At, Ordering, Drafting
  <2> QED  BY <1>3, <1>4, <1>15, <2>1 DEF EmailSentRead, WaitingRead, ConfirmRead, CheckThen
<1>16. CASE WaitingWrite(a) \/ ConfirmWrite(a) \/ MarkFailed(a) \/ MarkTimeout(a)
  <2>1. Ordering(a) /\ run[a].pc \notin Drafting
    BY <1>16 DEF WaitingWrite, ConfirmWrite, MarkFailed, MarkTimeout, At, Ordering, Drafting
  <2> QED
    BY <1>3, <1>4, <1>16, <2>1
    DEF WaitingWrite, ConfirmWrite, MarkFailed, MarkTimeout, WriteThen
<1> QED
  BY <1>6, <1>7, <1>8, <1>9, <1>10, <1>11, <1>12, <1>13, <1>14, <1>15, <1>16 DEF Advance

\* A run that begins with an order already there has found one that is no draft, or
\* says so.
LEMMA ServesStart ==
    ASSUME TableTypeOK, AgentTypeOK, NEW a \in Run, result[a] = "none", NEW k \in Key, NEW ctx,
           StartRun(a, k, ctx)
    PROVE  Serves(a)' /\ run'[a].key = k
<1>1. run[a] \in RunState  BY DEF AgentTypeOK
<1>2. ~EndedWell(a)'  BY DEF StartRun, EndedWell
<1>3. UNCHANGED order  BY DEF StartRun, tableVars
<1>4. CASE run' = [run EXCEPT ![a] = [@ EXCEPT !.pc = "draft_insert", !.key = k, !.ctx = ctx]]
  <2>1. run'[a].pc = "draft_insert" /\ run'[a].key = k  BY <1>1, <1>4 DEF AgentTypeOK, RunState
  <2> QED  BY <1>2, <2>1 DEF Serves, HoldsOrder, IsRecorded, Ordering
<1>5. ASSUME NEW p \in PO, Newest(p, ActiveRows(k)),
             run' = [run EXCEPT ![a] = [@ EXCEPT !.pc = "workflow_read", !.key = k, !.ctx = ctx, !.po = p,
                                                 !.drafted = (order[p].status = "draft")]]
      PROVE  Serves(a)' /\ run'[a].key = k
  <2>1. /\ run'[a].pc = "workflow_read" /\ run'[a].key = k /\ run'[a].po = p
        /\ run'[a].drafted = (order[p].status = "draft")
    BY <1>1, <1>5 DEF AgentTypeOK, RunState
  <2>2. order[p].key = k /\ Exists(p)
    BY <1>5 DEF Newest, ActiveRows, ActiveStatus, Exists, NoRow
  <2> QED
    BY <1>2, <1>3, <2>1, <2>2 DEF Serves, HoldsOrder, IsRecorded, Drafting, Exists
<1> QED  BY <1>4, <1>5 DEF StartRun

-----------------------------------------------------------------------------
\* The runs of the other deliveries keep their orders and their flags.
LEMMA ServesElsewhere ==
    ASSUME AgentTypeOK, OrdersStay, RecordsStay, NEW v \in Run, Serves(v),
           UNCHANGED <<run[v], result[v]>>
    PROVE  Serves(v)'
<1>1. run[v].po \in PO  BY DEF AgentTypeOK, RunState
<1> QED
  BY <1>1
  DEF Serves, HoldsOrder, IsRecorded, Ordering, EndedWell, OrdersStay, RecordsStay, Exists

LEMMA MindsElsewhere ==
    ASSUME TypeOK, NEW v \in Run, MindsFlag(v), UNCHANGED <<run[v], result[v], delivery[v]>>,
           \A f \in Flag : flag[f].status # "none" =>
               flag'[f].status # "none" /\ flag'[f].sku = flag[f].sku
    PROVE  MindsFlag(v)'
<1>1. delivery[v].todo \subseteq Flag  BY DEF TypeOK, DeliveryState
<1> QED  BY <1>1 DEF MindsFlag, AtHand

LEMMA ResultsElsewhere ==
    ASSUME AgentTypeOK, NEW a \in Run, Advance(a), NEW b \in Run, b # a
    PROVE  run'[b] = run[b] /\ result'[b] = result[b]
<1>1. run'[b] = run[b]  BY RunsElsewhere DEF RunNext
<1>2. result'[b] = result[b]
  BY DEF AgentTypeOK, Advance, DraftInsert, WorkflowRead, WorkflowInsert,
       PendingRead, PendingWrite, ApprovalGate, RunApproves, RunRejects, SendEmail,
       EmailSentRead, EmailSentWrite, WaitingRead, WaitingWrite, Poll, ConfirmRead, ConfirmWrite,
       MarkFailed, MarkTimeout, RecordWorkflow, CheckThen, WriteThen, Record,
       RecordAndReturn, Goto, Return, Raise
<1> QED  BY <1>1, <1>2

\* A flag that was consumed stays behind the order that was made for it.
LEMMA ConsumedKept ==
    ASSUME ConsumedWasOrdered, OrdersStay, RecordsStay,
           \A f \in Flag : flag'[f].status = "consumed" => UNCHANGED flag[f]
    PROVE  ConsumedWasOrdered'
<1> SUFFICES ASSUME NEW f \in Flag, flag'[f].status = "consumed"
             PROVE  \E p \in PO : /\ order'[p].key.sku = flag'[f].sku
                                  /\ Exists(p)' /\ order'[p].status # "draft"
                                  /\ workflow'[p] # NoWorkflow
  BY DEF ConsumedWasOrdered
<1>1. PICK p \in PO : /\ order[p].key.sku = flag[f].sku
                      /\ Exists(p) /\ order[p].status # "draft" /\ workflow[p] # NoWorkflow
  BY DEF ConsumedWasOrdered
<1> QED  BY <1>1 DEF OrdersStay, RecordsStay

\* A step that touches no order: its delivery has to keep to its flag.
LEMMA OrderedUnordered ==
    ASSUME OrderedInv, TypeOK', UNCHANGED <<tableVars, client, workflow>>, NEW w \in Run,
           \A v \in Run \ {w} : UNCHANGED <<run[v], result[v], delivery[v]>>,
           \A f \in Flag : flag[f].status # "none" =>
               flag'[f].status # "none" /\ flag'[f].sku = flag[f].sku,
           MindsFlag(w)', Serves(w)', ConsumedWasOrdered'
    PROVE  OrderedInv'
<1>1. TypeOK /\ AgentTypeOK  BY DEF OrderedInv, TypeOK
<1>2. HeldIsAllowed' /\ NothingBecomesDraft'
  BY DEF OrderedInv, HeldIsAllowed, NothingBecomesDraft
<1>3. OrdersStay /\ RecordsStay  BY OrdersSame DEF tableVars, RecordsStay
<1>4. \A v \in Run \ {w} : MindsFlag(v)' /\ Serves(v)'
  BY <1>1, <1>3, MindsElsewhere, ServesElsewhere DEF OrderedInv
<1> QED  BY <1>2, <1>4 DEF OrderedInv

\* The same where no flag is touched and the delivery's run is not either.
LEMMA OrderedWaiting ==
    ASSUME OrderedInv, TypeOK', UNCHANGED <<Unordered, flag>>, NEW w \in Run,
           \A v \in Run \ {w} : UNCHANGED delivery[v],
           delivery[w].pc # "agent", delivery'[w].pc # "agent",
           \A f \in delivery'[w].todo : flag[f].status # "none"
    PROVE  OrderedInv'
<1>1. UNCHANGED <<tableVars, client, workflow, run, result>>  BY DEF Unordered, agentVars
<1>2. AgentTypeOK /\ Serves(w) /\ MindsFlag(w)  BY DEF OrderedInv, TypeOK
<1>3. OrdersStay /\ RecordsStay  BY <1>1, OrdersSame DEF tableVars, RecordsStay
<1>4. Serves(w)'  BY <1>1, <1>2, <1>3, ServesElsewhere
<1>5. MindsFlag(w)'  BY <1>1, <1>2 DEF MindsFlag
<1>6. ConsumedWasOrdered'  BY <1>3, ConsumedKept DEF OrderedInv
<1> QED  BY <1>1, <1>4, <1>5, <1>6, OrderedUnordered

\* And where the delivery's run is forgotten.
LEMMA OrderedForgotten ==
    ASSUME OrderedInv, TypeOK', NEW w \in Run, ForgetRun(w),
           \A v \in Run \ {w} : UNCHANGED delivery[v],
           delivery'[w].pc # "agent", delivery'[w].todo \subseteq delivery[w].todo,
           \A f \in Flag : flag[f].status # "none" =>
               flag'[f].status # "none" /\ flag'[f].sku = flag[f].sku,
           ConsumedWasOrdered'
    PROVE  OrderedInv'
<1>1. TypeOK /\ AgentTypeOK /\ MindsFlag(w)  BY DEF OrderedInv, TypeOK
<1>2. /\ run'[w].pc = "idle" /\ result'[w] = "none"
      /\ \A v \in Run \ {w} : UNCHANGED <<run[v], result[v]>>
  BY <1>1 DEF ForgetRun, AgentTypeOK, NewRun
<1>3. Serves(w)'  BY <1>2 DEF Serves, HoldsOrder, IsRecorded, Ordering, EndedWell
<1>4. delivery[w].todo \subseteq Flag  BY <1>1 DEF TypeOK, DeliveryState
<1>5. MindsFlag(w)'  BY <1>1, <1>2, <1>4 DEF MindsFlag
<1> QED  BY <1>2, <1>3, <1>5, OrderedUnordered DEF ForgetRun

LEMMA OrderedStep ==
    ASSUME ~Editing
    PROVE  OrderedInv /\ [Next]_vars => OrderedInv'
<1> SUFFICES ASSUME OrderedInv, [Next]_vars PROVE OrderedInv'  OBVIOUS
<1>1. /\ TypeOK /\ TypeOK' /\ HeldIsAllowed /\ NothingBecomesDraft /\ ConsumedWasOrdered
      /\ \A w \in Run : MindsFlag(w) /\ Serves(w)
  BY StepType DEF OrderedInv
<1>2. /\ TableTypeOK /\ ServiceTypeOK /\ AgentTypeOK
      /\ flag \in [Flag -> [sku: Sku, status: FlagStatus]]
      /\ delivery \in [Run -> DeliveryState]
  BY <1>1 DEF TypeOK
<1>3. \A w \in Run : delivery[w].todo \subseteq Flag  BY <1>2 DEF DeliveryState
<1>4. CASE UNCHANGED vars
  <2>1. UNCHANGED <<tableVars, client, run, result, workflow, flag, delivery>>
    BY <1>4 DEF vars, agentVars
  <2>2. OrdersStay /\ RecordsStay  BY <2>1, OrdersSame DEF tableVars, RecordsStay
  <2>3. \A w \in Run : MindsFlag(w)' /\ Serves(w)'
    BY <1>1, <1>2, <2>1, <2>2, MindsElsewhere, ServesElsewhere
  <2>4. ConsumedWasOrdered'  BY <1>1, <2>1, <2>2, ConsumedKept
  <2>5. HeldIsAllowed' /\ NothingBecomesDraft'
    BY <1>1, <2>1 DEF HeldIsAllowed, NothingBecomesDraft
  <2> QED  BY <1>1, <2>3, <2>4, <2>5 DEF OrderedInv
<1>5. CASE ServiceNext /\ UNCHANGED PipelineVars
  <2>1. UNCHANGED <<run, result, workflow, flag, delivery>>
    BY <1>5 DEF PipelineVars, agentVars
  <2>2. OrdersStay /\ NothingBecomesDraft' /\ HeldIsAllowed'
    BY <1>1, <1>2, <1>5, OrdersStayService, HeldService
  <2>3. RecordsStay  BY <2>1 DEF RecordsStay
  <2>4. \A w \in Run : MindsFlag(w)' /\ Serves(w)'
    BY <1>1, <1>2, <2>1, <2>2, <2>3, MindsElsewhere, ServesElsewhere
  <2>5. ConsumedWasOrdered'  BY <1>1, <2>1, <2>2, <2>3, ConsumedKept
  <2> QED  BY <1>1, <2>2, <2>4, <2>5 DEF OrderedInv
<1>6. ASSUME NEW w \in Run, StartDelivery(w) PROVE OrderedInv'
  <2>1. \A v \in Run : delivery'[v] = IF v = w THEN [delivery[w] EXCEPT !.pc = "deciding"]
                                      ELSE delivery[v]
    BY <1>2, <1>6 DEF StartDelivery
  <2>2. delivery'[w].pc = "deciding" /\ delivery'[w].todo = delivery[w].todo
    BY <1>2, <2>1 DEF DeliveryState
  <2> QED
    BY <1>1, <1>6, <2>1, <2>2, OrderedWaiting DEF StartDelivery, In, MindsFlag
<1>7. ASSUME NEW w \in Run, NEW s \in Sku, Observe(w, s) \/ PersistFlag(w, s) PROVE OrderedInv'
  <2>1. PICK at, to : SetThread(w, s, at, to)  BY <1>7 DEF Observe, PersistFlag
  <2>2. /\ delivery[w].pc = "deciding" /\ delivery'[w].pc = "deciding"
        /\ delivery'[w].todo = delivery[w].todo
        /\ \A v \in Run \ {w} : delivery'[v] = delivery[v]
    BY <1>1, <2>1, ThreadSet
  <2> QED
    BY <1>1, <1>7, <2>2, OrderedWaiting DEF Observe, PersistFlag, MindsFlag
<1>8. ASSUME NEW w \in Run, NEW s \in Sku, InsertFlag(w, s) PROVE OrderedInv'
  <2>1. /\ delivery[w].pc = "deciding" /\ delivery'[w].pc = "deciding"
        /\ delivery'[w].todo = delivery[w].todo
        /\ \A v \in Run \ {w} : delivery'[v] = delivery[v]
    BY <1>1, <1>8, ThreadSet DEF InsertFlag
  <2>2. UNCHANGED <<tableVars, client, run, result, workflow>>
    BY <1>8 DEF InsertFlag, Unordered, agentVars
  <2>3. PICK f \in Flag : /\ flag[f].status = "none"
                          /\ flag' = [flag EXCEPT ![f] = [sku |-> s, status |-> "open"]]
    BY <1>8 DEF InsertFlag, NextFlag
  <2>4. /\ flag'[f].status = "open" /\ \A g \in Flag \ {f} : flag'[g] = flag[g]
    BY <1>2, <2>3
  <2>5. OrdersStay /\ RecordsStay  BY <2>2, OrdersSame DEF tableVars, RecordsStay
  <2>6. ConsumedWasOrdered'  BY <1>1, <2>4, <2>5, ConsumedKept
  <2>7. Serves(w)'  BY <1>1, <1>2, <2>2, <2>5, ServesElsewhere
  <2>8. \A g \in Flag : flag[g].status # "none" =>
            flag'[g].status # "none" /\ flag'[g].sku = flag[g].sku
    BY <2>3, <2>4
  <2>9. MindsFlag(w)'  BY <1>1, <1>3, <2>1, <2>2, <2>8 DEF MindsFlag
  <2> QED  BY <1>1, <2>1, <2>2, <2>6, <2>7, <2>8, <2>9, OrderedUnordered
<1>9. ASSUME NEW w \in Run, ReadFlags(w) PROVE OrderedInv'
  <2> DEFINE new == [delivery[w] EXCEPT !.pc = "flags", !.todo = OpenFlags]
  <2>1. new.pc = "flags" /\ new.todo = OpenFlags  BY <1>2 DEF DeliveryState
  <2>2. delivery' = [delivery EXCEPT ![w] = new]
    BY <1>2, <1>9 DEF ReadFlags, DeliveryState
  <2> HIDE DEF new
  <2>3. /\ delivery'[w].pc = "flags" /\ delivery'[w].todo = OpenFlags
        /\ \A v \in Run \ {w} : delivery'[v] = delivery[v]
    BY <1>2, <2>1, <2>2
  <2>4. \A f \in delivery'[w].todo : flag[f].status # "none"  BY <2>3 DEF OpenFlags
  <2> QED  BY <1>1, <1>9, <2>3, <2>4, OrderedWaiting DEF ReadFlags, In
<1>10. ASSUME NEW w \in Run, NEW f \in Flag, NextFlagOf(w, f)
       PROVE  /\ delivery'[w].pc = "flags" /\ delivery'[w].todo = delivery[w].todo \ {f}
              /\ \A v \in Run \ {w} : delivery'[v] = delivery[v]
  <2>1. PICK new : delivery' = [delivery EXCEPT ![w] = new]
                   /\ new.pc = "flags" /\ new.todo = delivery[w].todo \ {f}
    BY <1>1, <1>10, FlagPassed
  <2> QED  BY <1>2, <2>1
<1>11. ASSUME NEW w \in Run, SkipFlag(w) PROVE OrderedInv'
  <2>1. PICK f \in Flag : NextFlagOf(w, f)  BY <1>11 DEF SkipFlag
  <2> QED
    BY <1>1, <1>10, <1>11, <2>1, OrderedWaiting DEF SkipFlag, In, MindsFlag
<1>12. ASSUME NEW w \in Run, OrderFlag(w) PROVE OrderedInv'
  <2>1. PICK f \in Flag, k \in Key : /\ AtHand(w, f) /\ k.sku = flag[f].sku
                                     /\ StartRun(w, k, "plain")
    BY <1>12 DEF OrderFlag
  <2>2. result[w] = "none"  BY <1>1, <1>12 DEF OrderFlag, In, MindsFlag
  <2>3. Serves(w)' /\ run'[w].key = k  BY <1>2, <2>1, <2>2, ServesStart
  <2>4. /\ delivery'[w].pc = "agent" /\ delivery'[w].todo = delivery[w].todo
        /\ \A v \in Run \ {w} : delivery'[v] = delivery[v]
    BY <1>2, <1>12 DEF OrderFlag, DeliveryState
  <2>5. UNCHANGED <<tableVars, client, workflow, result, flag>>  BY <1>12, <2>1 DEF OrderFlag, StartRun
  <2>6. \A v \in Run \ {w} : UNCHANGED <<run[v], result[v]>>
    BY <1>2, <2>1, <2>5 DEF StartRun, AgentTypeOK
  <2>7. MindsFlag(w)'  BY <1>1, <2>1, <2>3, <2>4, <2>5 DEF MindsFlag, AtHand
  <2>8. OrdersStay /\ RecordsStay  BY <2>5, OrdersSame DEF tableVars, RecordsStay
  <2>9. ConsumedWasOrdered'  BY <1>1, <2>5, <2>8, ConsumedKept
  <2> QED  BY <1>1, <2>3, <2>4, <2>5, <2>6, <2>7, <2>9, OrderedUnordered
<1>13. ASSUME NEW w \in Run, AgentStep(w) PROVE OrderedInv'
  <2>1. Advance(w) /\ UNCHANGED <<client, flag, delivery>> /\ delivery[w].pc = "agent"
    BY <1>13 DEF AgentStep, In
  <2>2. OrdersStay /\ RecordsStay  BY <1>2, <2>1, OrdersStayRun
  <2>3. Serves(w)' /\ run'[w].key = run[w].key  BY <1>1, <1>2, <2>1, ServesStep
  <2>4. \A v \in Run \ {w} : UNCHANGED <<run[v], result[v]>>
    BY <1>2, <2>1, ResultsElsewhere
  <2>5. MindsFlag(w)'  BY <1>1, <2>1, <2>3 DEF MindsFlag, AtHand
  <2>6. \A v \in Run \ {w} : MindsFlag(v)' /\ Serves(v)'
    BY <1>1, <1>2, <2>1, <2>2, <2>4, MindsElsewhere, ServesElsewhere
  <2>7. ConsumedWasOrdered'  BY <1>1, <2>1, <2>2, ConsumedKept
  <2>8. HeldIsAllowed' /\ NothingBecomesDraft'
    BY <1>1, <2>1 DEF HeldIsAllowed, NothingBecomesDraft
  <2> QED  BY <1>1, <2>3, <2>5, <2>6, <2>7, <2>8 DEF OrderedInv
<1>14. ASSUME NEW w \in Run, ForgetRun(w), UNCHANGED flag PROVE ConsumedWasOrdered'
  <2>1. OrdersStay /\ RecordsStay  BY <1>14, OrdersSame DEF ForgetRun, tableVars, RecordsStay
  <2> QED  BY <1>1, <1>14, <2>1, ConsumedKept
<1>15. ASSUME NEW w \in Run, FlagFailed(w) PROVE OrderedInv'
  <2>1. PICK f \in Flag : NextFlagOf(w, f)  BY <1>15 DEF FlagFailed
  <2> QED
    BY <1>1, <1>10, <1>14, <1>15, <2>1, OrderedForgotten DEF FlagFailed
<1>16. ASSUME NEW w \in Run, ConsumeFlag(w) PROVE OrderedInv'
  <2>1. PICK f \in Flag : /\ AtHand(w, f) /\ NextFlagOf(w, f)
                          /\ flag' = [flag EXCEPT ![f].status = "consumed"]
    BY <1>16 DEF ConsumeFlag
  <2>2. /\ flag'[f].status = "consumed" /\ flag'[f].sku = flag[f].sku
        /\ \A g \in Flag \ {f} : flag'[g] = flag[g]
    BY <1>2, <2>1
  <2>3. PICK g \in Flag : AtHand(w, g) /\ run[w].key.sku = flag[g].sku
    BY <1>1, <1>16 DEF ConsumeFlag, In, MindsFlag
  <2>4. g = f  BY <2>1, <2>3 DEF AtHand, Flag
  <2>5. EndedWell(w)  BY <1>16 DEF ConsumeFlag, EndedWell
  <2>6. /\ Exists(run[w].po) /\ order[run[w].po].key = run[w].key
        /\ order[run[w].po].status # "draft" /\ workflow[run[w].po] # NoWorkflow
    BY <1>1, <2>5 DEF Serves, HoldsOrder, IsRecorded, Drafting
  <2>7. UNCHANGED <<order, workflow>> /\ ForgetRun(w)
    BY <1>16 DEF ConsumeFlag, ForgetRun, tableVars
  <2>8. PICK p \in PO : p = run[w].po  BY <1>2 DEF AgentTypeOK, RunState
  <2>9. ConsumedWasOrdered'
    BY <1>1, <2>2, <2>3, <2>4, <2>6, <2>7, <2>8 DEF ConsumedWasOrdered, Exists
  <2>10. \A h \in Flag : flag[h].status # "none" =>
             flag'[h].status # "none" /\ flag'[h].sku = flag[h].sku
    BY <2>2
  <2> QED  BY <1>1, <1>10, <2>1, <2>7, <2>9, <2>10, OrderedForgotten
<1>17. ASSUME NEW w \in Run, NEW pc \in {"done", "crashed"},
              delivery' = [delivery EXCEPT ![w] = NoThreads(pc)]
       PROVE  /\ delivery'[w].pc # "agent" /\ delivery'[w].todo = {}
              /\ \A v \in Run \ {w} : delivery'[v] = delivery[v]
  BY <1>2, <1>17 DEF NoThreads
<1>18. ASSUME NEW w \in Run, EndDelivery(w) PROVE OrderedInv'
  BY <1>1, <1>17, <1>18, OrderedWaiting DEF EndDelivery, In
<1>19. ASSUME NEW w \in Run, CrashDelivery(w) PROVE OrderedInv'
  BY <1>1, <1>14, <1>17, <1>19, OrderedForgotten DEF CrashDelivery
<1> QED
  BY <1>4, <1>5, <1>6, <1>7, <1>8, <1>9, <1>11, <1>12, <1>13, <1>15, <1>16, <1>18, <1>19
  DEF Next, Proceed

\* Where nobody edits orders, no reorder is lost: behind a flag that is CONSUMED stands an
\* order of its SKU that has left 'draft' and has a workflow record, for any number of
\* deliveries that overlap, are killed or collide at the unique constraint.
THEOREM NoReorderLost ==
    ASSUME ~Editing
    PROVE  Spec => []ConsumedWasOrdered
<1>1. Init => OrderedInv  BY OrderedInit
<1>2. OrderedInv /\ [Next]_vars => OrderedInv'  BY OrderedStep
<1>3. OrderedInv => ConsumedWasOrdered  BY DEF OrderedInv
<1> QED  BY <1>1, <1>2, <1>3, PTL DEF Spec

-----------------------------------------------------------------------------
(***************************************************************************)
(* One open order of a SKU.                                                *)
(*                                                                         *)
(* Until deliveries overlap or one is killed, an order is open under an    *)
(* OPEN flag only while the run for that flag is at work on it; that run   *)
(* inserts its own draft and cannot fail.                                  *)
(***************************************************************************)
Untroubled == ~overlapped /\ ~interrupted
Open(p) == order[p].status \in ActiveStatus \cup InFlightStatus
Drafted(w) == run[w].pc \notin {"idle", "draft_insert"}

TodoIsOpen ==
    \A w \in Run : /\ delivery[w].todo \subseteq OpenFlags
                   /\ delivery[w].pc \notin {"flags", "agent"} => delivery[w].todo = {}
DecidedNeedsOrder ==
    \A w \in Run, s \in Sku :
        In(w, "deciding") /\ delivery[w].thread[s] \in {"decided", "insert"} => OpenOrdersOf(s) = {}
FlagNeedsOrder ==
    \A f \in OpenFlags :
        OpenOrdersOf(flag[f].sku) # {} => \E w \in Run : In(w, "agent") /\ AtHand(w, f) /\ Drafted(w)
OnlyRunsOrder ==
    \A w \in Run : In(w, "agent") /\ Drafted(w) => OpenOrdersOf(run[w].key.sku) \subseteq {run[w].po}
IsPlain(w) ==
    /\ run[w].ctx = "plain" /\ result[w] # "failed"
    /\ run[w].pc \in Drafting \cup {"draft_insert", "gate", "done"}
    /\ Drafted(w) => run[w].drafted
    /\ run[w].pc = "workflow_insert" => workflow[run[w].po] = NoWorkflow
    /\ run[w].pc \in {"pending_read", "pending_write", "gate"} => workflow[run[w].po] # NoWorkflow
RunsArePlain == \A w \in Run : In(w, "agent") => IsPlain(w)
LockedIsOpen == \A p \in PO : txn[p] # "none" => order[p].status \in {"draft", "pending_approval"}
OneOpenOrder == \A s \in Sku, p, q \in PO : p \in OpenOrdersOf(s) /\ q \in OpenOrdersOf(s) => p = q

OrdersApart ==
    /\ TodoIsOpen /\ DecidedNeedsOrder /\ FlagNeedsOrder /\ OnlyRunsOrder /\ RunsArePlain
    /\ LockedIsOpen /\ OneOpenOrder

ApartInv == OrderedInv /\ FlagInv /\ (Untroubled => OrdersApart)

LEMMA ApartInit == Init => ApartInv
<1> SUFFICES ASSUME Init PROVE ApartInv  OBVIOUS
<1>1. OrderedInv /\ FlagInv  BY OrderedInit, FlagInit
<1>2. \A w \in Run : delivery[w].pc = "idle" /\ delivery[w].todo = {}  BY DEF Init, NoThreads
<1>3. \A p \in PO : order[p].status = "unborn" /\ txn[p] = "none"
  BY DEF Init, TableInit, EmptyRow
<1>4. OpenFlags = {}  BY DEF Init, OpenFlags
<1>5. \A s \in Sku : OpenOrdersOf(s) = {}
  BY <1>3 DEF OpenOrdersOf, ActiveStatus, InFlightStatus
<1> QED
  BY <1>1, <1>2, <1>3, <1>4, <1>5
  DEF ApartInv, OrdersApart, TodoIsOpen, DecidedNeedsOrder, FlagNeedsOrder, OnlyRunsOrder,
      RunsArePlain, LockedIsOpen, OneOpenOrder, In

-----------------------------------------------------------------------------
\* What the managers and the clients do opens no order, where they insert none, edit none
\* and the tool only ends orders.
OpensNothing == \A s \in Sku : OpenOrdersOf(s)' \subseteq OpenOrdersOf(s)

LEMMA NothingOpened ==
    ASSUME TableTypeOK, NEW p \in PO, NEW row, order' = [order EXCEPT ![p] = row],
           row.key = order[p].key,
           row.status \in ActiveStatus \cup InFlightStatus => Open(p)
    PROVE  OpensNothing
<1>1. \A q \in PO : order'[q] = IF q = p THEN row ELSE order[q]  BY DEF TableTypeOK
<1> QED  BY <1>1 DEF OpensNothing, OpenOrdersOf, Open

LEMMA NothingOpenedByStatus ==
    ASSUME TableTypeOK, NEW p \in PO, NEW s, SetStatus(p, s),
           s \in ActiveStatus \cup InFlightStatus => Open(p)
    PROVE  OpensNothing
<1>1. order' = [order EXCEPT ![p] = [order[p] EXCEPT !.status = s]]
  BY DEF SetStatus, TableTypeOK
<1>2. /\ [order[p] EXCEPT !.status = s].status = s
      /\ [order[p] EXCEPT !.status = s].key = order[p].key
  BY DEF TableTypeOK, Row
<1> QED  BY <1>1, <1>2, NothingOpened

LEMMA OrdersSameOpen == ASSUME UNCHANGED order PROVE \A s : OpenOrdersOf(s)' = OpenOrdersOf(s)
BY DEF OpenOrdersOf

LEMMA ServiceOpensNothing ==
    ASSUME ~Editing, ~Creating, ToolTargets \subseteq FinalStatus,
           TableTypeOK, ServiceTypeOK, HeldIsAllowed, LockedIsOpen, ServiceNext
    PROVE  OpensNothing /\ LockedIsOpen'
<1>1. /\ {"draft", "pending_approval"} \subseteq ActiveStatus
      /\ FinalStatus \cap (ActiveStatus \cup InFlightStatus) = {}
  BY DEF ActiveStatus, FinalStatus, InFlightStatus
<1>2. ASSUME UNCHANGED order PROVE OpensNothing  BY <1>2, OrdersSameOpen DEF OpensNothing
<1>3. ASSUME NEW p \in PO, NEW s, SetStatus(p, s), UNCHANGED txn, txn[p] = "none"
      PROVE  LockedIsOpen'
  BY <1>3 DEF SetStatus, LockedIsOpen, TableTypeOK
<1>4. ASSUME NEW p \in PO, ApproveBegin(p) \/ DispatchSupplierEmail(p) \/ ApproveRollback(p)
      PROVE  OpensNothing /\ LockedIsOpen'
  <2>1. LockedIsOpen'
    BY <1>4 DEF ApproveBegin, DispatchSupplierEmail, ApproveRollback, LockedIsOpen, TableTypeOK
  <2> QED  BY <1>2, <1>4, <2>1 DEF ApproveBegin, DispatchSupplierEmail, ApproveRollback
<1>5. ASSUME NEW p \in PO, ApproveCommit(p) PROVE OpensNothing /\ LockedIsOpen'
  <2>1. Open(p)  BY <1>1, <1>5 DEF ApproveCommit, LockedIsOpen, Open
  <2>2. LockedIsOpen'
    BY <1>5 DEF ApproveCommit, SetStatus, LockedIsOpen, TableTypeOK
  <2> QED  BY <1>5, <2>1, <2>2, NothingOpenedByStatus DEF ApproveCommit
<1>6. ASSUME NEW p \in PO, RejectPO(p) PROVE OpensNothing /\ LockedIsOpen'
  <2>1. Open(p)  BY <1>1, <1>6 DEF RejectPO, Open
  <2> QED  BY <1>3, <1>6, <2>1, NothingOpenedByStatus DEF RejectPO
<1>7. ASSUME NEW c \in Client, NEW p \in PO, SendPO(c, p) PROVE OpensNothing /\ LockedIsOpen'
  <2> DEFINE row == [order[p] EXCEPT !.status = "sent", !.sentAt = "recent"]
  <2>1. order' = [order EXCEPT ![p] = row]  BY <1>7 DEF SendPO, TableTypeOK
  <2>2. row.key = order[p].key  BY DEF TableTypeOK, Row
  <2>3. Open(p)  BY <1>7 DEF SendPO, Open, ActiveStatus
  <2>4. LockedIsOpen'  BY <1>7, <2>1 DEF SendPO, LockedIsOpen, TableTypeOK
  <2> HIDE DEF row
  <2> QED  BY <2>1, <2>2, <2>3, <2>4, NothingOpened
<1>8. ASSUME NEW c \in Client, NEW p \in PO, NEW s \in ToolTargets, TransitionRead(c, p, s)
      PROVE  OpensNothing /\ LockedIsOpen'
  BY <1>2, <1>8 DEF TransitionRead, tableVars, LockedIsOpen
<1>9. ASSUME NEW c \in Client, TransitionWrite(c) PROVE OpensNothing /\ LockedIsOpen'
  <2>1. client[c].po \in PO
    BY <1>9 DEF TransitionWrite, ServiceTypeOK, ClientState, Idle, Transition, Edit
  <2>2. client[c].to \in FinalStatus  BY <1>9 DEF TransitionWrite, HeldIsAllowed
  <2>3. CASE UNCHANGED order
    BY <1>2, <1>9, <2>3 DEF TransitionWrite, LockedIsOpen
  <2>4. CASE SetStatus(client[c].po, client[c].to)
    <3>1. UNCHANGED txn /\ txn[client[c].po] = "none"  BY <1>9 DEF TransitionWrite, CanWrite
    <3> QED  BY <1>1, <1>3, <2>1, <2>2, <2>4, <3>1, NothingOpenedByStatus
  <2> QED  BY <1>9, <2>3, <2>4 DEF TransitionWrite
<1>10. ASSUME NEW c \in Client PROVE ~EditSave(c)  BY DEF HeldIsAllowed, EditSave
<1>11. ASSUME NEW c \in Client, NEW p \in PO PROVE ~EditRead(c, p)  BY DEF EditRead
<1>12. ASSUME NEW p \in PO, NEW row PROVE ~CreateOrder(p, row)  BY DEF CreateOrder
<1> QED
  BY <1>4, <1>5, <1>6, <1>7, <1>8, <1>9, <1>10, <1>11, <1>12 DEF ServiceNext

-----------------------------------------------------------------------------
\* A step that opens no order, and whose delivery is not running the agent.
LEMMA ApartQuiet ==
    ASSUME OrdersApart, TypeOK, TypeOK', UNCHANGED <<tableVars, agentVars>>, NEW w \in Run,
           \A v \in Run \ {w} : UNCHANGED delivery[v],
           delivery[w].pc # "agent", delivery'[w].pc # "agent",
           OpenFlags \subseteq OpenFlags',
           \A f \in OpenFlags' :
               (f \in OpenFlags /\ flag'[f].sku = flag[f].sku) \/ OpenOrdersOf(flag'[f].sku) = {},
           delivery'[w].todo \subseteq OpenFlags',
           delivery'[w].pc # "flags" => delivery'[w].todo = {},
           \A s \in Sku : In(w, "deciding")' /\ delivery'[w].thread[s] \in {"decided", "insert"} =>
                              OpenOrdersOf(s) = {}
    PROVE  OrdersApart'
<1>1. UNCHANGED <<order, txn, run, result, workflow>>  BY DEF tableVars, agentVars
<1>2. \A s : OpenOrdersOf(s)' = OpenOrdersOf(s)  BY <1>1, OrdersSameOpen
<1>3. TodoIsOpen'  BY DEF OrdersApart, TodoIsOpen
<1>4. DecidedNeedsOrder'  BY <1>2 DEF OrdersApart, DecidedNeedsOrder, In
<1>5. FlagNeedsOrder'
  <2> SUFFICES ASSUME NEW f \in OpenFlags', OpenOrdersOf(flag'[f].sku) # {}
               PROVE  \E v \in Run : In(v, "agent")' /\ AtHand(v, f)' /\ Drafted(v)'
    BY <1>2 DEF FlagNeedsOrder
  <2>1. PICK v \in Run : In(v, "agent") /\ AtHand(v, f) /\ Drafted(v)
    BY DEF OrdersApart, FlagNeedsOrder
  <2>2. v # w  BY <2>1 DEF In
  <2> QED  BY <1>1, <2>1, <2>2 DEF In, AtHand, Drafted
<1>6. OnlyRunsOrder'  BY <1>1, <1>2 DEF OrdersApart, OnlyRunsOrder, In, Drafted
<1>7. RunsArePlain'  BY <1>1 DEF OrdersApart, RunsArePlain, IsPlain, In, Drafted
<1>8. LockedIsOpen' /\ OneOpenOrder'
  BY <1>1, <1>2 DEF OrdersApart, LockedIsOpen, OneOpenOrder
<1> QED  BY <1>3, <1>4, <1>5, <1>6, <1>7, <1>8 DEF OrdersApart

\* A step that leaves the deliveries and the runs alone, and opens no order.
LEMMA ApartService ==
    ASSUME OrdersApart, OpensNothing, LockedIsOpen', TypeOK,
           UNCHANGED <<agentVars, flag, delivery>>
    PROVE  OrdersApart'
<1>1. UNCHANGED <<run, result, workflow>>  BY DEF agentVars
<1>2. \A f \in OpenFlags : flag[f].sku \in Sku  BY DEF TypeOK, OpenFlags
<1>3. UNCHANGED OpenFlags  BY DEF OpenFlags
<1>4. TodoIsOpen'  BY <1>3 DEF OrdersApart, TodoIsOpen
<1>5. DecidedNeedsOrder'  BY DEF OrdersApart, DecidedNeedsOrder, In, OpensNothing
<1>6. FlagNeedsOrder'
  <2> SUFFICES ASSUME NEW f \in OpenFlags, OpenOrdersOf(flag[f].sku) # {}
               PROVE  \E v \in Run : In(v, "agent")' /\ AtHand(v, f)' /\ Drafted(v)'
    BY <1>2, <1>3 DEF FlagNeedsOrder, OpensNothing
  <2>1. PICK v \in Run : In(v, "agent") /\ AtHand(v, f) /\ Drafted(v)
    BY DEF OrdersApart, FlagNeedsOrder
  <2> QED  BY <1>1, <2>1 DEF In, AtHand, Drafted
<1>7. \A w \in Run : run[w].key.sku \in Sku
  BY PipelineAssumption DEF TypeOK, AgentTypeOK, RunState
<1>8. OnlyRunsOrder'  BY <1>1, <1>7 DEF OrdersApart, OnlyRunsOrder, In, Drafted, OpensNothing
<1>9. RunsArePlain'  BY <1>1 DEF OrdersApart, RunsArePlain, IsPlain, In, Drafted
<1>10. OneOpenOrder'  BY DEF OrdersApart, OneOpenOrder, OpensNothing
<1> QED  BY <1>4, <1>5, <1>6, <1>8, <1>9, <1>10 DEF OrdersApart

-----------------------------------------------------------------------------
\* The run of the one delivery at work: what it leaves open of its SKU is its own order.
LEMMA ApartRun ==
    ASSUME OrdersApart, FlagsApart, TypeOK, UNCHANGED <<flag, delivery>>,
           NEW w \in Run, In(w, "agent"), MindsFlag(w),
           \A v \in Run \ {w} : UNCHANGED run[v],
           NEW own \in Sku, own = run[w].key.sku, run'[w].key = run[w].key,
           \A s \in Sku \ {own} : OpenOrdersOf(s)' \subseteq OpenOrdersOf(s),
           OpenOrdersOf(own)' \subseteq {run'[w].po},
           Drafted(w)', IsPlain(w)', LockedIsOpen'
    PROVE  OrdersApart'
<1>1. \A v \in Run : AtWork(v) => v = w  BY DEF FlagsApart, OneAtWork, AtWork, In
<1>2. PICK f \in Flag : AtHand(w, f) /\ run[w].key.sku = flag[f].sku  BY DEF MindsFlag, In
<1>3. f \in OpenFlags  BY <1>2 DEF OrdersApart, TodoIsOpen, AtHand
<1>4. UNCHANGED OpenFlags /\ \A g \in OpenFlags : g \in Flag /\ flag[g].sku \in Sku
  BY DEF OpenFlags, TypeOK
<1>5. TodoIsOpen'  BY <1>4 DEF OrdersApart, TodoIsOpen
<1>6. DecidedNeedsOrder'  BY <1>1 DEF DecidedNeedsOrder, In, AtWork
<1>7. FlagNeedsOrder'
  <2> SUFFICES ASSUME NEW g \in OpenFlags, OpenOrdersOf(flag[g].sku)' # {}
               PROVE  \E v \in Run : In(v, "agent")' /\ AtHand(v, g)' /\ Drafted(v)'
    BY <1>4 DEF FlagNeedsOrder, OpenOrdersOf
  <2>1. CASE flag[g].sku = flag[f].sku
    <3>1. g = f  BY <1>3, <2>1 DEF FlagsApart, OneOpenFlag
    <3> QED  BY <1>2, <3>1 DEF In, AtHand
  <2>2. CASE flag[g].sku # flag[f].sku
    <3>1. OpenOrdersOf(flag[g].sku) # {}  BY <1>2, <1>4, <2>2 DEF OpenOrdersOf
    <3>2. PICK v \in Run : In(v, "agent") /\ AtHand(v, g)
      BY <3>1 DEF OrdersApart, FlagNeedsOrder
    <3>3. v = w  BY <1>1, <3>2 DEF AtWork, In
    <3> QED  BY <3>2, <3>3 DEF In, AtHand
  <2> QED  BY <2>1, <2>2
<1>8. \A v \in Run : In(v, "agent")' => v = w  BY <1>1 DEF In, AtWork
<1>9. OnlyRunsOrder'
  <2>1. run'[w].key.sku = own  OBVIOUS
  <2> QED  BY <1>8, <2>1 DEF OnlyRunsOrder, OpenOrdersOf
<1>10. RunsArePlain'  BY <1>8 DEF RunsArePlain
<1>11. OneOpenOrder'  BY DEF OrdersApart, OneOpenOrder
<1> QED  BY <1>5, <1>6, <1>7, <1>9, <1>10, <1>11 DEF OrdersApart

\* Every statement of that run: what it drafts is its own, no twin of it is there to
\* refuse the move to the managers, and at the gate it returns.
LEMMA ApartAdvance ==
    ASSUME OrdersApart, FlagsApart, TypeOK, NEW w \in Run, In(w, "agent"), MindsFlag(w), Serves(w),
           Advance(w), UNCHANGED <<flag, delivery>>
    PROVE  OrdersApart'
<1>1. TableTypeOK /\ AgentTypeOK  BY DEF TypeOK
<1>2. Ordered(w) = run[w].po /\ run[w].po \in PO /\ run[w].key \in Key
  BY <1>1 DEF Ordered, AgentTypeOK, RunState
<1>3. PICK own \in Sku : own = run[w].key.sku  BY <1>2, PipelineAssumption
<1>4. \A v \in Run \ {w} : UNCHANGED run[v]  BY <1>1, ResultsElsewhere
<1>5. run'[w].key = run[w].key  BY <1>1, ServesStep
<1>6. IsPlain(w) /\ LockedIsOpen  BY DEF OrdersApart, RunsArePlain
<1>7. \A v \in Run : AtWork(v) => v = w  BY DEF FlagsApart, OneAtWork, AtWork, In
<1>8. Drafted(w) => OpenOrdersOf(own) \subseteq {run[w].po}
  BY <1>3 DEF OrdersApart, OnlyRunsOrder
<1>9. ASSUME UNCHANGED tableVars, Drafted(w), run'[w].po = run[w].po, Drafted(w)', IsPlain(w)'
      PROVE  OrdersApart'
  <2>1. UNCHANGED <<order, txn>>  BY <1>9 DEF tableVars
  <2>2. \A s : OpenOrdersOf(s)' = OpenOrdersOf(s)  BY <2>1, OrdersSameOpen
  <2>3. LockedIsOpen'  BY <1>6, <2>1 DEF LockedIsOpen
  <2>4. OpenOrdersOf(own)' \subseteq {run'[w].po}  BY <1>8, <1>9, <2>2
  <2>5. \A s \in Sku : OpenOrdersOf(s)' \subseteq OpenOrdersOf(s)  BY <2>2
  <2> QED  BY <1>3, <1>4, <1>5, <1>9, <2>3, <2>4, <2>5, ApartRun
<1>10. CASE DraftInsert(w)
  <2>1. ~Drafted(w)  BY <1>10 DEF DraftInsert, At, Drafted
  <2>2. OpenOrdersOf(own) = {}
    <3>1. PICK f \in Flag : AtHand(w, f) /\ run[w].key.sku = flag[f].sku  BY DEF MindsFlag, In
    <3>2. f \in OpenFlags  BY <3>1 DEF OrdersApart, TodoIsOpen, AtHand
    <3> QED  BY <1>3, <1>7, <2>1, <3>1, <3>2 DEF OrdersApart, FlagNeedsOrder, AtWork, In
  <2>3. \A q \in PO : ~(order[q].key = run[w].key /\ order[q].status = "draft")
    BY <1>3, <2>2 DEF OpenOrdersOf, ActiveStatus
  <2>4. PICK p \in PO :
            /\ CreateRow(p, [EmptyRow("draft") EXCEPT !.key = run[w].key])
            /\ run' = [run EXCEPT ![w] = [@ EXCEPT !.pc = "workflow_read", !.po = p, !.drafted = TRUE]]
            /\ UNCHANGED result
    BY <1>10, <2>3 DEF DraftInsert
  <2>5. run[w] \in RunState  BY <1>1 DEF AgentTypeOK
  <2>6. /\ run'[w].pc = "workflow_read" /\ run'[w].po = p /\ run'[w].drafted = TRUE
        /\ run'[w].ctx = run[w].ctx
    BY <1>1, <2>4, <2>5 DEF AgentTypeOK, RunState
  <2>7. Drafted(w)' /\ IsPlain(w)'  BY <1>6, <2>4, <2>6 DEF Drafted, IsPlain, Drafting
  <2>8. \A q \in PO \ {p} : order'[q] = order[q]  BY <1>1, <2>4 DEF CreateRow, TableTypeOK
  <2>9. order'[p].status = "draft" /\ order'[p].key = run[w].key
    <3>1. order'[p] = [EmptyRow("draft") EXCEPT !.key = run[w].key]  BY <1>1, <2>4, OrderInserted
    <3>2. EmptyRow("draft") \in Row  BY EmptyRowType DEF Status, ActiveStatus
    <3>3. EmptyRow("draft").status = "draft"  BY DEF EmptyRow
    <3> QED  BY <3>1, <3>2, <3>3 DEF Row
  <2>10. \A s \in Sku \ {own} : OpenOrdersOf(s)' \subseteq OpenOrdersOf(s)
    BY <1>3, <2>8, <2>9 DEF OpenOrdersOf
  <2>11. OpenOrdersOf(own)' \subseteq {p}
    BY <2>2, <2>8 DEF OpenOrdersOf
  <2>12. LockedIsOpen'  BY <1>6, <1>10, <2>8, <2>9 DEF LockedIsOpen, DraftInsert
  <2>13. OpenOrdersOf(own)' \subseteq {run'[w].po}  BY <2>6, <2>11
  <2> QED  BY <1>3, <1>4, <1>5, <2>7, <2>10, <2>12, <2>13, ApartRun
<1>11. CASE WorkflowRead(w)
  <2>1. Drafted(w) /\ run[w].drafted  BY <1>6, <1>11 DEF WorkflowRead, At, Drafted, IsPlain
  <2>2. Goto(w, IF HasWorkflow(w) THEN "pending_read" ELSE "workflow_insert")
        /\ UNCHANGED <<tableVars, workflow>>
    BY <1>11, <2>1 DEF WorkflowRead
  <2>3. PICK pc : pc = IF HasWorkflow(w) THEN "pending_read" ELSE "workflow_insert"  OBVIOUS
  <2>4. Goto(w, pc)  BY <2>2, <2>3
  <2>5. Drafted(w)' /\ IsPlain(w)' /\ run'[w].po = run[w].po
    BY <1>1, <1>2, <1>6, <2>1, <2>2, <2>3, <2>4, RunMoves
    DEF Drafted, IsPlain, Drafting, HasWorkflow
  <2> QED  BY <1>9, <2>1, <2>2, <2>5
<1>12. CASE WorkflowInsert(w)
  <2>1. Drafted(w) /\ run[w].drafted  BY <1>6, <1>12 DEF WorkflowInsert, At, Drafted, IsPlain
  <2>2. ~HasWorkflow(w) /\ Exists(Ordered(w))
    BY <1>2, <1>6, <1>12
    DEF WorkflowInsert, At, IsPlain, HasWorkflow, Serves, HoldsOrder, Ordering
  <2>3. /\ Goto(w, "pending_read") /\ UNCHANGED tableVars
        /\ workflow' = [workflow EXCEPT ![run[w].po] = "draft"]
    BY <1>2, <1>12, <2>1, <2>2 DEF WorkflowInsert
  <2>4. workflow'[run[w].po] # NoWorkflow  BY <1>1, <1>2, <2>3 DEF AgentTypeOK, NoWorkflow
  <2>5. Drafted(w)' /\ IsPlain(w)' /\ run'[w].po = run[w].po
    BY <1>1, <1>6, <2>1, <2>3, <2>4, RunMoves DEF Drafted, IsPlain, Drafting
  <2> QED  BY <1>9, <2>1, <2>3, <2>5
<1>13. CASE PendingRead(w)
  <2>1. /\ Drafted(w) /\ run[w].drafted /\ workflow[run[w].po] # NoWorkflow
        /\ Exists(Ordered(w))
    BY <1>2, <1>6, <1>13
    DEF PendingRead, At, Drafted, IsPlain, Serves, HoldsOrder, Ordering
  <2> DEFINE next == IF Exists(Ordered(w)) /\ "pending_approval" \in LEGAL_TRANSITIONS[StatusOf(w)]
                     THEN "pending_write" ELSE "gate"
  <2>2. CheckThen(w, TRUE, next)  BY <1>13 DEF PendingRead
  <2>3. next \in {"pending_write", "gate"}  OBVIOUS
  <2> HIDE DEF next
  <2>4. Goto(w, next) /\ UNCHANGED <<tableVars, workflow>>  BY <2>1, <2>2 DEF CheckThen
  <2>5. Drafted(w)' /\ IsPlain(w)' /\ run'[w].po = run[w].po
    BY <1>1, <1>6, <2>1, <2>3, <2>4, RunMoves DEF Drafted, IsPlain, Drafting
  <2> QED  BY <1>9, <2>1, <2>4, <2>5
<1>14. CASE PendingWrite(w)
  <2>1. /\ Drafted(w) /\ run[w].drafted /\ workflow[run[w].po] # NoWorkflow
        /\ Exists(run[w].po) /\ order[run[w].po].key = run[w].key
    BY <1>6, <1>14
    DEF PendingWrite, At, Drafted, IsPlain, Serves, HoldsOrder, Ordering
  <2>2. ~Taken(run[w].po, run[w].key, "pending_approval")
    BY <1>3, <1>8, <2>1 DEF Taken, OpenOrdersOf, ActiveStatus
  <2>3. /\ Goto(w, "gate") /\ SetStatus(run[w].po, "pending_approval")
        /\ txn[run[w].po] = "none" /\ UNCHANGED <<txn, workflow>>
    BY <1>2, <1>14, <2>1, <2>2 DEF PendingWrite, WriteThen, Refused, CanWrite
  <2>4. Drafted(w)' /\ IsPlain(w)' /\ run'[w].po = run[w].po
    BY <1>1, <1>6, <2>1, <2>3, RunMoves DEF Drafted, IsPlain, Drafting
  <2>5. "pending_approval" \in Status \ {"draft"}  BY DEF Status, ActiveStatus
  <2>6. OrdersStay /\ \A q \in PO \ {run[w].po} : order'[q] = order[q]
    BY <1>1, <1>2, <2>3, <2>5, OrderWritten DEF SetStatus, TableTypeOK
  <2>7. order'[run[w].po].key = run[w].key  BY <1>2, <2>1, <2>6 DEF OrdersStay
  <2>8. \A s \in Sku \ {own} : OpenOrdersOf(s)' \subseteq OpenOrdersOf(s)
    BY <1>3, <2>6, <2>7 DEF OpenOrdersOf
  <2>9. OpenOrdersOf(own)' \subseteq {run'[w].po}
    BY <1>8, <2>1, <2>4, <2>6 DEF OpenOrdersOf
  <2>10. LockedIsOpen'  BY <1>6, <2>3, <2>6 DEF LockedIsOpen
  <2> QED  BY <1>3, <1>4, <1>5, <2>4, <2>8, <2>9, <2>10, ApartRun
<1>15. CASE ApprovalGate(w)
  <2>1. Drafted(w) /\ run[w].drafted /\ HasWorkflow(w)
    BY <1>2, <1>6, <1>15 DEF ApprovalGate, At, Drafted, IsPlain, HasWorkflow
  <2>2. run[w].ctx = "plain"  BY <1>6 DEF IsPlain
  <2>3. Decisions(w) = {"return"}  BY <2>2 DEF Decisions
  <2>4. Return(w, "pending_approval") /\ UNCHANGED tableVars
    BY <1>15, <2>1, <2>3 DEF ApprovalGate
  <2>5. Drafted(w)' /\ IsPlain(w)' /\ run'[w].po = run[w].po
    BY <1>1, <1>6, <2>1, <2>4, RunReturns DEF Drafted, IsPlain, Drafting
  <2> QED  BY <1>9, <2>1, <2>4, <2>5
<1>16. run[w].pc \in Drafting \cup {"draft_insert", "gate", "done"}  BY <1>6 DEF IsPlain
<1> QED
  BY <1>10, <1>11, <1>12, <1>13, <1>14, <1>15, <1>16
  DEF Advance, Drafting, At, RunApproves, RunRejects, SendEmail, EmailSentRead, EmailSentWrite,
      WaitingRead, WaitingWrite, Poll, ConfirmRead, ConfirmWrite, MarkFailed, MarkTimeout,
      RecordWorkflow, Record, RecordAndReturn

-----------------------------------------------------------------------------
\* Nothing is open for the SKU of the flag that the agent is run for: it inserts a draft.
LEMMA ApartOrder ==
    ASSUME OrdersApart, FlagsApart, TypeOK, NEW w \in Run, OrderFlag(w), MindsFlag(w)
    PROVE  OrdersApart'
<1>1. AgentTypeOK /\ delivery \in [Run -> DeliveryState]  BY DEF TypeOK
<1>2. PICK f \in Flag, k \in Key : AtHand(w, f) /\ k.sku = flag[f].sku /\ StartRun(w, k, "plain")
  BY DEF OrderFlag
<1>3. \A v \in Run : AtWork(v) => v = w  BY DEF FlagsApart, OneAtWork, AtWork, OrderFlag, In
<1>4. \A v \in Run : ~In(v, "agent")  BY <1>3 DEF AtWork, In, OrderFlag
<1>5. f \in OpenFlags  BY <1>2 DEF OrdersApart, TodoIsOpen, AtHand
<1>6. OpenOrdersOf(k.sku) = {}  BY <1>2, <1>4, <1>5 DEF OrdersApart, FlagNeedsOrder
<1>7. ActiveRows(k) = {}  BY <1>6 DEF OpenOrdersOf, ActiveRows
<1>8. run' = [run EXCEPT ![w] = [@ EXCEPT !.pc = "draft_insert", !.key = k, !.ctx = "plain"]]
  BY <1>2, <1>7 DEF StartRun, Newest
<1>9. UNCHANGED <<order, txn, result, workflow, flag>>
  BY <1>2 DEF StartRun, tableVars, OrderFlag
<1>10. run[w] \in RunState  BY <1>1 DEF AgentTypeOK
<1>11. run'[w].pc = "draft_insert" /\ run'[w].ctx = "plain"
  BY <1>1, <1>8, <1>10 DEF AgentTypeOK, RunState
<1>12. result'[w] = "none"  BY <1>9 DEF MindsFlag, OrderFlag, In
<1>13. ~Drafted(w)' /\ IsPlain(w)'  BY <1>11, <1>12 DEF Drafted, IsPlain, Drafting
<1>14. /\ delivery'[w].pc = "agent" /\ delivery'[w].todo = delivery[w].todo
       /\ \A v \in Run \ {w} : delivery'[v] = delivery[v]
  BY <1>1 DEF OrderFlag, DeliveryState
<1>15. \A s : OpenOrdersOf(s)' = OpenOrdersOf(s)  BY <1>9, OrdersSameOpen
<1>16. UNCHANGED OpenFlags  BY <1>9 DEF OpenFlags
<1>17. \A v \in Run : In(v, "agent")' => v = w  BY <1>4, <1>14 DEF In
<1>18. TodoIsOpen'  BY <1>14, <1>16 DEF OrdersApart, TodoIsOpen
<1>19. DecidedNeedsOrder'  BY <1>14, <1>15 DEF OrdersApart, DecidedNeedsOrder, In
<1>20. FlagNeedsOrder'
  BY <1>4, <1>9, <1>15, <1>16 DEF OrdersApart, FlagNeedsOrder
<1>21. OnlyRunsOrder' /\ RunsArePlain'  BY <1>13, <1>17 DEF OnlyRunsOrder, RunsArePlain
<1>22. LockedIsOpen' /\ OneOpenOrder'
  BY <1>9, <1>15 DEF OrdersApart, LockedIsOpen, OneOpenOrder
<1> QED  BY <1>18, <1>19, <1>20, <1>21, <1>22 DEF OrdersApart

\* A consumed flag takes its order with it: nothing is open under the flags that are left.
LEMMA ApartConsume ==
    ASSUME OrdersApart, FlagsApart, TypeOK, NEW w \in Run, ConsumeFlag(w)
    PROVE  OrdersApart'
<1>1. /\ AgentTypeOK /\ delivery \in [Run -> DeliveryState]
      /\ flag \in [Flag -> [sku: Sku, status: FlagStatus]]
  BY DEF TypeOK
<1>2. PICK f \in Flag : /\ AtHand(w, f) /\ NextFlagOf(w, f)
                        /\ flag' = [flag EXCEPT ![f].status = "consumed"]
  BY DEF ConsumeFlag
<1>3. \A v \in Run : AtWork(v) => v = w  BY DEF FlagsApart, OneAtWork, AtWork, ConsumeFlag, In
<1>4. /\ delivery'[w].pc = "flags" /\ delivery'[w].todo = delivery[w].todo \ {f}
      /\ \A v \in Run \ {w} : delivery'[v] = delivery[v]
  <2>1. PICK new : delivery' = [delivery EXCEPT ![w] = new]
                   /\ new.pc = "flags" /\ new.todo = delivery[w].todo \ {f}
    BY <1>2, FlagPassed
  <2> QED  BY <1>1, <2>1
<1>5. /\ flag'[f].status = "consumed" /\ \A g \in Flag \ {f} : flag'[g] = flag[g]
  BY <1>1, <1>2
<1>6. OpenFlags' = OpenFlags \ {f}  BY <1>5 DEF OpenFlags
<1>7. UNCHANGED <<order, txn, workflow>>  BY DEF ConsumeFlag, ForgetRun, tableVars
<1>8. \A s : OpenOrdersOf(s)' = OpenOrdersOf(s)  BY <1>7, OrdersSameOpen
<1>9. \A v \in Run : ~In(v, "agent")'  BY <1>3, <1>4 DEF In, AtWork
<1>10. TodoIsOpen'
  <2>1. \A v \in Run \ {w} : delivery[v].todo = {}
    BY <1>3 DEF OrdersApart, TodoIsOpen, AtWork
  <2> QED  BY <1>4, <1>6, <2>1 DEF OrdersApart, TodoIsOpen
<1>11. DecidedNeedsOrder'  BY <1>4, <1>8 DEF OrdersApart, DecidedNeedsOrder, In
<1>12. FlagNeedsOrder'
  <2>1. ASSUME NEW g \in OpenFlags, g # f PROVE OpenOrdersOf(flag[g].sku) = {}
    <3>1. ASSUME NEW v \in Run, In(v, "agent"), AtHand(v, g) PROVE FALSE
      <4>1. v = w  BY <1>3, <3>1 DEF AtWork, In
      <4> QED  BY <1>2, <2>1, <3>1, <4>1 DEF AtHand, OpenFlags, Flag
    <3> QED  BY <2>1, <3>1 DEF OrdersApart, FlagNeedsOrder
  <2>2. \A g \in OpenFlags : g # f => flag'[g].sku = flag[g].sku  BY <1>5 DEF OpenFlags
  <2> QED  BY <1>6, <1>8, <2>1, <2>2 DEF FlagNeedsOrder
<1>13. OnlyRunsOrder' /\ RunsArePlain'  BY <1>9 DEF OnlyRunsOrder, RunsArePlain
<1>14. LockedIsOpen' /\ OneOpenOrder'
  BY <1>7, <1>8 DEF OrdersApart, LockedIsOpen, OneOpenOrder
<1> QED  BY <1>10, <1>11, <1>12, <1>13, <1>14 DEF OrdersApart

LEMMA ApartStep ==
    ASSUME ~Editing, ~Creating, ToolTargets \subseteq FinalStatus
    PROVE  ApartInv /\ [Next]_vars => ApartInv'
<1> SUFFICES ASSUME ApartInv, [Next]_vars, Untroubled' PROVE OrdersApart'
  BY OrderedStep, FlagStep DEF ApartInv
<1>1. OrderedInv /\ FlagInv /\ TypeOK'  BY OrderedStep DEF ApartInv, OrderedInv
<1>2. /\ TypeOK /\ HeldIsAllowed /\ ThreadsWait
      /\ \A w \in Run : MindsFlag(w) /\ Serves(w)
  BY <1>1 DEF OrderedInv, FlagInv
<1>3. /\ TableTypeOK /\ ServiceTypeOK /\ AgentTypeOK
      /\ flag \in [Flag -> [sku: Sku, status: FlagStatus]]
      /\ delivery \in [Run -> DeliveryState]
  BY <1>2 DEF TypeOK
<1>4. CASE UNCHANGED vars
  <2>1. Untroubled  BY <1>4 DEF Untroubled, vars
  <2>2. OrdersApart /\ LockedIsOpen  BY <2>1 DEF ApartInv, OrdersApart
  <2>3. UNCHANGED <<agentVars, flag, delivery, order, txn>>  BY <1>4 DEF vars, tableVars
  <2>4. OpensNothing /\ LockedIsOpen'
    BY <2>2, <2>3, OrdersSameOpen DEF OpensNothing, LockedIsOpen
  <2> QED  BY <1>2, <2>2, <2>3, <2>4, ApartService
<1>5. CASE ServiceNext /\ UNCHANGED PipelineVars
  <2>1. Untroubled  BY <1>5 DEF Untroubled, PipelineVars
  <2>2. OrdersApart /\ LockedIsOpen  BY <2>1 DEF ApartInv, OrdersApart
  <2>3. OpensNothing /\ LockedIsOpen'  BY <1>2, <1>3, <1>5, <2>2, ServiceOpensNothing
  <2> QED  BY <1>2, <1>5, <2>2, <2>3, ApartService DEF PipelineVars
<1>6. ASSUME NEW w \in Run, StartDelivery(w) PROVE OrdersApart'
  <2>1. Untroubled  BY <1>6 DEF Untroubled, StartDelivery
  <2>2. OrdersApart  BY <2>1 DEF ApartInv
  <2>3. \A v \in Run : delivery'[v] = IF v = w THEN [delivery[w] EXCEPT !.pc = "deciding"]
                                      ELSE delivery[v]
    BY <1>3, <1>6 DEF StartDelivery
  <2>4. /\ delivery'[w].pc = "deciding" /\ delivery'[w].todo = delivery[w].todo
        /\ delivery'[w].thread = delivery[w].thread
    BY <1>3, <2>3 DEF DeliveryState
  <2>5. delivery[w].pc = "idle" /\ delivery[w].todo = {}
    BY <1>6, <2>2 DEF StartDelivery, In, OrdersApart, TodoIsOpen
  <2>6. \A s \in Sku : delivery'[w].thread[s] = "waiting"
    BY <1>2, <2>4, <2>5 DEF ThreadsWait, In
  <2>7. UNCHANGED <<tableVars, agentVars, flag>> /\ UNCHANGED OpenFlags
    BY <1>6 DEF StartDelivery, Unordered, OpenFlags
  <2> QED  BY <1>1, <1>2, <2>2, <2>3, <2>4, <2>5, <2>6, <2>7, ApartQuiet
<1>7. ASSUME NEW w \in Run, NEW s \in Sku, Observe(w, s) \/ PersistFlag(w, s) \/ InsertFlag(w, s)
      PROVE  OrdersApart'
  <2>1. Untroubled  BY <1>7 DEF Untroubled, Observe, PersistFlag, InsertFlag
  <2>2. OrdersApart  BY <2>1 DEF ApartInv
  <2>3. PICK at, to :
            /\ SetThread(w, s, at, to)
            /\ to \in {"decided", "insert"} => OpenOrdersOf(s) = {} \/ at = "decided"
            /\ InsertFlag(w, s) => at = "insert"
            /\ ~InsertFlag(w, s) => UNCHANGED flag
    BY <1>7 DEF Observe, PersistFlag, InsertFlag
  <2>4. /\ delivery[w].pc = "deciding" /\ delivery'[w].pc = "deciding"
        /\ delivery'[w].todo = delivery[w].todo
        /\ delivery[w].thread[s] = at
        /\ \A t \in Sku : delivery'[w].thread[t] = IF t = s THEN to ELSE delivery[w].thread[t]
        /\ \A v \in Run \ {w} : delivery'[v] = delivery[v]
    BY <1>2, <2>3, ThreadSet
  <2>5. at \in {"decided", "insert"} => OpenOrdersOf(s) = {}
    BY <2>2, <2>4 DEF OrdersApart, DecidedNeedsOrder, In
  <2>6. \A t \in Sku : delivery'[w].thread[t] \in {"decided", "insert"} => OpenOrdersOf(t) = {}
    BY <2>2, <2>3, <2>4, <2>5 DEF OrdersApart, DecidedNeedsOrder, In
  <2>7. delivery'[w].todo = {}  BY <2>2, <2>4 DEF OrdersApart, TodoIsOpen
  <2>8. /\ OpenFlags \subseteq OpenFlags'
        /\ \A f \in OpenFlags' :
               (f \in OpenFlags /\ flag'[f].sku = flag[f].sku) \/ OpenOrdersOf(flag'[f].sku) = {}
    <3>1. CASE ~InsertFlag(w, s)
      <4>1. UNCHANGED flag  BY <2>3, <3>1
      <4> QED  BY <4>1 DEF OpenFlags
    <3>2. CASE InsertFlag(w, s)
      <4>1. PICK f \in Flag : /\ flag[f].status = "none"
                              /\ flag' = [flag EXCEPT ![f] = [sku |-> s, status |-> "open"]]
        BY <3>2 DEF InsertFlag, NextFlag
      <4>2. /\ flag'[f].status = "open" /\ flag'[f].sku = s
            /\ \A g \in Flag \ {f} : flag'[g] = flag[g]
        BY <1>3, <4>1
      <4>3. OpenOrdersOf(s) = {}  BY <2>3, <2>5, <3>2
      <4>4. OpenFlags' = OpenFlags \cup {f}  BY <4>1, <4>2 DEF OpenFlags
      <4>5. \A g \in OpenFlags : flag'[g].sku = flag[g].sku  BY <4>1, <4>2 DEF OpenFlags
      <4> QED  BY <4>2, <4>3, <4>4, <4>5
    <3> QED  BY <3>1, <3>2
  <2>9. UNCHANGED <<tableVars, agentVars>>
    BY <1>7 DEF Observe, PersistFlag, InsertFlag, Unordered
  <2> QED  BY <1>1, <1>2, <2>2, <2>4, <2>6, <2>7, <2>8, <2>9, ApartQuiet
<1>8. ASSUME NEW w \in Run, ReadFlags(w) PROVE OrdersApart'
  <2> DEFINE new == [delivery[w] EXCEPT !.pc = "flags", !.todo = OpenFlags]
  <2>1. new.pc = "flags" /\ new.todo = OpenFlags  BY <1>3 DEF DeliveryState
  <2>2. delivery' = [delivery EXCEPT ![w] = new]
    BY <1>3, <1>8 DEF ReadFlags, DeliveryState
  <2> HIDE DEF new
  <2>3. /\ delivery'[w].pc = "flags" /\ delivery'[w].todo = OpenFlags
        /\ \A v \in Run \ {w} : delivery'[v] = delivery[v]
    BY <1>3, <2>1, <2>2
  <2>4. UNCHANGED <<tableVars, agentVars, flag>> /\ UNCHANGED OpenFlags
    BY <1>8 DEF ReadFlags, Unordered, OpenFlags
  <2>5. Untroubled /\ delivery[w].pc = "deciding"  BY <1>8 DEF Untroubled, ReadFlags, In
  <2>6. OrdersApart  BY <2>5 DEF ApartInv
  <2>7. ~In(w, "deciding")'  BY <2>3 DEF In
  <2> QED  BY <1>1, <1>2, <2>3, <2>4, <2>5, <2>6, <2>7, ApartQuiet
<1>9. ASSUME NEW w \in Run, SkipFlag(w) PROVE OrdersApart'
  <2>1. PICK f \in Flag : NextFlagOf(w, f)  BY <1>9 DEF SkipFlag
  <2>2. PICK new : delivery' = [delivery EXCEPT ![w] = new]
                   /\ new.pc = "flags" /\ new.todo = delivery[w].todo \ {f}
    BY <1>2, <2>1, FlagPassed
  <2>3. /\ delivery'[w].pc = "flags" /\ delivery'[w].todo = delivery[w].todo \ {f}
        /\ \A v \in Run \ {w} : delivery'[v] = delivery[v]
    BY <1>3, <2>2
  <2>4. UNCHANGED <<tableVars, agentVars, flag>> /\ UNCHANGED OpenFlags
    BY <1>9 DEF SkipFlag, Unordered, OpenFlags
  <2>5. Untroubled /\ delivery[w].pc = "flags"  BY <1>9 DEF Untroubled, SkipFlag, In
  <2>6. OrdersApart  BY <2>5 DEF ApartInv
  <2>7. ~In(w, "deciding")'  BY <2>3 DEF In
  <2>8. delivery'[w].todo \subseteq OpenFlags  BY <2>3, <2>6 DEF OrdersApart, TodoIsOpen
  <2> QED  BY <1>1, <1>2, <2>3, <2>4, <2>5, <2>6, <2>7, <2>8, ApartQuiet
<1>10. ASSUME Untroubled PROVE OrdersApart /\ FlagsApart
  BY <1>1, <1>10 DEF ApartInv, FlagInv, Untroubled
<1>11. ASSUME NEW w \in Run, OrderFlag(w) PROVE OrdersApart'
  <2>1. Untroubled  BY <1>11 DEF Untroubled, OrderFlag
  <2> QED  BY <1>2, <1>10, <1>11, <2>1, ApartOrder
<1>12. ASSUME NEW w \in Run, AgentStep(w) PROVE OrdersApart'
  <2>1. Untroubled  BY <1>12 DEF Untroubled, AgentStep
  <2> QED  BY <1>2, <1>10, <1>12, <2>1, ApartAdvance DEF AgentStep
<1>13. ASSUME NEW w \in Run, FlagFailed(w) PROVE OrdersApart'
  <2>1. Untroubled  BY <1>13 DEF Untroubled, FlagFailed
  <2> QED  BY <1>10, <1>13, <2>1 DEF OrdersApart, RunsArePlain, IsPlain, FlagFailed
<1>14. ASSUME NEW w \in Run, ConsumeFlag(w) PROVE OrdersApart'
  <2>1. Untroubled  BY <1>14 DEF Untroubled, ConsumeFlag
  <2> QED  BY <1>2, <1>10, <1>14, <2>1, ApartConsume
<1>15. ASSUME NEW w \in Run, EndDelivery(w) PROVE OrdersApart'
  <2>1. /\ delivery'[w].pc = "done" /\ delivery'[w].todo = {}
        /\ \A v \in Run \ {w} : delivery'[v] = delivery[v]
    BY <1>3, <1>15 DEF EndDelivery, NoThreads
  <2>2. UNCHANGED <<tableVars, agentVars, flag>> /\ UNCHANGED OpenFlags
    BY <1>15 DEF EndDelivery, Unordered, OpenFlags
  <2>3. Untroubled /\ delivery[w].pc = "flags"  BY <1>15 DEF Untroubled, EndDelivery, In
  <2>4. OrdersApart  BY <2>3 DEF ApartInv
  <2>5. ~In(w, "deciding")'  BY <2>1 DEF In
  <2> QED  BY <1>1, <1>2, <2>1, <2>2, <2>3, <2>4, <2>5, ApartQuiet
<1>16. ASSUME NEW w \in Run PROVE ~CrashDelivery(w)  BY DEF CrashDelivery, Untroubled
<1> QED
  BY <1>4, <1>5, <1>6, <1>7, <1>8, <1>9, <1>11, <1>12, <1>13, <1>14, <1>15, <1>16
  DEF Next, Proceed

\* Where managers neither edit nor insert orders and the tool only ends them, the pipeline
\* orders a SKU again while an order for it is open only after two deliveries have
\* overlapped or one was killed.
THEOREM OneOrderUnlessTroubled ==
    ASSUME ~Editing, ~Creating, ToolTargets \subseteq FinalStatus
    PROVE  Spec => []OneOpenOrderUnlessTroubled
<1>1. Init => ApartInv  BY ApartInit
<1>2. ApartInv /\ [Next]_vars => ApartInv'  BY ApartStep
<1>3. ApartInv => OneOpenOrderUnlessTroubled
  BY DEF ApartInv, Untroubled, OrdersApart, OneOpenOrder, OneOpenOrderUnlessTroubled
<1> QED  BY <1>1, <1>2, <1>3, PTL DEF Spec
=============================================================================
