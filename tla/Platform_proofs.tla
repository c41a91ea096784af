--------------------------- MODULE Platform_proofs ---------------------------
(***************************************************************************)
(* The parts together: what each promises by itself it keeps beside the    *)
(* others, and all variables keep their types.  The invariants of ten      *)
(* parts come with their theorems; the types of the other four, and what   *)
(* those invariants leave out of a type, are proved here first.            *)
(***************************************************************************)
EXTENDS Platform, Records_proofs, Operations_proofs, Assistant_proofs

-----------------------------------------------------------------------------
(* Agent runs.                                                             *)

RunRow == [status: {"absent", "running", "archived"} \cup Verdict, age: {"new", "stale", "old"}]
AgentState == [pc: {"idle", "work", "close", "save"}, id: 0..NumRuns, says: Verdict]

\* No more tasks wait than were sent and, for want of an acknowledgement, sent again.
RowsInv == RunTypeOK /\ pending <= NumRuns - MaxKills + kills

LEMMA RunInitInv == RunInit => RowsInv
<1> SUFFICES ASSUME RunInit PROVE RowsInv  OBVIOUS
<1>1. NoAgent \in AgentState  BY RunAssumption DEF NoAgent, AgentState, Verdict
<1>2. agent \in [AgentWorker -> AgentState]  BY <1>1 DEF RunInit
<1>3. run \in [RunId -> RunRow] /\ verdict \in [RunId -> Verdict \cup {"none"}]
  BY DEF RunInit, RunRow
<1>4. /\ pending \in 0..NumRuns /\ kills \in 0..MaxKills
      /\ pending <= NumRuns - MaxKills + kills
  BY RunAssumption DEF RunInit
<1>5. sweeping \in BOOLEAN  BY DEF RunInit
<1> QED  BY <1>2, <1>3, <1>4, <1>5 DEF RowsInv, RunTypeOK, RunRow, AgentState

\* A worker goes on, whatever becomes of the rows.
LEMMA AgentMoves ==
    ASSUME RowsInv, NEW w \in AgentWorker, NEW next \in AgentState,
           agent' = [agent EXCEPT ![w] = next]
    PROVE  agent' \in [AgentWorker -> AgentState]
BY DEF RowsInv, RunTypeOK, AgentState

\* A statement of the table rewrites some rows.
LEMMA RowsMove ==
    ASSUME RowsInv, NEW S \in SUBSET RunId, NEW s \in {"running", "archived"} \cup Verdict,
           run' = [i \in RunId |-> IF i \in S THEN [run[i] EXCEPT !.status = s] ELSE run[i]]
    PROVE  run' \in [RunId -> RunRow]
<1>1. ASSUME NEW i \in RunId PROVE [run[i] EXCEPT !.status = s] \in RunRow
  <2>1. run[i] \in RunRow  BY DEF RowsInv, RunTypeOK, RunRow
  <2> QED  BY <2>1 DEF RunRow
<1>2. \A i \in RunId : run[i] \in RunRow  BY DEF RowsInv, RunTypeOK, RunRow
<1> QED  BY <1>1, <1>2

LEMMA CreateAgentRunInv ==
    ASSUME RowsInv, NEW w \in AgentWorker, CreateAgentRun(w) PROVE RowsInv'
<1>1. PICK i \in RunId :
        /\ run' = [run EXCEPT ![i].status = "running"]
        /\ agent' = [agent EXCEPT ![w] = [pc |-> "work", id |-> i, says |-> "failed"]]
  BY DEF CreateAgentRun
<1>2. [pc |-> "work", id |-> i, says |-> "failed"] \in AgentState
  BY RunAssumption DEF AgentState, Verdict, RunId
<1>3. agent' \in [AgentWorker -> AgentState]  BY <1>1, <1>2, AgentMoves
<1>4. run' \in [RunId -> RunRow]
  <2>1. run \in [RunId -> RunRow]  BY DEF RowsInv, RunTypeOK, RunRow
  <2> QED  BY <1>1, <2>1 DEF RunRow
<1>5. /\ pending' \in 0..NumRuns /\ kills' \in 0..MaxKills
      /\ pending' <= NumRuns - MaxKills + kills'
  BY RunAssumption DEF RowsInv, RunTypeOK, CreateAgentRun
<1> QED  BY <1>3, <1>4, <1>5 DEF RowsInv, RunTypeOK, RunRow, AgentState, CreateAgentRun

LEMMA CloseSavesInv ==
    ASSUME RowsInv, NEW w \in AgentWorker, CloseSaves(w) PROVE RowsInv'
<1>1. NoAgent \in AgentState  BY RunAssumption DEF NoAgent, AgentState, Verdict
<1>2. agent' \in [AgentWorker -> AgentState]  BY <1>1, AgentMoves DEF CloseSaves
<1>3. agent[w] \in AgentState /\ agent[w].says \in Verdict
  BY DEF RowsInv, RunTypeOK, AgentState
<1>4. run' \in [RunId -> RunRow] /\ verdict' \in [RunId -> Verdict \cup {"none"}]
  <2>1. run \in [RunId -> RunRow] /\ verdict \in [RunId -> Verdict \cup {"none"}]
    BY DEF RowsInv, RunTypeOK, RunRow
  <2>2. CASE UNCHANGED <<run, verdict>>  BY <2>1, <2>2
  <2>3. CASE /\ run' = [run EXCEPT ![agent[w].id].status = agent[w].says]
             /\ verdict' = [verdict EXCEPT ![agent[w].id] = agent[w].says]
    <3>1. run' \in [RunId -> RunRow]  BY <1>3, <2>1, <2>3 DEF RunRow
    <3>2. verdict' \in [RunId -> Verdict \cup {"none"}]  BY <1>3, <2>1, <2>3
    <3> QED  BY <3>1, <3>2
  <2> QED  BY <2>2, <2>3 DEF CloseSaves
<1> QED  BY <1>2, <1>4 DEF RowsInv, RunTypeOK, RunRow, AgentState, CloseSaves

LEMMA RunStep == RowsInv /\ [RunNext]_runVars => RowsInv'
<1> SUFFICES ASSUME RowsInv, [RunNext]_runVars PROVE RowsInv'  OBVIOUS
<1>a. NoAgent \in AgentState  BY RunAssumption DEF NoAgent, AgentState, Verdict
<1>b. run \in [RunId -> RunRow]  BY DEF RowsInv, RunTypeOK, RunRow
<1>1. ASSUME NEW w \in AgentWorker, CreateAgentRun(w) PROVE RowsInv'
  BY <1>1, CreateAgentRunInv
<1>2. ASSUME NEW w \in AgentWorker, Work(w) PROVE RowsInv'
  <2>1. PICK v \in Verdict : agent' = [agent EXCEPT ![w].pc = "close", ![w].says = v]
    BY <1>2 DEF Work
  <2>2. agent' \in [AgentWorker -> AgentState]
    BY <2>1 DEF RowsInv, RunTypeOK, AgentState
  <2> QED  BY <1>2, <2>2 DEF RowsInv, RunTypeOK, AgentState, Work
<1>3. ASSUME NEW w \in AgentWorker, CloseReads(w) PROVE RowsInv'
  <2>1. agent[w] \in AgentState  BY DEF RowsInv, RunTypeOK, AgentState
  <2>2. [agent[w] EXCEPT !.pc = "save"] \in AgentState  BY <2>1 DEF AgentState
  <2>3. agent' \in [AgentWorker -> AgentState]
    <3>1. CASE agent' = [agent EXCEPT ![w] = [agent[w] EXCEPT !.pc = "save"]]
      BY <2>2, <3>1, AgentMoves
    <3>2. CASE agent' = [agent EXCEPT ![w] = NoAgent]  BY <1>a, <3>2, AgentMoves
    <3> QED  BY <1>3, <3>1, <3>2 DEF CloseReads, RowsInv, RunTypeOK
  <2> QED  BY <1>3, <2>3 DEF RowsInv, RunTypeOK, AgentState, CloseReads
<1>4. ASSUME NEW w \in AgentWorker, CloseSaves(w) PROVE RowsInv'  BY <1>4, CloseSavesInv
<1>5. ASSUME NEW w \in AgentWorker, KillAgent(w) PROVE RowsInv'
  <2>1. agent' \in [AgentWorker -> AgentState]  BY <1>a, <1>5, AgentMoves DEF KillAgent
  <2>2. /\ pending' \in 0..NumRuns /\ kills' \in 0..MaxKills
        /\ pending' <= NumRuns - MaxKills + kills'
    BY <1>5, RunAssumption DEF RowsInv, RunTypeOK, KillAgent
  <2> QED  BY <1>5, <2>1, <2>2 DEF RowsInv, RunTypeOK, AgentState, KillAgent
<1>6. ASSUME NEW i \in RunId, Grow(i) PROVE RowsInv'
  <2>1. run' \in [RunId -> RunRow]  BY <1>b, <1>6 DEF Grow, RunRow
  <2> QED  BY <1>6, <2>1 DEF RowsInv, RunTypeOK, RunRow, Grow
<1>7. CASE CountStale  BY <1>7 DEF RowsInv, RunTypeOK, CountStale
<1>8. CASE FailStale
  <2>1. run' \in [RunId -> RunRow]
    BY <1>8, RowsMove DEF FailStale, StaleRuns, Verdict
  <2> QED  BY <1>8, <2>1 DEF RowsInv, RunTypeOK, RunRow, FailStale
<1>9. CASE ArchiveOldRuns
  <2>1. run' = [i \in RunId |-> IF i \in {j \in RunId : run[j].age = "old"}
                                THEN [run[i] EXCEPT !.status = "archived"] ELSE run[i]]
    BY <1>9 DEF ArchiveOldRuns
  <2>2. run' \in [RunId -> RunRow]  BY <2>1, RowsMove
  <2> QED  BY <1>9, <2>2 DEF RowsInv, RunTypeOK, RunRow, ArchiveOldRuns
<1>10. CASE UNCHANGED runVars  BY <1>10 DEF RowsInv, RunTypeOK, runVars
<1> QED  BY <1>1, <1>2, <1>3, <1>4, <1>5, <1>6, <1>7, <1>8, <1>9, <1>10 DEF RunNext, Cleanup

-----------------------------------------------------------------------------
(* Provider failover.                                                      *)

Health == [status: {"healthy", "degraded", "circuit_open"}, failures: Nat,
           until: {None, "ahead", "passed"}]
CallerState == [pc: {"idle", "call", "record", "recording"}, pool: SUBSET DOMAIN PROVIDER_PRIORITY,
                went: {"well", "transient", "broken"}]

\* A call that is under way has a provider to call.
BreakerInv ==
    /\ BreakerTypeOK
    /\ \A c \in Caller : caller[c].pc # "idle" => caller[c].pool # {}

LEMMA BreakerInitInv == BreakerInit => BreakerInv
<1> SUFFICES ASSUME BreakerInit PROVE BreakerInv  OBVIOUS
<1>1. NoCall \in CallerState /\ NoCall.pc = "idle"  BY DEF NoCall, CallerState
<1>2. caller \in [Caller -> CallerState] /\ \A c \in Caller : caller[c].pc = "idle"
  BY <1>1 DEF BreakerInit
<1>3. health \in [Provider -> Health]  BY DEF BreakerInit, Health
<1>4. calls \in 0..MaxCalls  BY BreakerAssumption DEF BreakerInit
<1> QED  BY <1>2, <1>3, <1>4 DEF BreakerInit, BreakerInv, BreakerTypeOK, Health, CallerState

\* The next of a pool is in it: it is the provider whose turn it is.
LEMMA HeadIsProvider ==
    ASSUME BreakerInv, NEW c \in Caller, caller[c].pc # "idle"
    PROVE  Front(c) \in caller[c].pool /\ HeadOf(c) \in Provider
<1>1. caller[c].pool \subseteq DOMAIN PROVIDER_PRIORITY /\ caller[c].pool # {}
  BY DEF BreakerInv, BreakerTypeOK
<1>2. caller[c].pool \in SUBSET Nat  BY <1>1, BreakerAssumption
<1>3. Front(c) \in caller[c].pool  BY <1>1, <1>2, LeastExists DEF Front
<1> QED  BY <1>1, <1>3 DEF HeadOf, Provider

LEMMA CallerGoesOn ==
    ASSUME BreakerInv, NEW c \in Caller, NEW next \in CallerState,
           next.pc # "idle" => next.pool # {}, caller' = [caller EXCEPT ![c] = next]
    PROVE  /\ caller' \in [Caller -> CallerState]
           /\ \A d \in Caller : caller'[d].pc # "idle" => caller'[d].pool # {}
BY DEF BreakerInv, BreakerTypeOK, CallerState

\* One field of a provider's health is written.
LEMMA HealthWritten ==
    ASSUME BreakerInv, NEW p \in Provider, NEW h \in Health, health' = [health EXCEPT ![p] = h]
    PROVE  health' \in [Provider -> Health]
BY DEF BreakerInv, BreakerTypeOK, Health

LEMMA GetLLMInv == ASSUME BreakerInv, NEW c \in Caller, GetLLM(c) PROVE BreakerInv'
<1> DEFINE pool == {i \in DOMAIN PROVIDER_PRIORITY : ~Open(PROVIDER_PRIORITY[i])}
           next == [NoCall EXCEPT !.pc = "call", !.pool = pool]
<1>1. pool # {} /\ caller' = [caller EXCEPT ![c] = next]  BY DEF GetLLM
<1>2. next \in CallerState /\ next.pool = pool  BY DEF NoCall, CallerState
<1>3. calls' \in 0..MaxCalls  BY BreakerAssumption DEF GetLLM, BreakerInv, BreakerTypeOK
<1> HIDE DEF next, pool
<1>4. /\ caller' \in [Caller -> CallerState]
      /\ \A d \in Caller : caller'[d].pc # "idle" => caller'[d].pool # {}
  BY <1>1, <1>2, CallerGoesOn
<1> QED  BY <1>3, <1>4 DEF BreakerInv, BreakerTypeOK, CallerState, GetLLM

LEMMA CallInv == ASSUME BreakerInv, NEW c \in Caller, Call(c) PROVE BreakerInv'
<1>1. PICK w \in {"well", "transient", "broken"} :
        caller' = [caller EXCEPT ![c].pc = "record", ![c].went = w]
  BY DEF Call
<1> DEFINE next == [caller[c] EXCEPT !.pc = "record", !.went = w]
<1>2. caller[c] \in CallerState /\ caller[c].pool # {}
  BY DEF BreakerInv, BreakerTypeOK, CallerState, Call
<1>3. next \in CallerState /\ next.pool = caller[c].pool  BY <1>2 DEF CallerState
<1>4. caller' = [caller EXCEPT ![c] = next]  BY <1>1, <1>2 DEF CallerState
<1> HIDE DEF next
<1>5. /\ caller' \in [Caller -> CallerState]
      /\ \A d \in Caller : caller'[d].pc # "idle" => caller'[d].pool # {}
  BY <1>2, <1>3, <1>4, CallerGoesOn
<1> QED  BY <1>5 DEF BreakerInv, BreakerTypeOK, CallerState, Call

LEMMA RecordInv == ASSUME BreakerInv, NEW c \in Caller, Record(c) PROVE BreakerInv'
<1> DEFINE p == HeadOf(c)
           n == IF caller[c].went = "well" THEN 0 ELSE health[p].failures + 1
           s == IF n = 0 THEN "healthy"
                ELSE IF n >= FAILURE_THRESHOLD THEN "circuit_open" ELSE "degraded"
           h == [health[p] EXCEPT !.failures = n, !.status = s]
           next == [caller[c] EXCEPT !.pc = "recording"]
<1>1. p \in Provider  BY HeadIsProvider DEF Record
<1>2. health[p] \in Health  BY <1>1 DEF BreakerInv, BreakerTypeOK, Health
<1>3. n \in Nat  BY <1>2 DEF Health
<1>4. s \in {"healthy", "degraded", "circuit_open"}  OBVIOUS
<1>5. /\ health' = [health EXCEPT ![p].failures = n, ![p].status = s]
      /\ lock' = [lock EXCEPT ![p] = c] /\ caller' = [caller EXCEPT ![c].pc = "recording"]
      /\ jammed' \in {jammed, jammed \cup {p}}
  BY DEF Record
<1> HIDE DEF p, n, s
<1>6. h \in Health  BY <1>2, <1>3, <1>4 DEF Health
<1>7. health' = [health EXCEPT ![p] = h]  BY <1>2, <1>5 DEF Health
<1>8. caller[c] \in CallerState /\ caller[c].pool # {}
  BY DEF BreakerInv, BreakerTypeOK, CallerState, Record
<1>9. next \in CallerState /\ next.pool = caller[c].pool  BY <1>8 DEF CallerState
<1>10. caller' = [caller EXCEPT ![c] = next]  BY <1>5, <1>8 DEF CallerState
<1> HIDE DEF h, next
<1>11. health' \in [Provider -> Health]  BY <1>1, <1>6, <1>7, HealthWritten
<1>12. /\ caller' \in [Caller -> CallerState]
       /\ \A d \in Caller : caller'[d].pc # "idle" => caller'[d].pool # {}
  BY <1>8, <1>9, <1>10, CallerGoesOn
<1>13. lock' \in [Provider -> Caller \cup {None}] /\ jammed' \subseteq Provider
  BY <1>1, <1>5 DEF BreakerInv, BreakerTypeOK
<1> QED  BY <1>11, <1>12, <1>13 DEF BreakerInv, BreakerTypeOK, CallerState, Health, Record

LEMMA RecordedInv == ASSUME BreakerInv, NEW c \in Caller, Recorded(c) PROVE BreakerInv'
<1> DEFINE p == HeadOf(c)
           rest == caller[c].pool \ {Front(c)}
           u == IF caller[c].went = "well" THEN None
                ELSE IF health[p].failures >= FAILURE_THRESHOLD THEN "ahead" ELSE health[p].until
           h == [health[p] EXCEPT !.until = u]
           next == IF caller[c].went = "transient" /\ rest # {}
                   THEN [NoCall EXCEPT !.pc = "call", !.pool = rest] ELSE NoCall
<1>1. p \in Provider  BY HeadIsProvider DEF Recorded
<1>2. health[p] \in Health /\ health \in [Provider -> Health]
  BY <1>1 DEF BreakerInv, BreakerTypeOK, Health
<1>3. u \in {None, "ahead", "passed"}  BY <1>2 DEF Health
<1>4. h \in Health  BY <1>2, <1>3 DEF Health
<1>5. health' = [health EXCEPT ![p] = h] /\ lock' = [lock EXCEPT ![p] = None]
      /\ caller' = [caller EXCEPT ![c] = next]
  BY <1>1, <1>2 DEF Recorded, Health
<1>6. rest \subseteq DOMAIN PROVIDER_PRIORITY  BY DEF BreakerInv, BreakerTypeOK
<1> HIDE DEF rest
<1>7. next \in CallerState /\ (next.pc # "idle" => next.pool # {})
  BY <1>6 DEF NoCall, CallerState
<1> HIDE DEF h, next, p
<1>8. health' \in [Provider -> Health]  BY <1>1, <1>4, <1>5, HealthWritten
<1>9. /\ caller' \in [Caller -> CallerState]
      /\ \A d \in Caller : caller'[d].pc # "idle" => caller'[d].pool # {}
  BY <1>5, <1>7, CallerGoesOn
<1>10. lock' \in [Provider -> Caller \cup {None}]  BY <1>5 DEF BreakerInv, BreakerTypeOK
<1> QED  BY <1>8, <1>9, <1>10 DEF BreakerInv, BreakerTypeOK, CallerState, Health, Recorded

\* Steps that write a field of one provider and touch no caller.
LEMMA ProviderStep ==
    ASSUME BreakerInv, NEW p \in Provider,
           Timeout(p) \/ ReportStep(p) \/ ResetCount(p) \/ ResetStatus(p) \/ ResetDeadline(p)
    PROVE  BreakerInv'
<1>1. health[p] \in Health  BY DEF BreakerInv, BreakerTypeOK, Health
<1>2. PICK h \in Health : health' = [health EXCEPT ![p] = h]
  <2>1. CASE Timeout(p)
    <3>1. [health[p] EXCEPT !.until = "passed"] \in Health  BY <1>1 DEF Health
    <3> QED  BY <2>1, <3>1, <1>1 DEF Timeout
  <2>2. CASE ReportStep(p)
    <3>1. [health[p] EXCEPT !.status = "degraded"] \in Health  BY <1>1 DEF Health
    <3>2. health = [health EXCEPT ![p] = health[p]]  BY DEF BreakerInv, BreakerTypeOK
    <3> QED  BY <2>2, <3>1, <3>2, <1>1 DEF ReportStep, AskAvailable, HalfOpen
  <2>3. CASE ResetCount(p)
    <3>1. [health[p] EXCEPT !.failures = 0] \in Health  BY <1>1 DEF Health
    <3> QED  BY <2>3, <3>1, <1>1 DEF ResetCount
  <2>4. CASE ResetStatus(p)
    <3>1. [health[p] EXCEPT !.status = "healthy"] \in Health  BY <1>1 DEF Health
    <3> QED  BY <2>4, <3>1, <1>1 DEF ResetStatus
  <2>5. CASE ResetDeadline(p)
    <3>1. [health[p] EXCEPT !.until = None] \in Health  BY <1>1 DEF Health
    <3> QED  BY <2>5, <3>1, <1>1 DEF ResetDeadline
  <2> QED  BY <2>1, <2>2, <2>3, <2>4, <2>5
<1>3. health' \in [Provider -> Health]  BY <1>2, HealthWritten
<1>4. /\ asking' \in [Provider -> BOOLEAN] /\ reset' \in [Provider -> {None, "status", "until"}]
      /\ jammed' \subseteq Provider /\ UNCHANGED <<lock, caller, calls>>
  BY DEF BreakerInv, BreakerTypeOK, Timeout, ReportStep, AskAvailable, HalfOpen, ResetCount,
         ResetStatus, ResetDeadline
<1> QED  BY <1>3, <1>4 DEF BreakerInv, BreakerTypeOK, Health

LEMMA BreakerStep == BreakerInv /\ [BreakerNext]_breakerVars => BreakerInv'
<1> SUFFICES ASSUME BreakerInv, [BreakerNext]_breakerVars PROVE BreakerInv'  OBVIOUS
<1>1. CASE UNCHANGED breakerVars  BY <1>1 DEF BreakerInv, BreakerTypeOK, breakerVars
<1> QED  BY <1>1, GetLLMInv, CallInv, RecordInv, RecordedInv, ProviderStep DEF BreakerNext

-----------------------------------------------------------------------------
(* Browser sessions.                                                       *)

LEMMA BrowserInitInv == BrowserInit => BrowserTypeOK
<1> SUFFICES ASSUME BrowserInit PROVE BrowserTypeOK  OBVIOUS
<1>1. ClosedTab \in TabState /\ NoCallYet \in RequestState
  BY BrowserAssumption DEF ClosedTab, TabState, NoCallYet, RequestState
<1>2. tab \in [Tab -> TabState] /\ request \in [Request -> RequestState]
  BY <1>1 DEF BrowserInit
<1>3. minted \in 0..NumPairs /\ stale \subseteq Pair /\ cookie \in 0..NumPairs
  BY BrowserAssumption DEF BrowserInit, Pair
<1>4. spender \in [Pair -> Tab \cup {Nobody}]  BY DEF BrowserInit
<1> QED  BY <1>2, <1>3, <1>4 DEF BrowserTypeOK

\* What a tab and a request consist of.
LEMMA TabParts ==
    ASSUME BrowserTypeOK, NEW t \in Tab
    PROVE  /\ tab[t] \in TabState /\ tab[t].phase \in {"closed", "booting", "open"}
           /\ tab[t].access \in 0..NumPairs /\ tab[t].refresh \in 0..NumPairs
           /\ tab[t].last \in 0..NumPairs /\ tab[t].refreshing \in BOOLEAN
BY DEF BrowserTypeOK, TabState

LEMMA RequestParts ==
    ASSUME BrowserTypeOK, NEW r \in Request
    PROVE  /\ TabOf[r] \in Tab /\ request[r] \in RequestState
           /\ request[r].tok \in 0..NumPairs /\ request[r].ref \in 0..NumPairs
           /\ request[r].new \in 0..NumPairs /\ request[r].retry \in BOOLEAN
           /\ Presented(TabOf[r]) \in 0..NumPairs
BY BrowserAssumption DEF BrowserTypeOK, RequestState, TabState, Presented

LEMMA NoRequest == 0 \in 0..NumPairs /\ NoCallYet \in RequestState
BY BrowserAssumption DEF NoCallYet, RequestState

\* One request moves on.
LEMMA RequestMoves ==
    ASSUME BrowserTypeOK, NEW r \in Request, NEW next \in RequestState,
           request' = [request EXCEPT ![r] = next]
    PROVE  request' \in [Request -> RequestState]
BY DEF BrowserTypeOK

LEMMA LoadPageInv == ASSUME BrowserTypeOK, NEW r \in Request, LoadPage(r) PROVE BrowserTypeOK'
<1> DEFINE next == [NoCallYet EXCEPT !.pc = "refreshing", !.ref = Presented(TabOf[r])]
<1>1. next \in RequestState  BY RequestParts, NoRequest DEF NoCallYet, RequestState
<1>2. request' = [request EXCEPT ![r] = next]  BY DEF LoadPage
<1> HIDE DEF next
<1>3. request' \in [Request -> RequestState]  BY <1>1, <1>2, RequestMoves
<1>4. TabOf[r] \in Tab /\ tab[TabOf[r]] \in TabState  BY RequestParts, TabParts
<1>5. [tab[TabOf[r]] EXCEPT !.phase = "booting"] \in TabState  BY <1>4 DEF TabState
<1>6. tab' \in [Tab -> TabState]  BY <1>4, <1>5 DEF LoadPage, BrowserTypeOK
<1> QED  BY <1>3, <1>6 DEF BrowserTypeOK, LoadPage

LEMMA BootInv == ASSUME BrowserTypeOK, NEW r \in Request, Booted(r) \/ BootFailed(r) PROVE BrowserTypeOK'
<1>1. request' = [request EXCEPT ![r] = NoCallYet]  BY DEF Booted, BootFailed
<1>2. request' \in [Request -> RequestState]  BY <1>1, NoRequest, RequestMoves
<1>3. cookie' \in 0..NumPairs
  BY RequestParts DEF Booted, BootFailed, BrowserTypeOK
<1>4. PICK new \in 0..NumPairs :
        tab' = [tab EXCEPT ![TabOf[r]].phase = "open", ![TabOf[r]].access = new, ![TabOf[r]].refresh = new]
  BY RequestParts, NoRequest DEF Booted, BootFailed
<1>5. TabOf[r] \in Tab /\ tab[TabOf[r]] \in TabState  BY RequestParts, TabParts
<1>6. [tab[TabOf[r]] EXCEPT !.phase = "open", !.access = new, !.refresh = new] \in TabState
  BY <1>5 DEF TabState
<1>7. tab' \in [Tab -> TabState]  BY <1>4, <1>5, <1>6 DEF BrowserTypeOK
<1> QED  BY <1>2, <1>3, <1>7 DEF BrowserTypeOK, Booted, BootFailed

LEMMA CallsInv ==
    ASSUME BrowserTypeOK, NEW r \in Request, SendCall(r) \/ Answered(r) \/ Lose(r)
    PROVE  BrowserTypeOK'
<1>1. PICK next \in RequestState : request' = [request EXCEPT ![r] = next]
  <2>1. CASE SendCall(r)
    <3>1. [NoCallYet EXCEPT !.pc = "sent", !.tok = tab[TabOf[r]].access] \in RequestState
      BY RequestParts, TabParts, NoRequest DEF NoCallYet, RequestState
    <3> QED  BY <2>1, <3>1 DEF SendCall
  <2>2. CASE Answered(r)  BY <2>2, NoRequest DEF Answered
  <2>3. CASE Lose(r)
    <3>1. [request[r] EXCEPT !.pc = "lost"] \in RequestState  BY RequestParts DEF RequestState
    <3> QED  BY <2>3, <3>1, RequestParts DEF Lose
  <2> QED  BY <2>1, <2>2, <2>3
<1>2. request' \in [Request -> RequestState]  BY <1>1, RequestMoves
<1> QED  BY <1>2 DEF BrowserTypeOK, SendCall, Answered, Lose

LEMMA UnauthorizedInv == ASSUME BrowserTypeOK, NEW r \in Request, Unauthorized(r) PROVE BrowserTypeOK'
<1> DEFINE t == TabOf[r]
           next == [request[r] EXCEPT !.pc = "refreshing", !.ref = Presented(t), !.retry = TRUE]
<1>1. t \in Tab /\ request[r] \in RequestState /\ tab[t] \in TabState
  BY RequestParts, TabParts
<1>2. next \in RequestState  BY <1>1, RequestParts DEF RequestState
<1>3. \A pc \in {"rejected", "queued"} : [request[r] EXCEPT !.pc = pc] \in RequestState
  BY <1>1 DEF RequestState
<1>4. [tab[t] EXCEPT !.refreshing = TRUE] \in TabState  BY <1>1 DEF TabState
<1>5. \/ request' = [request EXCEPT ![r].pc = "rejected"] /\ UNCHANGED tab
      \/ request' = [request EXCEPT ![r].pc = "queued"] /\ UNCHANGED tab
      \/ /\ request' = [request EXCEPT ![r].pc = "refreshing", ![r].ref = Presented(t), ![r].retry = TRUE]
         /\ tab' = [tab EXCEPT ![t].refreshing = TRUE]
  BY DEF Unauthorized
<1>6. request' \in [Request -> RequestState]
  <2>1. CASE request' = [request EXCEPT ![r].pc = "rejected"]
    BY <1>3, <2>1 DEF BrowserTypeOK
  <2>2. CASE request' = [request EXCEPT ![r].pc = "queued"]
    BY <1>3, <2>2 DEF BrowserTypeOK
  <2>3. CASE request' = [request EXCEPT ![r].pc = "refreshing", ![r].ref = Presented(t), ![r].retry = TRUE]
    <3>1. request' = [request EXCEPT ![r] = next]  BY <1>1, <2>3 DEF RequestState
    <3> HIDE DEF next
    <3> QED  BY <1>2, <3>1, RequestMoves
  <2> QED  BY <1>5, <2>1, <2>2, <2>3
<1>7. tab' \in [Tab -> TabState]
  BY <1>1, <1>4, <1>5 DEF BrowserTypeOK
<1> QED  BY <1>6, <1>7 DEF BrowserTypeOK, Unauthorized

LEMMA ServeRefreshInv == ASSUME BrowserTypeOK, NEW r \in Request, ServeRefresh(r) PROVE BrowserTypeOK'
<1> DEFINE ref == request[r].ref
<1>1. TabOf[r] \in Tab /\ request[r] \in RequestState /\ ref \in 0..NumPairs
  BY RequestParts
<1>2. CASE minted < NumPairs /\ minted' = minted + 1
           /\ spender' = [spender EXCEPT ![ref] = TabOf[r]]
           /\ request' = [request EXCEPT ![r].pc = "granted", ![r].new = minted + 1]
  <2>1. minted' \in 0..NumPairs /\ minted + 1 \in 0..NumPairs
    BY <1>2, BrowserAssumption DEF BrowserTypeOK
  <2>2. [request[r] EXCEPT !.pc = "granted", !.new = minted + 1] \in RequestState
    BY <1>1, <2>1 DEF RequestState
  <2>3. request' \in [Request -> RequestState]
    BY <1>2, <1>1, <2>2, RequestMoves
  <2>4. spender' \in [Pair -> Tab \cup {Nobody}]
    BY <1>1, <1>2 DEF BrowserTypeOK
  <2> QED  BY <2>1, <2>3, <2>4 DEF BrowserTypeOK, ServeRefresh
<1>3. ASSUME NEW pc \in {"denied", "lapsed"}, request' = [request EXCEPT ![r].pc = pc],
             UNCHANGED <<minted, spender>>
      PROVE  BrowserTypeOK'
  <2>1. [request[r] EXCEPT !.pc = pc] \in RequestState  BY <1>1 DEF RequestState
  <2>2. request' \in [Request -> RequestState]  BY <1>1, <1>3, <2>1, RequestMoves
  <2> QED  BY <1>3, <2>2 DEF BrowserTypeOK, ServeRefresh
<1> QED  BY <1>2, <1>3 DEF ServeRefresh

LEMMA RefreshEndsInv ==
    ASSUME BrowserTypeOK, NEW r \in Request, Refreshed(r) \/ SessionExpired(r) PROVE BrowserTypeOK'
<1> DEFINE t == TabOf[r]
           new == request[r].new
<1>1. t \in Tab /\ tab[t] \in TabState /\ new \in 0..NumPairs /\ 0 \in 0..NumPairs
  BY RequestParts, TabParts, NoRequest
<1>2. cookie' \in 0..NumPairs
  BY <1>1 DEF Refreshed, SessionExpired, BrowserTypeOK
<1>3. tab' \in [Tab -> TabState]
  <2>1. /\ [tab[t] EXCEPT !.access = new, !.refresh = new, !.last = new, !.refreshing = FALSE] \in TabState
        /\ [tab[t] EXCEPT !.access = 0, !.refresh = 0, !.refreshing = FALSE] \in TabState
    BY <1>1 DEF TabState
  <2>2. CASE Refreshed(r)  BY <1>1, <2>1, <2>2 DEF Refreshed, BrowserTypeOK
  <2>3. CASE SessionExpired(r)  BY <1>1, <2>1, <2>3 DEF SessionExpired, BrowserTypeOK
  <2> QED  BY <2>2, <2>3
<1>4. request' \in [Request -> RequestState]
  <2>1. ASSUME NEW q \in Request
        PROVE  /\ request[q] \in RequestState /\ [request[q] EXCEPT !.pc = "rejected"] \in RequestState
               /\ [NoCallYet EXCEPT !.pc = "sent", !.tok = new, !.retry = request[q].retry] \in RequestState
    BY <1>1, RequestParts, NoRequest DEF RequestState, NoCallYet
  <2>2. CASE Refreshed(r)  BY <2>1, <2>2 DEF Refreshed
  <2>3. CASE SessionExpired(r)  BY <2>1, <2>3 DEF SessionExpired
  <2> QED  BY <2>2, <2>3
<1> QED  BY <1>2, <1>3, <1>4 DEF BrowserTypeOK, Refreshed, SessionExpired

LEMMA SessionInv ==
    ASSUME BrowserTypeOK, NEW t \in Tab, Login(t) \/ Logout(t) PROVE BrowserTypeOK'
<1>1. PICK new \in 0..NumPairs : tab' = [tab EXCEPT ![t].access = new, ![t].refresh = new]
  BY NoRequest, BrowserAssumption
  DEF Login, Logout, SignIn, BrowserTypeOK
<1>2. tab[t] \in TabState  BY TabParts
<1>3. [tab[t] EXCEPT !.access = new, !.refresh = new] \in TabState  BY <1>2 DEF TabState
<1>4. tab' \in [Tab -> TabState]  BY <1>1, <1>2, <1>3 DEF BrowserTypeOK
<1>5. minted' \in 0..NumPairs /\ cookie' \in 0..NumPairs
  BY NoRequest, BrowserAssumption
  DEF Login, Logout, SignIn, SignOut, BrowserTypeOK
<1> QED  BY <1>4, <1>5 DEF BrowserTypeOK, Login, Logout

LEMMA BrowserStep == BrowserTypeOK /\ [BrowserNext]_browserVars => BrowserTypeOK'
<1> SUFFICES ASSUME BrowserTypeOK, [BrowserNext]_browserVars PROVE BrowserTypeOK'  OBVIOUS
<1>1. CASE UNCHANGED browserVars  BY <1>1 DEF BrowserTypeOK, browserVars
<1>2. ASSUME NEW p \in Pair, ExpirePair(p) PROVE BrowserTypeOK'
  BY <1>2 DEF BrowserTypeOK, ExpirePair
<1> QED
  BY <1>1, <1>2, LoadPageInv, BootInv, CallsInv, UnauthorizedInv, ServeRefreshInv,
     RefreshEndsInv, SessionInv
  DEF BrowserNext, RequestStep

-----------------------------------------------------------------------------
(* Questions.                                                              *)

WorkPc == {"new", "queued", "cancelled", "ended"} \cup Running
AskerPc == {"new", "classifying", "waiting", "late", "leaving", "answered"}
WorkState == [pc: WorkPc, tries: 0..MaxTries, result: Result]

LEMMA QuestionInitType == QuestionInit => QuestionTypeOK
<1> SUFFICES ASSUME QuestionInit PROVE QuestionTypeOK  OBVIOUS
<1>1. 0 \in 0..MaxTries  BY QuestionAssumption
<1>2. NotAsked \in WorkState  BY <1>1 DEF NotAsked, WorkState, WorkPc, Result
<1>3. work \in [Question -> WorkState]  BY <1>2 DEF QuestionInit
<1> QED  BY <1>3 DEF QuestionInit, QuestionTypeOK, WorkState, WorkPc, Reply

\* The engine's thread goes on: it moves, ends, or tries once more.
LEMMA WorkGoesOn ==
    ASSUME QuestionTypeOK, NEW q \in Question
    PROVE  /\ \A pc \in WorkPc : GotoWork(q, pc) => work' \in [Question -> WorkState]
           /\ \A r \in Result : End(q, r) => work' \in [Question -> WorkState]
           /\ \A pc \in WorkPc, n \in 0..MaxTries :
                work' = [work EXCEPT ![q].pc = pc, ![q].tries = n] => work' \in [Question -> WorkState]
           /\ \A n \in 0..MaxTries :
                work' = [work EXCEPT ![q].tries = n] => work' \in [Question -> WorkState]
<1>1. work \in [Question -> WorkState] /\ work[q] \in WorkState
  BY DEF QuestionTypeOK, WorkState, WorkPc
<1>2. /\ \A pc \in WorkPc : [work[q] EXCEPT !.pc = pc] \in WorkState
      /\ \A n \in 0..MaxTries : [work[q] EXCEPT !.tries = n] \in WorkState
      /\ \A pc \in WorkPc, n \in 0..MaxTries : [work[q] EXCEPT !.pc = pc, !.tries = n] \in WorkState
  BY <1>1 DEF WorkState
<1>3. ASSUME NEW r \in Result PROVE [work[q] EXCEPT !.pc = "ended", !.result = r] \in WorkState
  BY <1>1 DEF WorkState, WorkPc
<1>4. \A pc \in WorkPc : GotoWork(q, pc) => work' \in [Question -> WorkState]
  BY <1>1, <1>2 DEF GotoWork
<1>5. \A r \in Result : End(q, r) => work' \in [Question -> WorkState]
  BY <1>1, <1>3 DEF End
<1>6. \A pc \in WorkPc, n \in 0..MaxTries :
        work' = [work EXCEPT ![q].pc = pc, ![q].tries = n] => work' \in [Question -> WorkState]
  BY <1>1, <1>2
<1>7. \A n \in 0..MaxTries :
        work' = [work EXCEPT ![q].tries = n] => work' \in [Question -> WorkState]
  BY <1>1, <1>2
<1> QED  BY <1>4, <1>5, <1>6, <1>7

LEMMA Steps == WorkPc = {"new", "queued", "cancelled", "ended", "search", "rerank", "generate",
                         "filter", "chain", "dispatch", "format"}
BY DEF WorkPc, Running, RagStep, QueryStep

\* What a request's thread does when its engine's thread does not move.
LEMMA AskerMoves ==
    ASSUME QuestionTypeOK, NEW q \in Question, Answer(q) \/ TimeOut(q) \/ Leave(q) \/ Hang(q)
    PROVE  QuestionTypeOK'
<1>1. \A r \in Result : StatusOf(r) \in Reply  BY DEF StatusOf, Result, Reply
<1>2. work[q].result \in Result  BY DEF QuestionTypeOK
<1>3. StatusOf(work[q].result) \in Reply /\ "504" \in Reply  BY <1>1, <1>2 DEF Reply
<1>4. reply' \in [Question -> Reply]
  BY <1>3 DEF QuestionTypeOK, Answer, TimeOut, Leave, Hang
<1>5. asker' \in [Question -> AskerPc]
  BY DEF QuestionTypeOK, AskerPc, Answer, TimeOut, Leave, Hang
<1>6. kept' \subseteq Question /\ hung' \subseteq Question /\ UNCHANGED <<work, endpoint>>
  BY DEF QuestionTypeOK, Answer, TimeOut, Leave, Hang
<1> QED  BY <1>4, <1>5, <1>6 DEF QuestionTypeOK, AskerPc

LEMMA SubmitType ==
    ASSUME QuestionTypeOK, NEW q \in Question, Submit(q) PROVE QuestionTypeOK'
<1>1. "400" \in Reply  BY DEF Reply
<1>2. /\ asker' \in [Question -> AskerPc]
      /\ reply' \in [Question -> Reply]
  BY <1>1 DEF QuestionTypeOK, AskerPc, Submit
<1>3. endpoint' \in [Question -> {"none", "chat", "rag", "query"}]  BY DEF QuestionTypeOK, Submit
<1>4. \A e \in {"chat", "rag", "query"} : FirstStep(e) \in WorkPc  BY Steps DEF FirstStep
<1>5. work \in [Question -> WorkState]  BY DEF QuestionTypeOK, WorkState, WorkPc
<1>6. work' \in [Question -> WorkState]  BY <1>4, <1>5, WorkGoesOn DEF Submit
<1> QED  BY <1>2, <1>3, <1>6 DEF QuestionTypeOK, WorkState, WorkPc, AskerPc, Submit

LEMMA ClassifiedType ==
    ASSUME QuestionTypeOK, NEW q \in Question, Classified(q) PROVE QuestionTypeOK'
<1>1. asker' \in [Question -> AskerPc] /\ UNCHANGED <<endpoint, reply, kept, hung>>
  BY DEF QuestionTypeOK, AskerPc, Classified
<1>2. work' \in [Question -> WorkState]  BY WorkGoesOn, Steps DEF Classified
<1> QED  BY <1>1, <1>2 DEF QuestionTypeOK, WorkState, WorkPc, AskerPc

LEMMA CancelType ==
    ASSUME QuestionTypeOK, NEW q \in Question, Cancel(q) PROVE QuestionTypeOK'
<1>1. "504" \in Reply  BY DEF Reply
<1>2. /\ asker' \in [Question -> AskerPc]
      /\ reply' \in [Question -> Reply]
  BY <1>1 DEF QuestionTypeOK, AskerPc, Cancel
<1>3. work \in [Question -> WorkState]  BY DEF QuestionTypeOK, WorkState, WorkPc
<1>4. work' \in [Question -> WorkState]  BY <1>3, WorkGoesOn, Steps DEF Cancel
<1> QED  BY <1>2, <1>4 DEF QuestionTypeOK, WorkState, WorkPc, AskerPc, Cancel

LEMMA EngineType ==
    ASSUME QuestionTypeOK, NEW q \in Question, EngineStep(q) PROVE QuestionTypeOK'
<1>1. UNCHANGED <<endpoint, asker, reply, hung>> /\ kept' \subseteq Question
  BY DEF QuestionTypeOK, EngineStep, RequestRest, Start, Search, Rerank, Generate, Filter, Chain,
         Dispatch, Format
<1>2. {"answer", "apology", "blocked", "quota", "error"} \subseteq Result  BY DEF Result
<1>3. work[q].tries \in 0..MaxTries /\ 0 \in 0..MaxTries
  BY QuestionAssumption DEF QuestionTypeOK
<1>4. work[q].tries < MaxTries - 1 => work[q].tries + 1 \in 0..MaxTries
  BY <1>3, QuestionAssumption
<1>5. work' \in [Question -> WorkState]
  <2>1. CASE Start(q)  BY <2>1, WorkGoesOn, Steps DEF Start
  <2>2. CASE Search(q)  BY <1>2, <2>2, WorkGoesOn, Steps DEF Search
  <2>3. CASE Rerank(q)  BY <1>2, <1>4, <2>3, WorkGoesOn, Steps DEF Rerank
  <2>4. CASE Generate(q)  BY <1>2, <2>4, WorkGoesOn, Steps DEF Generate
  <2>5. CASE Filter(q)  BY <1>2, <2>5, WorkGoesOn, Steps DEF Filter
  <2>6. CASE Chain(q)
    <3>1. CASE work' = [work EXCEPT ![q].pc = "dispatch", ![q].tries = 0]
      BY <1>3, <3>1, WorkGoesOn, Steps
    <3>2. CASE work[q].tries < MaxTries - 1 /\ work' = [work EXCEPT ![q].tries = @ + 1]
      BY <1>4, <3>2, WorkGoesOn
    <3>3. CASE \E r \in {"quota", "error"} :
                 End(q, IF endpoint[q] = "query" /\ r = "error" THEN "blocked"
                        ELSE IF endpoint[q] = "chat" THEN "error" ELSE r)
      BY <1>2, <3>3, WorkGoesOn
    <3> QED  BY <2>6, <3>1, <3>2, <3>3 DEF Chain
  <2>7. CASE Dispatch(q)  BY <1>2, <2>7, WorkGoesOn, Steps DEF Dispatch
  <2>8. CASE Format(q)  BY <1>2, <2>8, WorkGoesOn, Steps DEF Format
  <2> QED  BY <2>1, <2>2, <2>3, <2>4, <2>5, <2>6, <2>7, <2>8 DEF EngineStep
<1> QED  BY <1>1, <1>5 DEF QuestionTypeOK, WorkState, WorkPc

LEMMA QuestionStep == QuestionTypeOK /\ [QuestionNext]_questionVars => QuestionTypeOK'
<1> SUFFICES ASSUME QuestionTypeOK, [QuestionNext]_questionVars PROVE QuestionTypeOK'  OBVIOUS
<1>1. CASE UNCHANGED questionVars  BY <1>1 DEF QuestionTypeOK, questionVars
<1> QED
  BY <1>1, SubmitType, ClassifiedType, EngineType, AskerMoves, CancelType DEF QuestionNext, AskerStep

-----------------------------------------------------------------------------
(* Types the invariants of the other parts leave out.                      *)

\* What the invariants of the caches do not say of their types.
LEMMA CacheTypeStep ==
    ASSUME CachesInv, CacheTypeOK, [CacheNext]_cacheVars PROVE CacheTypeOK'
<1>1. CachesInv'  BY CacheStep
<1>2. entry' = entry
  BY DEF CacheNext, Miss, Serve, Query, Store, QueryFails, Write, WriteRows, DeleteKeyEarly,
         CommitLate, DeleteKey, ExpireEntry, cacheVars
<1>3. outages' = outages \/ (outages < MaxOutages /\ outages' = outages + 1)
  BY DEF CacheNext, Miss, Serve, Query, Store, QueryFails, Write, WriteRows,
         DeleteKeyEarly, CommitLate, DeleteKey, ExpireEntry, Invalidate, cacheVars
<1>4. outages' \in 0..MaxOutages  BY <1>3, CacheAssumption DEF CacheTypeOK
<1> QED
  BY <1>1, <1>2, <1>4 DEF CacheTypeOK, CachesInv, CacheShape, ReaderState, WriterState

LEMMA CacheInitType == CacheInit => CacheTypeOK
<1> SUFFICES ASSUME CacheInit PROVE CacheTypeOK  OBVIOUS
<1>1. CachesInv  BY CacheInitInv
<1>2. entry \in Entry /\ outages \in 0..MaxOutages  BY CacheAssumption DEF CacheInit
<1> QED  BY <1>1, <1>2 DEF CacheTypeOK, CachesInv, CacheShape, ReaderState, WriterState

\* A request that mails or spends a link has one.
HasLink == \A r \in AccountRequest : served[r].pc \in {"mail", "verify", "spend"} => served[r].id \in Token

LEMMA AccountTypeStep ==
    ASSUME AccInv, AccountTypeOK, HasLink, [AccountNext]_accountVars
    PROVE  AccountTypeOK' /\ HasLink'
<1>1. AccInv'  BY AccountStep
<1>2. served \in [AccountRequest -> ServedState]  BY DEF AccInv
<1>3. token' \in [Token -> {"unborn", "live", "expired", "gone"}] /\ mailed' \subseteq Token /\ HasLink'
  <2>1. ASSUME NEW r \in AccountRequest, Resend(r) \/ Deactivate(r)
        PROVE  /\ HasLink' /\ mailed' = mailed
               /\ token' \in [Token -> {"unborn", "live", "expired", "gone"}]
    BY <1>2, <2>1 DEF Resend, Deactivate, AccountTypeOK, HasLink, ServedState
  <2>2. ASSUME NEW r \in AccountRequest, CreateToken(r)
        PROVE  /\ HasLink' /\ mailed' = mailed
               /\ token' \in [Token -> {"unborn", "live", "expired", "gone"}]
    <3>1. PICK t \in Token : /\ token' = [token EXCEPT ![t] = "live"]
                             /\ served' = [served EXCEPT ![r].pc = "mail", ![r].id = t]
      BY <2>2 DEF CreateToken, Unborn
    <3>2. HasLink'  BY <1>2, <3>1 DEF HasLink, ServedState
    <3> QED  BY <2>2, <3>1, <3>2 DEF CreateToken, AccountTypeOK
  <2>3. ASSUME NEW r \in AccountRequest, MailLink(r)
        PROVE  HasLink' /\ mailed' \subseteq Token /\ token' = token
    BY <1>2, <2>3 DEF MailLink, AccountTypeOK, HasLink, ServedState, NoAccountRequest
  <2>4. ASSUME NEW r \in AccountRequest, Verify(r) \/ SpendLink(r)
        PROVE  /\ HasLink' /\ mailed' = mailed
               /\ token' \in [Token -> {"unborn", "live", "expired", "gone"}]
    BY <1>2, <2>4 DEF Verify, SpendLink, AccountTypeOK, HasLink, ServedState, NoAccountRequest
  <2>5. ASSUME NEW r \in AccountRequest, EditUser(r) \/ SaveUser(r) \/ PerformDestroy(r)
        PROVE  HasLink' /\ mailed' = mailed /\ token' = token
    BY <1>2, <2>5 DEF EditUser, SaveUser, PerformDestroy, HasLink, ServedState, NoAccountRequest
  <2>6. ASSUME NEW r \in AccountRequest, NEW t \in Token, OpenLink(r, t)
        PROVE  /\ HasLink' /\ mailed' = mailed
               /\ token' \in [Token -> {"unborn", "live", "expired", "gone"}]
    BY <1>2, <2>6 DEF OpenLink, AccountTypeOK, HasLink, ServedState
  <2>7. ASSUME NEW t \in Token, ExpireLink(t)
        PROVE  /\ HasLink' /\ mailed' = mailed
               /\ token' \in [Token -> {"unborn", "live", "expired", "gone"}]
    BY <2>7 DEF ExpireLink, AccountTypeOK, HasLink
  <2>8. CASE UNCHANGED accountVars  BY <2>8 DEF accountVars, AccountTypeOK, HasLink
  <2> QED
    BY <2>1, <2>2, <2>3, <2>4, <2>5, <2>6, <2>7, <2>8 DEF AccountNext, AccountTypeOK
<1>4. /\ unsent' \in BOOLEAN /\ lapsed' \in BOOLEAN /\ deactivated' \in BOOLEAN
      /\ confirmed' \in BOOLEAN /\ clobbered' \in BOOLEAN
  <2>1. ASSUME NEW r \in AccountRequest, SaveUser(r)
        PROVE  clobbered' \in BOOLEAN /\ UNCHANGED <<unsent, lapsed, deactivated, confirmed>>
    BY <2>1 DEF SaveUser
  <2> QED
    BY <2>1 DEF AccountTypeOK, AccountNext, Resend, CreateToken, MailLink, Verify, SpendLink, EditUser,
                Deactivate, PerformDestroy, OpenLink, ExpireLink, accountVars
<1> QED  BY <1>1, <1>3, <1>4 DEF AccountTypeOK, AccInv, ServedState, RequestPc

LEMMA AccountInitType == AccountInit => AccountTypeOK /\ HasLink
<1> SUFFICES ASSUME AccountInit PROVE AccountTypeOK /\ HasLink  OBVIOUS
<1>1. AccInv  BY AccountInitInv
<1>2. \A r \in AccountRequest : served[r].pc \in {"idle", "create"}
  BY DEF AccountInit, NoAccountRequest
<1> QED
  BY <1>1, <1>2 DEF AccountInit, AccountTypeOK, HasLink, AccInv, ServedState, RequestPc

\* A row of a child table is of a SKU there is, and what is deleted or late was once created.
ChildrenHaveSkus ==
    /\ created \subseteq Product \cup Supplier \cup Sku \cup PO
    /\ child \subseteq Child \X sku
    /\ deleted \subseteq Product \cup Supplier \cup Sku /\ late \subseteq PO

LEMMA CatalogTypes == CatInv /\ ChildrenHaveSkus => CatalogTypeOK
BY DEF CatInv, ChildrenHaveSkus, CatalogTypeOK, CatalogShape, ClientState, RowsWereCreated

LEMMA CatalogTypeStep ==
    ASSUME CatInv, ChildrenHaveSkus, [CatalogNext]_catalogVars PROVE ChildrenHaveSkus'
<1>1. ASSUME NEW c \in Client, NEW id \in Product \cup Supplier \cup Sku, CreateRow(c, id)
      PROVE  ChildrenHaveSkus'
  <2>1. sku \subseteq sku' /\ child' = child  BY <1>1 DEF CreateRow
  <2> QED  BY <1>1, <2>1 DEF CreateRow, ChildrenHaveSkus
<1>2. ASSUME NEW c \in Client, NEW kind \in WriteKind, NEW id \in Fetchable(c), Fetch(c, kind, id)
      PROVE  ChildrenHaveSkus'
  BY <1>2 DEF Fetch, ChildrenHaveSkus
<1>3. ASSUME NEW c \in Client,
             UpdateRow(c) \/ UpdateSupplier(c) \/ CheckOpenOrders(c) \/ DeleteSupplier(c) \/ DeleteProduct(c)
      PROVE  ChildrenHaveSkus'
  BY <1>3 DEF UpdateRow, UpdateSupplier, CheckOpenOrders, DeleteSupplier, DeleteProduct, Asks,
              ChildrenHaveSkus
<1>4. ASSUME NEW c \in Client, DeleteSku(c) PROVE ChildrenHaveSkus'
  <2>1. client[c].id \in Sku /\ late' \subseteq late  BY <1>4 DEF DeleteSku, Asks
  <2>2. child' \subseteq Child \X sku'
    BY <1>4 DEF DeleteSku, ChildrenHaveSkus
  <2> QED  BY <1>4, <2>1, <2>2 DEF DeleteSku, ChildrenHaveSkus
<1>5. ASSUME NEW c \in Client, NEW r \in Child \X sku, CreateChild(c, r) \/ DeleteChild(c, r)
      PROVE  ChildrenHaveSkus'
  BY <1>5 DEF CreateChild, DeleteChild, ChildrenHaveSkus
<1>6. ASSUME NEW c \in Client, EditOrder(c) \/ DeleteOrder(c) PROVE ChildrenHaveSkus'
  BY <1>6 DEF EditOrder, DeleteOrder, Asks, Noted, ChildrenHaveSkus
<1>7. ASSUME NEW o \in PO, Move(o) PROVE ChildrenHaveSkus'
  BY <1>7 DEF Move, Noted, ChildrenHaveSkus
<1>8. ASSUME NEW o \in PO, NEW s \in Supplier, NEW k \in Sku, Draft(o, s, k)
      PROVE  ChildrenHaveSkus'
  BY <1>8 DEF Draft, Noted, ChildrenHaveSkus
<1>9. CASE UNCHANGED catalogVars  BY <1>9 DEF catalogVars, ChildrenHaveSkus
<1> QED
  BY <1>1, <1>2, <1>3, <1>4, <1>5, <1>6, <1>7, <1>8, <1>9 DEF CatalogNext

LEMMA CatalogInitType == CatalogInit => ChildrenHaveSkus
BY DEF CatalogInit, ChildrenHaveSkus

\* A question has so many conditions at most, and what it is answered by are predicates.
FilterType == FilterTypeOK /\ IsFiniteSet(query.conditions)

LEMMA LookupsKnown ==
    /\ {"exact", "icontains", "gte", "lte"} \subseteq Lookup
    /\ \A op \in Op : OP_MAP[op] \in Lookup
<1>1. \A op \in Op : OP_MAP[op] \in Lookup  BY DEF Lookup
<1>2. {"eq", "contains", "gte", "lte"} \subseteq Op  BY DEF Op
<1>3. /\ OP_MAP["eq"] = "exact" /\ OP_MAP["contains"] = "icontains"
      /\ OP_MAP["gte"] = "gte" /\ OP_MAP["lte"] = "lte"
  BY DEF OP_MAP
<1> QED  BY <1>1, <1>2, <1>3

LEMMA QuantityIsField == "quantity_on_hand" \in Field
<1>1. "quantity_on_hand" \in ACTION_ALLOWED_FIELDS["get_low_stock"] /\ "get_low_stock" \in Action
  BY DEF ACTION_ALLOWED_FIELDS, Action
<1> QED  BY <1>1 DEF Field

LEMMA ActiveIsField == "is_active" \in Field
<1>1. "is_active" \in ACTION_ALLOWED_FIELDS["get_total_value"] /\ "get_total_value" \in Action
  BY DEF ACTION_ALLOWED_FIELDS, Action
<1> QED  BY <1>1 DEF Field

LEMMA WhereIsPredicate ==
    ASSUME NEW c \in Condition, NEW lookup \in Lookup \cup {"bad"}, NEW negated \in BOOLEAN
    PROVE  Where(c, lookup, negated) \subseteq Predicate
<1> DEFINE l == IF lookup = "in" /\ c.shape = "one" THEN "letters" ELSE lookup
<1>1. c.field \in Field /\ c.value \in SUBSET Nat  BY FilterAssumption DEF Condition
<1>2. FIELD_ALIASES[c.field] \in Field \cup {"date"}
  BY <1>1, QuantityIsField DEF FIELD_ALIASES
<1>3. l \in Lookup \cup {"bad", "letters"}  OBVIOUS
<1>4. Where(c, lookup, negated) = {[field |-> FIELD_ALIASES[c.field], value |-> c.value,
                                   negated |-> negated, lookup |-> l]}
  BY DEF Where
<1> HIDE DEF l
<1> QED  BY <1>1, <1>2, <1>3, <1>4 DEF Predicate

LEMMA TranslationsArePredicates ==
    ASSUME NEW c \in Condition, query.action \in Action PROVE Translate(c) \subseteq Predicate
<1>1. c.op \in Op  BY DEF Condition
<1>2. OP_MAP[c.op] \in Lookup /\ {"exact", "icontains", "gte", "lte"} \subseteq Lookup
  BY <1>1, LookupsKnown
<1>3. \A negated \in BOOLEAN : Where(c, OP_MAP[c.op], negated) \subseteq Predicate
  BY <1>2, WhereIsPredicate
<1>4. ParseCondition(c) \subseteq Predicate
  <2>1. Nothing \subseteq Predicate  BY DEF Nothing, Predicate
  <2>2. (c.op = "neq" \/ (c.op = "not_in" /\ c.shape = "list")) \in BOOLEAN  OBVIOUS
  <2> QED  BY <1>3, <2>1, <2>2 DEF ParseCondition
<1>a. (c.op \in Negated) \in BOOLEAN  OBVIOUS
<1>b. Where(c, OP_MAP[c.op], c.op \in Negated) \subseteq Predicate  BY <1>3, <1>a
<1>5. /\ Where(c, OP_MAP[c.op], FALSE) \subseteq Predicate
      /\ Where(c, "exact", FALSE) \subseteq Predicate /\ Where(c, "icontains", FALSE) \subseteq Predicate
      /\ Where(c, "gte", FALSE) \subseteq Predicate /\ Where(c, "lte", FALSE) \subseteq Predicate
      /\ Raises(c) \subseteq Predicate /\ Everything \subseteq Predicate
  BY <1>2, WhereIsPredicate DEF Raises, Everything
<1>6. /\ ConditionToQ(c) \subseteq Predicate /\ LowStock(c) \subseteq Predicate
      /\ SupplierInfo(c) \subseteq Predicate /\ SupplierPerformance(c) \subseteq Predicate
      /\ ForecastDemand(c) \subseteq Predicate
  BY <1>b, <1>5 DEF ConditionToQ, LowStock, SupplierInfo, SupplierPerformance, ForecastDemand
<1>7. CASE query.action \in {"get_inventory", "get_sales_report"}
  <2>1. Translate(c) = ParseCondition(c)  BY <1>7 DEF Translate
  <2> QED  BY <1>4, <2>1
<1>8. CASE query.action = "get_total_value"
  <2>1. Translate(c) = ParseCondition(c) \/ Translate(c) = ConditionToQ(c)  BY <1>8 DEF Translate
  <2> QED  BY <1>4, <1>6, <2>1
<1>9. CASE query.action = "get_top_products"
  <2>1. Translate(c) = Everything \/ Translate(c) = ConditionToQ(c)  BY <1>9 DEF Translate
  <2> QED  BY <1>5, <1>6, <2>1
<1>10. CASE query.action = "get_supplier_info"
  <2>1. Translate(c) = SupplierInfo(c)  BY <1>10 DEF Translate
  <2> QED  BY <1>6, <2>1
<1>11. CASE query.action = "get_supplier_performance"
  <2>1. Translate(c) = SupplierPerformance(c)  BY <1>11 DEF Translate
  <2> QED  BY <1>6, <2>1
<1>12. CASE query.action = "get_low_stock"
  <2>1. Translate(c) = LowStock(c) \/ Translate(c) = Raises(c)  BY <1>12 DEF Translate
  <2> QED  BY <1>5, <1>6, <2>1
<1>13. CASE query.action = "forecast_demand"
  <2>1. Translate(c) = ForecastDemand(c) \/ Translate(c) = Raises(c)  BY <1>13 DEF Translate
  <2> QED  BY <1>5, <1>6, <2>1
<1> QED  BY <1>7, <1>8, <1>9, <1>10, <1>11, <1>12, <1>13 DEF Action

LEMMA FilterTypeStep ==
    ASSUME FilterInv, FilterType, [FilterNext]_filterVars PROVE FilterType'
<1>a. query \in QueryState  BY DEF FilterInv
<1>b. IsFiniteSet(query.conditions)  BY DEF FilterType
<1>d. Cardinality(query.conditions) \in Nat  BY <1>b, FS_CardinalityType
<1>e. Cardinality(query.conditions) <= MaxConditions  BY DEF FilterType, FilterTypeOK
<1>f. filter \subseteq Predicate  BY DEF FilterType, FilterTypeOK
<1>c. MaxConditions \in Nat \ {0}  BY FilterAssumption
<1>1. query' \in QueryState
  <2>1. FilterInv'  BY FilterStep
  <2> QED  BY <2>1 DEF FilterInv
<1>2. stage' \in {"asked", "parsed", "refused", "answered"}
  BY DEF FilterType, FilterTypeOK, FilterNext, AddCondition, ParseToolCall, ParseText,
         KeywordFallback, MatchCachedQuery, Handle, filterVars
<1>3. IsFiniteSet(query'.conditions) /\ Cardinality(query'.conditions) <= MaxConditions
  <2>1. CASE AddCondition
    <3>1. PICK c \in Condition : query' = [query EXCEPT !.conditions = @ \cup {c}]
      BY <2>1 DEF AddCondition
    <3>2. query'.conditions = query.conditions \cup {c}  BY <1>a, <3>1 DEF QueryState
    <3>3. Cardinality(query.conditions) < MaxConditions  BY <2>1 DEF AddCondition
    <3>4. \/ Cardinality(query'.conditions) = Cardinality(query.conditions)
          \/ Cardinality(query'.conditions) = Cardinality(query.conditions) + 1
      BY <1>b, <3>2, FS_AddElement
    <3>5. Cardinality(query'.conditions) <= MaxConditions  BY <1>c, <1>d, <3>3, <3>4
    <3>6. IsFiniteSet(query'.conditions)  BY <1>b, <3>2, FS_AddElement
    <3> QED  BY <3>5, <3>6
  <2>2. CASE query'.conditions = query.conditions  BY <1>b, <1>e, <2>2
  <2>3. CASE query'.conditions = {}
    BY <1>c, <2>3, FS_EmptySet
  <2>4. CASE \E c : query'.conditions = {c}
    <3>1. PICK c : query'.conditions = {c}  BY <2>4
    <3>2. IsFiniteSet({c}) /\ Cardinality({c}) = 1  BY FS_Singleton
    <3> QED  BY <1>c, <3>1, <3>2
  <2>5. CASE KeywordFallback
    <3>1. query' = query \/ query'.conditions = {}
      BY <1>a, <2>5 DEF KeywordFallback, QueryState
    <3> QED  BY <2>2, <2>3, <3>1
  <2>6. CASE MatchCachedQuery
    <3>1. query'.conditions = {} \/ \E c : query'.conditions = {c}
      BY <1>a, <2>6 DEF MatchCachedQuery, QueryState
    <3> QED  BY <2>3, <2>4, <3>1
  <2>7. CASE ParseToolCall \/ ParseText \/ Handle \/ UNCHANGED filterVars
    BY <2>2, <2>7 DEF ParseToolCall, ParseText, Handle, filterVars
  <2> QED  BY <2>1, <2>5, <2>6, <2>7 DEF FilterNext
<1>4. filter' \subseteq Predicate
  <2>1. CASE Handle
    <3>1. filter' = filter
          \/ \E used \in Used : filter' = (UNION {Translate(c) : c \in used}) \cup OwnRules
      BY <2>1 DEF Handle
    <3>2. ASSUME NEW used \in Used PROVE used \subseteq Condition
      BY <1>a DEF Used, QueryState
    <3>3. \A c \in Condition : Translate(c) \subseteq Predicate
      BY <1>a, TranslationsArePredicates DEF QueryState
    <3>4. OwnRules \subseteq Predicate
      <4> DEFINE below == [field |-> "quantity_on_hand", lookup |-> "below", value |-> {}, negated |-> FALSE]
                 on == [field |-> "is_active", lookup |-> "exact", value |-> {1}, negated |-> FALSE]
      <4>1. below \in Predicate  BY QuantityIsField DEF Predicate
      <4>2. on \in Predicate  BY ActiveIsField, LookupsKnown DEF Predicate
      <4>3. DefaultThreshold \in {{below}, {}} /\ ActiveOnly \in {{on}, {}}
        BY DEF DefaultThreshold, ActiveOnly
      <4> HIDE DEF below, on
      <4> QED  BY <4>1, <4>2, <4>3 DEF OwnRules
    <3>5. ASSUME NEW used \in Used, filter' = (UNION {Translate(c) : c \in used}) \cup OwnRules
          PROVE  filter' \subseteq Predicate
      <4>1. ASSUME NEW p \in filter' PROVE p \in Predicate
        <5>1. p \in OwnRules \/ \E c \in used : p \in Translate(c)  BY <3>5, <4>1
        <5> QED  BY <3>2, <3>3, <3>4, <5>1
      <4> QED  BY <4>1
    <3> QED  BY <1>f, <3>1, <3>5
  <2>2. CASE UNCHANGED filter  BY <1>f, <2>2
  <2> QED
    BY <2>1, <2>2 DEF FilterNext, AddCondition, ParseToolCall, ParseText, KeywordFallback,
                      MatchCachedQuery, filterVars
<1> QED  BY <1>1, <1>2, <1>3, <1>4 DEF FilterType, FilterTypeOK, QueryState

LEMMA FilterInitType == FilterInit => FilterType
<1> SUFFICES ASSUME FilterInit PROVE FilterType  OBVIOUS
<1>1. query.conditions = {}  BY DEF FilterInit
<1>2. IsFiniteSet({}) /\ Cardinality({}) = 0  BY FS_EmptySet
<1> QED  BY <1>1, <1>2, FilterAssumption DEF FilterInit, FilterType, FilterTypeOK

-----------------------------------------------------------------------------
(* All parts.                                                              *)

\* A step of the platform is a step of every part, mostly one that leaves it alone.
PartsStep ==
    /\ [MailNext]_mailVars /\ [CacheNext]_cacheVars /\ [RunNext]_runVars
    /\ [AlertNext]_alertVars /\ [ForecastNext]_forecastVars /\ [BreakerNext]_breakerVars
    /\ [AccountNext]_accountVars /\ [BrowserNext]_browserVars /\ [ChatNext]_chatVars
    /\ [QuestionNext]_questionVars /\ [FilterNext]_filterVars /\ [CatalogNext]_catalogVars
    /\ [DocumentNext]_documentVars /\ [DecisionNext]_decisionVars

LEMMA EveryPartSteps == [PlatformNext]_platformVars => UNCHANGED part /\ PartsStep
<1> SUFFICES ASSUME [PlatformNext]_platformVars PROVE UNCHANGED part /\ PartsStep  OBVIOUS
<1>1. CASE UNCHANGED platformVars  BY <1>1 DEF platformVars, PartsStep
<1>2. CASE MailMoves  BY <1>2 DEF MailMoves, OthersStand, PartsStep
<1>3. CASE CacheMoves  BY <1>3 DEF CacheMoves, OthersStand, PartsStep
<1>4. CASE RunMoves  BY <1>4 DEF RunMoves, OthersStand, PartsStep
<1>5. CASE AlertMoves  BY <1>5 DEF AlertMoves, OthersStand, PartsStep
<1>6. CASE ForecastMoves  BY <1>6 DEF ForecastMoves, OthersStand, PartsStep
<1>7. CASE BreakerMoves  BY <1>7 DEF BreakerMoves, OthersStand, PartsStep
<1>8. CASE AccountMoves  BY <1>8 DEF AccountMoves, OthersStand, PartsStep
<1>9. CASE BrowserMoves  BY <1>9 DEF BrowserMoves, OthersStand, PartsStep
<1>10. CASE ChatMoves  BY <1>10 DEF ChatMoves, OthersStand, PartsStep
<1>11. CASE QuestionMoves  BY <1>11 DEF QuestionMoves, OthersStand, PartsStep
<1>12. CASE FilterMoves  BY <1>12 DEF FilterMoves, OthersStand, PartsStep
<1>13. CASE CatalogMoves  BY <1>13 DEF CatalogMoves, OthersStand, PartsStep
<1>14. CASE DocumentMoves  BY <1>14 DEF DocumentMoves, OthersStand, PartsStep
<1>15. CASE DecisionMoves  BY <1>15 DEF DecisionMoves, OthersStand, PartsStep
<1> QED
  BY <1>1, <1>2, <1>3, <1>4, <1>5, <1>6, <1>7, <1>8, <1>9, <1>10, <1>11, <1>12, <1>13, <1>14, <1>15
  DEF PlatformNext

\* The invariants of the parts, one beside the other.
PlatformInv ==
    /\ part \in Moving
    /\ MailInv /\ CachesInv /\ CacheTypeOK /\ AlertInv /\ ForecastInv
    /\ RowsInv /\ BreakerInv /\ BrowserTypeOK /\ QuestionTypeOK
    /\ AccInv /\ AccountTypeOK /\ HasLink /\ CatInv /\ ChildrenHaveSkus /\ DocumentInv
    /\ DecisionInv /\ ConversationInv /\ FilterInv /\ FilterType

LEMMA PlatformInitInv == PlatformInit => PlatformInv
BY MailInitInv, CacheInitInv, CacheInitType, AlertInitInv, ForecastInitInv, RunInitInv,
   BreakerInitInv, BrowserInitInv, QuestionInitType, AccountInitInv, AccountInitType,
   CatalogInitInv, CatalogInitType, DocumentInitInv, DecisionInitInv, ChatInitInv,
   FilterInitInv, FilterInitType
DEF PlatformInit, PlatformInv

LEMMA PlatformStep == PlatformInv /\ [PlatformNext]_platformVars => PlatformInv'
<1> SUFFICES ASSUME PlatformInv, [PlatformNext]_platformVars PROVE PlatformInv'  OBVIOUS
<1>1. PartsStep /\ part' = part  BY EveryPartSteps
<1>2. MailInv' /\ CachesInv' /\ CacheTypeOK' /\ AlertInv' /\ ForecastInv'
  BY <1>1, MailStep, CacheStep, CacheTypeStep, AlertStep, ForecastStep DEF PartsStep, PlatformInv
<1>3. RowsInv' /\ BreakerInv' /\ BrowserTypeOK' /\ QuestionTypeOK'
  BY <1>1, RunStep, BreakerStep, BrowserStep, QuestionStep DEF PartsStep, PlatformInv
<1>4. AccInv' /\ AccountTypeOK' /\ HasLink' /\ CatInv' /\ ChildrenHaveSkus' /\ DocumentInv'
  BY <1>1, AccountStep, AccountTypeStep, CatalogStep, CatalogTypeStep, DocumentStep
  DEF PartsStep, PlatformInv
<1>5. DecisionInv' /\ ConversationInv' /\ FilterInv' /\ FilterType'
  BY <1>1, DecisionStep, ChatStep, FilterStep, FilterTypeStep DEF PartsStep, PlatformInv
<1>6. (part \in Moving)'  BY <1>1 DEF PlatformInv
<1> QED  BY <1>2, <1>3, <1>4, <1>5, <1>6 DEF PlatformInv

LEMMA PlatformIsInvariant == PlatformSpec => []PlatformInv
BY PlatformInitInv, PlatformStep, PTL DEF PlatformSpec

\* The variables of all fourteen parts keep their types, for all values of the constants.
THEOREM PlatformTypeCorrect == PlatformSpec => []PlatformTypeOK
<1>1. PlatformInv => PlatformTypeOK
  <2> SUFFICES ASSUME PlatformInv PROVE PlatformTypeOK  OBVIOUS
  <2>1. MailTypeOK /\ CacheTypeOK /\ RunTypeOK /\ AlertTypeOK /\ ForecastTypeOK /\ BreakerTypeOK
    BY DEF PlatformInv, MailInv, RowsInv, AlertInv, ForecastInv, BreakerInv
  <2>2. CatalogTypeOK  BY CatalogTypes DEF PlatformInv
  <2>3. AccountTypeOK /\ BrowserTypeOK /\ ChatTypeOK /\ QuestionTypeOK /\ FilterTypeOK
        /\ DocumentTypeOK /\ DecisionTypeOK
    BY DEF PlatformInv, ConversationInv, FilterType, DocumentInv, DecisionInv
  <2> QED  BY <2>1, <2>2, <2>3 DEF PlatformTypeOK, PlatformInv
<1> QED  BY <1>1, PlatformIsInvariant, PTL

\* What each part promises holds of the platform as the run checks it, whichever parts move.
THEOREM PartsKeepTheirPromises ==
    PlatformSpec => [](/\ EscalationInv /\ CacheInv /\ OneFiringPerCooldown /\ NewestForecastStands
                       /\ AccountInv /\ ChatInv /\ AnsweredIsFiltered /\ CatalogInv
                       /\ DeletedIsNotFound /\ FlagIsAboutItsTarget)
<1>1. PlatformInv => /\ EscalationInv /\ CacheInv /\ OneFiringPerCooldown /\ NewestForecastStands
                     /\ AccountInv /\ ChatInv /\ AnsweredIsFiltered /\ CatalogInv
                     /\ DeletedIsNotFound /\ FlagIsAboutItsTarget
  <2> SUFFICES ASSUME PlatformInv
               PROVE  /\ EscalationInv /\ CacheInv /\ OneFiringPerCooldown /\ NewestForecastStands
                      /\ AccountInv /\ ChatInv /\ AnsweredIsFiltered /\ CatalogInv
                      /\ DeletedIsNotFound /\ FlagIsAboutItsTarget
    OBVIOUS
  <2>1. EscalationInv /\ CacheInv /\ OneFiringPerCooldown /\ NewestForecastStands
    BY MailInvSuffices, AlertInvSuffices DEF PlatformInv, CachesInv, CacheInv, ForecastInv
  <2>2. AccountInv /\ CatalogInv /\ DeletedIsNotFound
    BY AccInvSuffices, CatInvSuffices DEF PlatformInv, DocumentInv
  <2>3. ChatInv /\ AnsweredIsFiltered /\ FlagIsAboutItsTarget
    BY ConversationInvSuffices, FilterInvSuffices, DecisionInvSuffices DEF PlatformInv
  <2> QED  BY <2>1, <2>2, <2>3
<1> QED  BY <1>1, PlatformIsInvariant, PTL

=============================================================================
