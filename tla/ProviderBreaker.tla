-------------------------- MODULE ProviderBreaker ---------------------------
(***************************************************************************)
(* LLMProviderManager and the client it builds: calls try the providers of *)
(* their pool in turn and record how each went.  Three failures in a row   *)
(* open a provider's circuit for a minute.  A record is written under the  *)
(* provider's lock; is_available and reset_circuit_breaker write the same  *)
(* fields without it.                                                      *)
(***************************************************************************)
EXTENDS Integers, Sequences, FiniteSets

CONSTANTS
    PROVIDER_PRIORITY, \* sequence of provider names
    Caller,            \* threads that call a model
    FAILURE_THRESHOLD, \* 3 in the code
    MaxCalls           \* calls: bounds the model

Provider == {PROVIDER_PRIORITY[i] : i \in DOMAIN PROVIDER_PRIORITY}
None == "none"

ASSUME BreakerAssumption ==
    /\ PROVIDER_PRIORITY \in Seq(Provider)
    /\ FAILURE_THRESHOLD \in Nat \ {0} /\ MaxCalls \in Nat

VARIABLES
    health,  \* [Provider -> status, consecutive_failures, circuit_open_until]
    lock,    \* [Provider -> the caller that holds it, or None]
    caller,  \* [Caller -> step, ranks of those left in its pool, how the call on the first went]
    asking,  \* [Provider -> is_available has seen the deadline pass and will write DEGRADED]
    reset,   \* [Provider -> next write of reset_circuit_breaker, or None]
    jammed,  \* providers whose reset fell into the record of a failure (history)
    calls

breakerVars == <<health, lock, caller, asking, reset, jammed, calls>>

BreakerTypeOK ==
    /\ health \in [Provider -> [status: {"healthy", "degraded", "circuit_open"},
                                failures: Nat,
                                until: {None, "ahead", "passed"}]]
    /\ lock \in [Provider -> Caller \cup {None}]
    /\ caller \in [Caller -> [pc: {"idle", "call", "record", "recording"},
                              pool: SUBSET DOMAIN PROVIDER_PRIORITY,
                              went: {"well", "transient", "broken"}]]
    /\ asking \in [Provider -> BOOLEAN]
    /\ reset \in [Provider -> {None, "status", "until"}]
    /\ jammed \subseteq Provider /\ calls \in 0..MaxCalls

NoCall == [pc |-> "idle", pool |-> {}, went |-> "well"]

BreakerInit ==
    /\ health = [p \in Provider |-> [status |-> "healthy", failures |-> 0, until |-> None]]
    /\ lock = [p \in Provider |-> None]
    /\ caller = [c \in Caller |-> NoCall]
    /\ asking = [p \in Provider |-> FALSE] /\ reset = [p \in Provider |-> None]
    /\ jammed = {} /\ calls = 0

Open(p) == health[p].status = "circuit_open"
Front(c) == CHOOSE i \in caller[c].pool : \A j \in caller[c].pool : i <= j
HeadOf(c) == PROVIDER_PRIORITY[Front(c)]

\* get_llm: the providers that are available now are the pool of the client for good.
GetLLM(c) ==
    /\ caller[c].pc = "idle" /\ calls < MaxCalls
    /\ LET pool == {i \in DOMAIN PROVIDER_PRIORITY : ~Open(PROVIDER_PRIORITY[i])} IN
        /\ pool # {}   \* RuntimeError: no providers available
        /\ caller' = [caller EXCEPT ![c] = [NoCall EXCEPT !.pc = "call", !.pool = pool]]
    /\ calls' = calls + 1
    /\ UNCHANGED <<health, lock, asking, reset, jammed>>

\* _generate or _stream on the next provider; the latter starts over if the former one had
\* already streamed a part.
Call(c) ==
    /\ caller[c].pc = "call"
    /\ \E w \in {"well", "transient", "broken"} :
        caller' = [caller EXCEPT ![c].pc = "record", ![c].went = w]
    /\ UNCHANGED <<health, lock, asking, reset, jammed, calls>>

\* record_success and record_failure, first half: count and status ...
Record(c) ==
    /\ caller[c].pc = "record" /\ lock[HeadOf(c)] = None
    /\ LET p == HeadOf(c)
           n == IF caller[c].went = "well" THEN 0 ELSE health[p].failures + 1 IN
        /\ lock' = [lock EXCEPT ![p] = c]
        /\ health' = [health EXCEPT ![p].failures = n,
             ![p].status = IF n = 0 THEN "healthy"
                           ELSE IF n >= FAILURE_THRESHOLD THEN "circuit_open" ELSE "degraded"]
        /\ jammed' = IF reset[p] = None THEN jammed ELSE jammed \cup {p}
    /\ caller' = [caller EXCEPT ![c].pc = "recording"]
    /\ UNCHANGED <<asking, reset, calls>>

\* ... second half: the deadline.  Only a transient failure goes on to the next provider.
Recorded(c) ==
    /\ caller[c].pc = "recording"
    /\ LET p == HeadOf(c)
           rest == caller[c].pool \ {Front(c)} IN
        /\ lock' = [lock EXCEPT ![p] = None]
        /\ health' = [health EXCEPT ![p].until =
             IF caller[c].went = "well" THEN None
             ELSE IF health[p].failures >= FAILURE_THRESHOLD THEN "ahead" ELSE @]
        /\ caller' = [caller EXCEPT ![c] =
             IF caller[c].went = "transient" /\ rest # {}
             THEN [NoCall EXCEPT !.pc = "call", !.pool = rest] ELSE NoCall]
    /\ UNCHANGED <<asking, reset, jammed, calls>>

\* CIRCUIT_TIMEOUT has passed.
Timeout(p) ==
    /\ health[p].until = "ahead"
    /\ health' = [health EXCEPT ![p].until = "passed"]
    /\ UNCHANGED <<lock, caller, asking, reset, jammed, calls>>

\* is_available, asked by get_llm and by the health report, reads status and deadline ...
AskAvailable(p) ==
    /\ Open(p) /\ health[p].until = "passed" /\ ~asking[p]
    /\ asking' = [asking EXCEPT ![p] = TRUE]
    /\ UNCHANGED <<health, lock, caller, reset, jammed, calls>>

\* ... and half-opens the circuit, even if a failure has opened it anew meanwhile.
HalfOpen(p) ==
    /\ asking[p]
    /\ asking' = [asking EXCEPT ![p] = FALSE]
    /\ health' = [health EXCEPT ![p].status = "degraded"]
    /\ UNCHANGED <<lock, caller, reset, jammed, calls>>

\* Faulty: the status is left as it is.
ResetWithoutStatus(p) ==
    /\ reset[p] = None
    /\ health' = [health EXCEPT ![p].failures = 0]
    /\ reset' = [reset EXCEPT ![p] = "until"]
    /\ jammed' = IF lock[p] = None THEN jammed ELSE jammed \cup {p}
    /\ UNCHANGED <<lock, caller, asking, calls>>

\* reset_circuit_breaker writes count, status and deadline, one after the other.
ResetCount(p) ==
    /\ reset[p] = None
    /\ health' = [health EXCEPT ![p].failures = 0]
    /\ reset' = [reset EXCEPT ![p] = "status"]
    /\ jammed' = IF lock[p] = None THEN jammed ELSE jammed \cup {p}
    /\ UNCHANGED <<lock, caller, asking, calls>>

ResetStatus(p) ==
    /\ reset[p] = "status"
    /\ health' = [health EXCEPT ![p].status = "healthy"]
    /\ reset' = [reset EXCEPT ![p] = "until"]
    /\ UNCHANGED <<lock, caller, asking, jammed, calls>>

ResetDeadline(p) ==
    /\ reset[p] = "until"
    /\ health' = [health EXCEPT ![p].until = None]
    /\ reset' = [reset EXCEPT ![p] = None]
    /\ UNCHANGED <<lock, caller, asking, jammed, calls>>

ReportStep(p) == AskAvailable(p) \/ HalfOpen(p)

BreakerNext ==
    \/ \E c \in Caller : GetLLM(c) \/ Call(c) \/ Record(c) \/ Recorded(c)
    \/ \E p \in Provider :
        Timeout(p) \/ ReportStep(p) \/ ResetCount(p) \/ ResetStatus(p) \/ ResetDeadline(p)

\* Records are finished, the minute passes, and the health report is polled.
BreakerFairness ==
    /\ \A c \in Caller : WF_breakerVars(Recorded(c))
    /\ \A p \in Provider :
        WF_breakerVars(Timeout(p)) /\ WF_breakerVars(ReportStep(p))

BreakerSpec == BreakerInit /\ [][BreakerNext]_breakerVars /\ BreakerFairness

-----------------------------------------------------------------------------
\* An open circuit half-opens after a while, however calls and resets interleave; only a
\* reset that falls into the record of a failure can leave it open without a deadline.
CircuitsHalfOpen == \A p \in Provider : Open(p) ~> (~Open(p) \/ p \in jammed)
=============================================================================
