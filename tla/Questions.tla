------------------------------ MODULE Questions ------------------------------
(***************************************************************************)
(* A question to the assistant, from the request to its answer.  Three     *)
(* endpoints run one of two engines in a thread and wait for it with a     *)
(* timeout.  /chat hands the work to a pool that all requests share, and   *)
(* on a timeout cancels what has not started; /rag and /query have a       *)
(* thread of their own in a `with ThreadPoolExecutor` block, which waits   *)
(* for that thread on the way out, timeout or not.  The engines retry      *)
(* their external calls a fixed number of times and fall back.             *)
(***************************************************************************)
EXTENDS Naturals, FiniteSets

CONSTANTS
    Question,      \* questions asked
    PoolSize,      \* workers of _chat_executor: 4 in the code
    MaxTries       \* tries of the reranker and of the query chain: 3 in the code

ASSUME QuestionAssumption ==
    /\ PoolSize \in Nat \ {0} /\ MaxTries \in Nat \ {0}
    /\ IsFiniteSet(Question)

VARIABLES
    endpoint, \* [Question -> the endpoint that was asked]
    work,   \* [Question -> the engine's thread: program counter, tries, result]
    asker,  \* [Question -> the request's thread]
    reply,  \* [Question -> what the user was answered]
    kept,   \* questions whose answer was saved or audited
    hung    \* questions whose thread waits for an external call that never returns

questionVars == <<endpoint, work, asker, reply, kept, hung>>

RagStep == {"search", "rerank", "generate"}
QueryStep == {"filter", "chain", "dispatch", "format"}
Running == RagStep \cup QueryStep
Result == {"none", "answer", "apology", "blocked", "quota", "error"}
Reply == {"none", "200", "400", "429", "500", "504"}

QuestionTypeOK ==
    /\ work \in [Question -> [pc: {"new", "queued", "cancelled", "ended"} \cup Running,
                              tries: 0..MaxTries, result: Result]]
    /\ endpoint \in [Question -> {"none", "chat", "rag", "query"}]
    /\ asker \in [Question -> {"new", "classifying", "waiting", "late", "leaving", "answered"}]
    /\ reply \in [Question -> Reply]
    /\ kept \subseteq Question /\ hung \subseteq Question

NotAsked == [pc |-> "new", tries |-> 0, result |-> "none"]

QuestionInit ==
    /\ endpoint = [q \in Question |-> "none"]
    /\ work = [q \in Question |-> NotAsked]
    /\ asker = [q \in Question |-> "new"]
    /\ reply = [q \in Question |-> "none"]
    /\ kept = {} /\ hung = {}

-----------------------------------------------------------------------------
WorkAt(q, pc) == work[q].pc = pc /\ q \notin hung
GotoWork(q, pc) == work' = [work EXCEPT ![q].pc = pc]
End(q, result) == work' = [work EXCEPT ![q].pc = "ended", ![q].result = result]
FirstStep(e) == CASE e = "rag" -> "search" [] e = "query" -> "filter" [] e = "chat" -> "queued"
RequestRest == <<endpoint, asker, reply, kept, hung>>

\* post(): an invalid or suspicious text is refused; otherwise the engine is submitted, to
\* the shared pool or to a thread of its own.  In mode 'auto', /chat first asks a model which
\* engine, on the thread of the request, unless the keywords tell.
Submit(q) ==
    /\ asker[q] = "new"
    /\ \/ /\ asker' = [asker EXCEPT ![q] = "answered"]
          /\ reply' = [reply EXCEPT ![q] = "400"]
          /\ UNCHANGED <<work, endpoint>>
       \/ /\ asker' = [asker EXCEPT ![q] = "classifying"]
          /\ endpoint' = [endpoint EXCEPT ![q] = "chat"]
          /\ UNCHANGED <<work, reply>>
       \/ /\ asker' = [asker EXCEPT ![q] = "waiting"]
          /\ \E e \in {"chat", "rag", "query"} :
                endpoint' = [endpoint EXCEPT ![q] = e] /\ GotoWork(q, FirstStep(e))
          /\ UNCHANGED reply
    /\ UNCHANGED <<kept, hung>>

\* The classification returns or fails, which means nl_query.  It has no timeout.
Classified(q) ==
    /\ asker[q] = "classifying"
    /\ asker' = [asker EXCEPT ![q] = "waiting"]
    /\ GotoWork(q, "queued")
    /\ UNCHANGED <<endpoint, reply, kept, hung>>

\* A worker of the pool takes the question; mode and classifier have named the engine.
Start(q) ==
    /\ WorkAt(q, "queued")
    /\ Cardinality({p \in Question : endpoint[p] = "chat" /\ work[p].pc \in Running}) < PoolSize
    /\ GotoWork(q, "search") \/ GotoWork(q, "filter")
    /\ UNCHANGED RequestRest

\* hybrid_search, which embeds the question.
Search(q) ==
    /\ WorkAt(q, "search")
    /\ GotoWork(q, "rerank") \/ End(q, "error")
    /\ UNCHANGED RequestRest

\* rerank: no chunks and no key need no call, and a missing key falls back to the vector
\* scores.  A failed call is tried again; the LAST error decides: a rate limit falls back,
\* anything else ends the question.
Rerank(q) ==
    /\ WorkAt(q, "rerank")
    /\ \/ GotoWork(q, "generate")
       \/ work[q].tries < MaxTries - 1 /\ work' = [work EXCEPT ![q].tries = @ + 1]
       \/ work[q].tries = MaxTries - 1 /\ End(q, "error")
    /\ UNCHANGED RequestRest

\* No relevant chunk is an answer too.  _run_pipeline of /rag audits it, whether or not
\* anybody still waits.
Generate(q) ==
    /\ WorkAt(q, "generate")
    /\ \/ /\ End(q, "answer")
          /\ kept' \in IF endpoint[q] = "rag" THEN {kept, kept \cup {q}} ELSE {kept}
       \/ End(q, "error") /\ UNCHANGED kept
    /\ UNCHANGED <<endpoint, asker, reply, hung>>

\* The second injection check, and the pattern cache of /query, which spares the chain.
Filter(q) ==
    /\ WorkAt(q, "filter")
    /\ \/ End(q, "blocked")
       \/ GotoWork(q, "chain")
       \/ endpoint[q] = "query" /\ GotoWork(q, "dispatch")
    /\ UNCHANGED RequestRest

\* NLQueryChain.run: an answer that cannot be parsed asks for help and a permanent error
\* falls back to keywords, both at once; a transient error is tried again, and the last
\* one falls back too.  Only the construction of the chain can fail, for want of quota
\* or otherwise.
Chain(q) ==
    /\ WorkAt(q, "chain")
    /\ \/ work' = [work EXCEPT ![q].pc = "dispatch", ![q].tries = 0]
       \/ work[q].tries < MaxTries - 1 /\ work' = [work EXCEPT ![q].tries = @ + 1]
       \/ work[q].tries = 0 /\ \E r \in {"quota", "error"} :
             End(q, IF endpoint[q] = "query" /\ r = "error" THEN "blocked"
                    ELSE IF endpoint[q] = "chat" THEN "error" ELSE r)
    /\ UNCHANGED RequestRest

\* The handler of the action.  /chat has none for help and supplier performance.
Dispatch(q) ==
    /\ WorkAt(q, "dispatch")
    /\ GotoWork(q, "format") \/ End(q, "error")
    /\ UNCHANGED RequestRest

\* call_gpt4o_formatter falls back to the raw records except for want of quota: then /chat
\* apologises and /query fails.  /query audits what it answered.
Format(q) ==
    /\ WorkAt(q, "format")
    /\ \/ /\ End(q, "answer")
          /\ kept' = IF endpoint[q] = "query" THEN kept \cup {q} ELSE kept
       \/ /\ End(q, IF endpoint[q] = "chat" THEN "apology" ELSE "error")
          /\ UNCHANGED kept
    /\ UNCHANGED <<endpoint, asker, reply, hung>>

\* An external call of the engine that never returns.
Hang(q) ==
    /\ work[q].pc \in Running /\ q \notin hung
    /\ hung' = hung \cup {q}
    /\ UNCHANGED <<endpoint, work, asker, reply, kept>>

-----------------------------------------------------------------------------
StatusOf(result) == CASE result \in {"answer", "apology"} -> "200" [] result = "blocked" -> "400"
                      [] result = "quota" -> "429" [] OTHER -> "500"

\* future.result() returns or raises.  /chat then saves the two messages of a
\* conversation and has the answer audited by another pool, failures swallowed.
Answer(q) ==
    /\ asker[q] = "waiting" /\ work[q].pc = "ended"
    /\ asker' = [asker EXCEPT ![q] = "answered"]
    /\ reply' = [reply EXCEPT ![q] = StatusOf(work[q].result)]
    /\ kept' = IF endpoint[q] = "chat" /\ StatusOf(work[q].result) = "200"
               THEN kept \cup {q} ELSE kept
    /\ UNCHANGED <<endpoint, work, hung>>

\* future.result() times out ...
TimeOut(q) ==
    /\ asker[q] = "waiting" /\ work[q].pc # "ended"
    /\ asker' = [asker EXCEPT ![q] = IF endpoint[q] = "chat" THEN "late" ELSE "leaving"]
    /\ UNCHANGED <<endpoint, work, reply, kept, hung>>

\* Faulty: the question keeps its place in the queue of the pool.
AnswerLate(q) ==
    /\ asker[q] = "late"
    /\ asker' = [asker EXCEPT ![q] = "answered"]
    /\ reply' = [reply EXCEPT ![q] = "504"]
    /\ UNCHANGED <<endpoint, work, kept, hung>>

\* ... and /chat cancels: what no worker has taken is dropped, what runs runs on ...
Cancel(q) ==
    /\ asker[q] = "late"
    /\ asker' = [asker EXCEPT ![q] = "answered"]
    /\ reply' = [reply EXCEPT ![q] = "504"]
    /\ \/ work[q].pc = "queued" /\ GotoWork(q, "cancelled")
       \/ work[q].pc # "queued" /\ UNCHANGED work
    /\ UNCHANGED <<endpoint, kept, hung>>

\* ... and /rag and /query leave their block when the thread has ended.
Leave(q) ==
    /\ asker[q] = "leaving" /\ work[q].pc = "ended"
    /\ asker' = [asker EXCEPT ![q] = "answered"]
    /\ reply' = [reply EXCEPT ![q] = "504"]
    /\ UNCHANGED <<endpoint, work, kept, hung>>

EngineStep(q) ==
    Start(q) \/ Search(q) \/ Rerank(q) \/ Generate(q) \/ Filter(q) \/ Chain(q) \/ Dispatch(q)
             \/ Format(q)
AskerStep(q) == Answer(q) \/ TimeOut(q) \/ Cancel(q) \/ Leave(q)

QuestionNext == \E q \in Question : Submit(q) \/ Classified(q) \/ EngineStep(q) \/ Hang(q) \/ AskerStep(q)

\* Threads run and clocks tick; nothing forces a question, the end of its
\* classification, a hang or a worker of the pool.
QuestionFairness ==
    \A q \in Question :
        /\ WF_questionVars(EngineStep(q) /\ work[q].pc # "queued")
        /\ WF_questionVars(AskerStep(q))

QuestionSpec == QuestionInit /\ [][QuestionNext]_questionVars /\ QuestionFairness

-----------------------------------------------------------------------------
\* A question that is waited for is answered and does not stay in the queue of the pool:
\* /chat answers even when every worker hangs, and gives the place of a question it gave
\* up to one that somebody waits for; /rag and /query are held up only by their own thread.
EveryQuestionIsAnswered ==
    \A q \in Question : asker[q] = "waiting" ~>
        \/ asker[q] = "answered" /\ work[q].pc # "queued"
        \/ endpoint[q] # "chat" /\ q \in hung
=============================================================================
