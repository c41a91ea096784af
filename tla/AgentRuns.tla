----------------------------- MODULE AgentRuns -----------------------------
(***************************************************************************)
(* The AgentRun rows behind the dashboard: every agent task opens one and  *)
(* closes it with its verdict; cleanup_stale_agent_runs fails those whose  *)
(* worker is thought dead, and archive_old_agent_runs deletes old ones.    *)
(* Nothing tells the three apart: the task reads its row and saves three   *)
(* columns, whatever has become of it meanwhile.                           *)
(***************************************************************************)
EXTENDS Integers, FiniteSets

CONSTANTS
    AgentWorker,  \* Celery workers that run agent tasks
    NumRuns,      \* ids of the AgentRun table: bounds the model
    MaxKills      \* killed workers: bounds the model

ASSUME RunAssumption == NumRuns \in Nat /\ MaxKills \in 0..NumRuns

RunId == 1..NumRuns
Verdict == {"completed", "failed"}

VARIABLES
    run,      \* [RunId -> row; status "absent" before and "archived" after its life]
    agent,    \* [AgentWorker -> step, its row, the verdict it will report]
    pending,  \* messages of agent tasks at the broker
    sweeping, \* cleanup has counted stale rows and is about to update them
    verdict,  \* [RunId -> what its own task last saved, or "none"] (history)
    kills

runVars == <<run, agent, pending, sweeping, verdict, kills>>

RunTypeOK ==
    /\ run \in [RunId -> [status: {"absent", "running", "archived"} \cup Verdict,
                          age: {"new", "stale", "old"}]]
    /\ agent \in [AgentWorker -> [pc: {"idle", "work", "close", "save"}, id: 0..NumRuns,
                                  says: Verdict]]
    /\ pending \in 0..NumRuns /\ sweeping \in BOOLEAN
    /\ verdict \in [RunId -> Verdict \cup {"none"}]
    /\ kills \in 0..MaxKills

NoAgent == [pc |-> "idle", id |-> 0, says |-> "failed"]

RunInit ==
    /\ run = [i \in RunId |-> [status |-> "absent", age |-> "new"]]
    /\ agent = [w \in AgentWorker |-> NoAgent]
    /\ pending = NumRuns - MaxKills
    /\ sweeping = FALSE /\ kills = 0
    /\ verdict = [i \in RunId |-> "none"]

NextRun(i) == run[i].status = "absent" /\ \A j \in RunId : run[j].status = "absent" => i <= j

\* create_agent_run: a row of its own for every execution, a repeated one included.
CreateAgentRun(w) ==
    /\ agent[w].pc = "idle" /\ pending > 0
    /\ \E i \in RunId :
        /\ NextRun(i)
        /\ run' = [run EXCEPT ![i].status = "running"]
        /\ agent' = [agent EXCEPT ![w] = [pc |-> "work", id |-> i, says |-> "failed"]]
    /\ pending' = pending - 1
    /\ UNCHANGED <<sweeping, verdict, kills>>

\* The body of the task.  The verdict is the one of the code around the work, not of the
\* work: run_forecast swallows what goes wrong with its SKU, and the run is "completed".
Work(w) ==
    /\ agent[w].pc = "work"
    /\ \E v \in Verdict : agent' = [agent EXCEPT ![w].pc = "close", ![w].says = v]
    /\ UNCHANGED <<run, pending, sweeping, verdict, kills>>

\* complete_agent_run gets the row, or warns that there is none ...
CloseReads(w) ==
    /\ agent[w].pc = "close"
    /\ agent' = [agent EXCEPT ![w] = IF run[agent[w].id].status # "archived"
                                     THEN [@ EXCEPT !.pc = "save"] ELSE NoAgent]
    /\ UNCHANGED <<run, pending, sweeping, verdict, kills>>

\* ... and saves status, completed_at and error_message over whatever is there.  A row that
\* was archived in between makes save raise, which ends the task.
CloseSaves(w) ==
    /\ agent[w].pc = "save"
    /\ LET i == agent[w].id IN
        IF run[i].status = "archived" THEN UNCHANGED <<run, verdict>>
        ELSE /\ run' = [run EXCEPT ![i].status = agent[w].says]
             /\ verdict' = [verdict EXCEPT ![i] = agent[w].says]
    /\ agent' = [agent EXCEPT ![w] = NoAgent]
    /\ UNCHANGED <<pending, sweeping, kills>>

\* The worker is killed.  Its task was not acknowledged: it is delivered again, for a new row.
KillAgent(w) ==
    /\ agent[w].pc # "idle" /\ kills < MaxKills
    /\ kills' = kills + 1 /\ pending' = pending + 1
    /\ agent' = [agent EXCEPT ![w] = NoAgent]
    /\ UNCHANGED <<run, sweeping, verdict>>

-----------------------------------------------------------------------------
\* An hour since started_at, then ninety days since created_at.
Grow(i) ==
    /\ run[i].status \notin {"absent", "archived"}
    /\ \/ run[i].age = "new" /\ run' = [run EXCEPT ![i].age = "stale"]
       \/ run[i].age = "stale" /\ run' = [run EXCEPT ![i].age = "old"]
    /\ UNCHANGED <<agent, pending, sweeping, verdict, kills>>

\* status=running and started_at before the cutoff.
StaleRuns == {i \in RunId : run[i].status = "running" /\ run[i].age # "new"}

\* cleanup_stale_agent_runs counts ...
CountStale ==
    /\ ~sweeping /\ StaleRuns # {}
    /\ sweeping' = TRUE
    /\ UNCHANGED <<run, agent, pending, verdict, kills>>

\* Faulty: the rows that were counted are failed, whatever they are by now.
FailAnyOld ==
    /\ sweeping /\ sweeping' = FALSE
    /\ run' = [i \in RunId |->
                 IF run[i].age = "stale" /\ run[i].status \in {"running", "completed"}
                 THEN [run[i] EXCEPT !.status = "failed"] ELSE run[i]]
    /\ UNCHANGED <<agent, pending, verdict, kills>>

\* ... and then updates in one statement, with the condition once more.
FailStale ==
    /\ sweeping /\ sweeping' = FALSE
    /\ run' = [i \in RunId |->
                 IF i \in StaleRuns THEN [run[i] EXCEPT !.status = "failed"] ELSE run[i]]
    /\ UNCHANGED <<agent, pending, verdict, kills>>

\* archive_old_agent_runs: one statement, whatever the status.
ArchiveOldRuns ==
    /\ \E i \in RunId : run[i].age = "old" /\ run[i].status # "archived"
    /\ run' = [i \in RunId |->
                 IF run[i].age = "old" THEN [run[i] EXCEPT !.status = "archived"] ELSE run[i]]
    /\ UNCHANGED <<agent, pending, sweeping, verdict, kills>>

Cleanup == CountStale \/ FailStale

RunNext ==
    \/ \E w \in AgentWorker :
        CreateAgentRun(w) \/ Work(w) \/ CloseReads(w) \/ CloseSaves(w) \/ KillAgent(w)
    \/ \E i \in RunId : Grow(i)
    \/ Cleanup \/ ArchiveOldRuns

\* The beat starts cleanup every five minutes, and time passes.  A task may work for ever.
RunFairness ==
    /\ WF_runVars(Cleanup)
    /\ \A i \in RunId : WF_runVars(Grow(i))

RunSpec == RunInit /\ [][RunNext]_runVars /\ RunFairness

-----------------------------------------------------------------------------
Closed(i) == run[i].status # "running" /\ (verdict[i] # "none" => run[i].status \in {verdict[i], "archived"})

\* "Runs are never left permanently 'running'", whatever became of the worker, and what a
\* task reported about its own run stands: cleanup may have given the run up before, or be
\* half-way through while it reports, and the row still ends with the task's verdict.
NoRunHangs == \A i \in RunId : run[i].status = "running" ~> []Closed(i)
=============================================================================
