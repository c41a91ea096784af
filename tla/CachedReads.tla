---------------------------- MODULE CachedReads ----------------------------
(***************************************************************************)
(* The read-through caches over the database: a request that misses reads  *)
(* the tables and stores what it read; a writer commits and then deletes   *)
(* the entry.  Nothing orders a slow reader's store after that deletion.   *)
(* One entry is chosen at the start; data is the number of the write it    *)
(* was read after.                                                         *)
(***************************************************************************)
EXTENDS Integers, FiniteSets

CONSTANTS
    Proc,       \* web processes: each has its own _product_cache_version
    Reader,     \* request threads
    ProcOf,     \* [Reader -> Proc]
    MaxWrites,  \* committed writes: bounds the model
    MaxOutages  \* lost deletions and failed computations: bounds the model

ASSUME CacheAssumption ==
    /\ MaxWrites \in Nat /\ MaxOutages \in Nat
    /\ ProcOf \in [Reader -> Proc]

\* unread_count_<user>, low_stock_items, product_list_v<n>_..., forecast_dashboard_data_v3
\* and forecast_sku_<sku>.
Entry == {"unread_count", "low_stock_items", "product_list", "forecast_dashboard", "forecast_sku"}

VARIABLES
    entry,      \* the cache entry of this behaviour
    committed,  \* number of the newest committed write
    finished,   \* the newest write whose writer committed and then deleted the entry
    bumps,      \* [Proc -> _product_cache_version]
    cached,     \* [Slot -> data, or NoData]
    reader,     \* [Reader -> step, slot, data, deleted meanwhile]
    writer,     \* [Proc -> step, its write]
    excused,    \* slots that hold what an overtaken or failed read stored, or a lost deletion left
    outages

cacheVars == <<entry, committed, finished, bumps, cached, reader, writer, excused, outages>>

NoData == 0
EMPTY == 1  \* {'skus': []}, which the dashboard stores after any exception
Slot == 0..MaxWrites
Data == 0..(MaxWrites + 2)

CacheTypeOK ==
    /\ entry \in Entry
    /\ committed \in 2..(MaxWrites + 2) /\ finished \in 2..committed
    /\ bumps \in [Proc -> Slot]
    /\ cached \in [Slot -> Data]
    /\ reader \in [Reader -> [pc: {"idle", "query", "store"}, slot: Slot, data: Data,
                              overtaken: BOOLEAN]]
    /\ writer \in [Proc -> [pc: {"idle", "delete", "commit"}, wrote: Data]]
    /\ excused \subseteq Slot
    /\ outages \in 0..MaxOutages

NoRead == [pc |-> "idle", slot |-> 0, data |-> NoData, overtaken |-> FALSE]
NoWriter == [pc |-> "idle", wrote |-> NoData]

CacheInit ==
    /\ entry \in Entry
    /\ committed = 2 /\ finished = 2 /\ outages = 0 /\ excused = {}
    /\ bumps = [p \in Proc |-> 0]
    /\ cached = [s \in Slot |-> NoData]
    /\ reader = [r \in Reader |-> NoRead]
    /\ writer = [p \in Proc |-> NoWriter]

\* The key a process uses now: only the product list has the version in its key.
SlotOf(p) == IF entry = "product_list" THEN bumps[p] ELSE 0

-----------------------------------------------------------------------------
\* A request builds the key and looks it up; a hit is answered and changes nothing.
Miss(r) ==
    /\ reader[r].pc = "idle" /\ cached[SlotOf(ProcOf[r])] = NoData
    /\ reader' = [reader EXCEPT ![r] = [pc |-> "query", slot |-> SlotOf(ProcOf[r]),
                                        data |-> EMPTY, overtaken |-> FALSE]]
    /\ UNCHANGED <<entry, committed, finished, bumps, cached, writer, excused, outages>>

\* The query behind the entry.
Query(r) ==
    /\ reader[r].pc = "query"
    /\ reader' = [reader EXCEPT ![r].pc = "store", ![r].data = committed, ![r].overtaken = FALSE]
    /\ UNCHANGED <<entry, committed, finished, bumps, cached, writer, excused, outages>>

\* _compute_dashboard answers an exception with no SKUs at all, and get_dashboard_data
\* stores that for the hour too.
QueryFails(r) ==
    /\ entry = "forecast_dashboard" /\ outages < MaxOutages
    /\ reader[r].pc = "query"
    /\ reader' = [reader EXCEPT ![r].pc = "store", ![r].overtaken = TRUE]
    /\ outages' = outages + 1
    /\ UNCHANGED <<entry, committed, finished, bumps, cached, writer, excused>>

\* cache.set under the key the request began with, whatever happened meanwhile.
Store(r) ==
    /\ reader[r].pc = "store"
    /\ LET s == reader[r].slot IN
        /\ cached' = [cached EXCEPT ![s] = reader[r].data]
        /\ excused' = IF reader[r].overtaken THEN excused \cup {s} ELSE excused \ {s}
    /\ reader' = [reader EXCEPT ![r] = NoRead]
    /\ UNCHANGED <<entry, committed, finished, bumps, writer, outages>>

\* Faulty: the forecasts of a SKU are stored without a timeout.
ExpireAllButForecasts(s) ==
    /\ entry # "forecast_sku" /\ cached[s] # NoData
    /\ cached' = [cached EXCEPT ![s] = NoData]
    /\ excused' = excused \ {s}
    /\ UNCHANGED <<entry, committed, finished, bumps, reader, writer, outages>>

\* The timeout of the entry (a minute, five minutes, an hour).
ExpireEntry(s) ==
    /\ cached[s] # NoData
    /\ cached' = [cached EXCEPT ![s] = NoData]
    /\ excused' = excused \ {s}
    /\ UNCHANGED <<entry, committed, finished, bumps, reader, writer, outages>>

-----------------------------------------------------------------------------
\* Faulty: a process deletes only the list of its own version.
InvalidateOwnKey(p) ==
    /\ bumps' = IF entry = "product_list" THEN [bumps EXCEPT ![p] = @ + 1] ELSE bumps
    /\ reader' = [r \in Reader |-> [reader[r] EXCEPT !.overtaken = @ \/ reader[r].pc = "store"]]
    /\ cached' = [cached EXCEPT ![SlotOf(p)] = NoData]
    /\ excused' = excused \ {SlotOf(p)}
    /\ UNCHANGED outages

\* _invalidate_product_cache: the process moves to a new version and every key goes.  The
\* other writers delete their own key.  A read that is under way is not stopped.
Invalidate(p) ==
    /\ bumps' = IF entry = "product_list" THEN [bumps EXCEPT ![p] = @ + 1] ELSE bumps
    /\ reader' = [r \in Reader |-> [reader[r] EXCEPT !.overtaken = @ \/ reader[r].pc = "store"]]
    /\ \/ /\ cached' = [s \in Slot |-> NoData]
          /\ excused' = {} /\ UNCHANGED outages
       \/ /\ outages < MaxOutages   \* Redis is away and IGNORE_EXCEPTIONS hides it
          /\ outages' = outages + 1
          /\ excused' = {s \in Slot : cached[s] # NoData}
          /\ UNCHANGED cached

Commits == committed <= MaxWrites + 1 /\ committed' = committed + 1

\* A write that invalidates, first half: the rows.  Products, SKUs and stock adjustments;
\* read and dismissed notices; the daily pipeline's forecasts.
WriteRows(p) ==
    /\ writer[p].pc = "idle" /\ entry # "forecast_sku" /\ Commits
    /\ writer' = [writer EXCEPT ![p] = [pc |-> "delete", wrote |-> committed + 1]]
    /\ UNCHANGED <<entry, finished, bumps, cached, reader, excused, outages>>

\* Second half: the key.
DeleteKey(p) ==
    /\ writer[p].pc = "delete"
    /\ Invalidate(p)
    /\ finished' = IF writer[p].wrote > finished THEN writer[p].wrote ELSE finished
    /\ writer' = [writer EXCEPT ![p] = NoWriter]
    /\ UNCHANGED <<entry, committed>>

\* apply_confirmed_invoice invalidates inside its transaction; run_forecasting_agent, and a
\* pipeline that stops waiting after ten minutes, before the forecasts are written.
DeleteKeyEarly(p) ==
    /\ writer[p].pc = "idle" /\ committed <= MaxWrites + 1
    /\ entry \in {"low_stock_items", "product_list", "forecast_dashboard"}
    /\ entry = "product_list" => bumps[p] < MaxWrites
    /\ Invalidate(p)
    /\ writer' = [writer EXCEPT ![p].pc = "commit"]
    /\ UNCHANGED <<entry, committed, finished>>

\* The late commit of such a write, and the writes that delete no key: new notices, stock
\* levels, sales and suppliers, stock under the dashboard, any forecast of a SKU.
CommitLate(p) ==
    /\ writer[p].pc \in {"idle", "commit"} /\ Commits
    /\ writer' = [writer EXCEPT ![p] = NoWriter]
    /\ UNCHANGED <<entry, finished, bumps, cached, reader, excused, outages>>

Serve(r) == Query(r) \/ Store(r)
Write(p) == WriteRows(p) \/ DeleteKeyEarly(p) \/ CommitLate(p)

CacheNext ==
    \/ \E r \in Reader : Miss(r) \/ Serve(r) \/ QueryFails(r)
    \/ \E p \in Proc : Write(p) \/ DeleteKey(p)
    \/ \E s \in Slot : ExpireEntry(s)

\* A request that has begun is finished, and so is a deletion; the timeouts pass.
CacheFairness ==
    /\ \A r \in Reader : WF_cacheVars(Serve(r))
    /\ \A p \in Proc : WF_cacheVars(DeleteKey(p))
    /\ \A s \in Slot : WF_cacheVars(ExpireEntry(s))

CacheSpec == CacheInit /\ [][CacheNext]_cacheVars /\ CacheFairness

-----------------------------------------------------------------------------
\* A list or count older than a write that is finished, invalidation included, comes from
\* a read that the deletion overtook, from a failed one, or from a deletion that was lost.
StaleIsExcused == \A s \in Slot \ excused : cached[s] = NoData \/ cached[s] >= finished

\* The version in the key of the product list: while no other process writes, a process
\* that has written never again serves a list from before its last finished write, even
\* if its own slow readers store one late or the deletion is lost.
OwnWritesAreListed ==
    entry = "product_list" =>
        \A p \in Proc : bumps[p] > 0 /\ (\A q \in Proc \ {p} : bumps[q] = 0)
            => cached[bumps[p]] = NoData \/ cached[bumps[p]] >= finished

\* What the caches promise between two timeouts: the two rules above.
CacheInv == StaleIsExcused /\ OwnWritesAreListed

\* Whatever was lost or overtaken, the timeouts end it: when the writes stop, the cache
\* comes to hold nothing but the newest data for good.
StalenessEnds == <>[](\A s \in Slot : cached[s] \in {NoData, committed})
=============================================================================
