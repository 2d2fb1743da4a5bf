--------------------------- MODULE QueryExecution ---------------------------
(***************************************************************************)
(* The executions of a notebook entry's query: the executor                *)
(* (connection/query_executor.tsx), the state that its actions build       *)
(* (reduceQueryAction), the computations on the results                    *)
(* (reduceComputationState), and the cached result of the query text.      *)
(* An execution is a coroutine: pc names the await it is suspended at and  *)
(* an action runs it to its next await.  The executor never reads the      *)
(* state it dispatches to, so that an action is applied when dispatched.   *)
(***************************************************************************)
EXTENDS Naturals, FiniteSets

CONSTANTS
    MaxQueries   \* bound: executions

ASSUME BoundsAssumption == MaxQueries \in Nat

Queries == 1 .. MaxQueries
NoQuery == 0

\* Where an execution waits: the cache key, the cached result, the connector's
\* start, the result stream, its schema, the data frame, a scheduled task.  A
\* "stuck" execution waits for a task that no scheduler knows.
Points == {"idle", "key", "read", "start", "produce", "schema", "frame", "tasks",
           "stuck", "done"}

\* QueryExecutionStatus
Statuses == {"NONE", "REQUESTED", "SENDING", "QUEUED", "RUNNING", "RECEIVED_FIRST_BATCH",
             "RECEIVED_ALL_BATCHES", "PROCESSING_RESULTS", "SUCCEEDED", "FAILED", "CANCELLED"}
Final == {"SUCCEEDED", "FAILED", "CANCELLED"}

VARIABLES
    nextId,           \* NEXT_QUERY_ID
    pc,               \* the executions
    kind,             \* "notebook": analyzed and cacheable; "catalog": neither
    replaces,         \* args.replaceComputationId
    hashed,           \* executions that have a cache key (cacheHash)
    aborted,          \* runtime.cancellation.signal.aborted
    got,              \* executions whose stream has produced a batch
    served,           \* executions served from the cache
    latest,           \* latestQueryId of the entry's script
    refreshing,       \* the query whose Refresh waits for the cache deletion
    connected,        \* the connection is in the registry
    active,           \* keys of queriesActive
    finished,         \* keys of queriesFinished
    activeOrdered,    \* members of queriesActiveOrdered
    finishedOrdered,  \* members of queriesFinishedOrdered
    status,           \* status of every query state
    recorded,         \* query states with a cacheKey
    tally,            \* metrics: totalQueries by outcome
    computations,     \* keys of tableComputations
    crashed,          \* a reducer has thrown: React has unmounted the providers
    file,             \* the query whose result the cache entry holds
    saving            \* executions whose cache write is in flight

entryVars == <<latest, refreshing>>
runVars == <<nextId, kind, replaces>>
stateVars == <<active, finished, activeOrdered, finishedOrdered, status, recorded, tally>>
computeVars == <<computations, crashed>>
cacheVars == <<file, saving>>
vars == <<runVars, pc, hashed, aborted, got, served, entryVars, connected, stateVars,
          computeVars, cacheVars>>

ExecutorTypeOK ==
    /\ nextId \in 1 .. (MaxQueries + 1)
    /\ pc \in [Queries -> Points]
    /\ kind \in [Queries -> {"notebook", "catalog"}]
    /\ replaces \in [Queries -> Queries \cup {NoQuery}]
    /\ hashed \subseteq Queries /\ aborted \subseteq Queries /\ got \subseteq Queries
    /\ served \subseteq Queries
    /\ latest \in Queries \cup {NoQuery}
    /\ refreshing \in Queries \cup {NoQuery}

StateTypeOK ==
    /\ active \subseteq Queries /\ finished \subseteq Queries
    /\ activeOrdered \subseteq Queries /\ finishedOrdered \subseteq Queries
    /\ status \in [Queries -> Statuses]
    /\ recorded \subseteq Queries
    /\ tally \in [Final -> Nat]

TypeOK ==
    /\ ExecutorTypeOK
    /\ StateTypeOK
    /\ connected \in BOOLEAN
    /\ computations \subseteq Queries
    /\ crashed \in BOOLEAN
    /\ file \in Queries \cup {NoQuery}
    /\ saving \subseteq Queries

Init ==
    /\ nextId = 1
    /\ pc = [q \in Queries |-> "idle"]
    /\ kind = [q \in Queries |-> "catalog"]
    /\ replaces = [q \in Queries |-> NoQuery]
    /\ hashed = {} /\ aborted = {} /\ got = {} /\ served = {}
    /\ latest = NoQuery /\ refreshing = NoQuery
    /\ connected = TRUE
    /\ active = {} /\ finished = {} /\ activeOrdered = {} /\ finishedOrdered = {}
    /\ status = [q \in Queries |-> "NONE"]
    /\ recorded = {}
    /\ tally = [s \in Final |-> 0]
    /\ computations = {} /\ crashed = FALSE
    /\ file = NoQuery /\ saving = {}

-----------------------------------------------------------------------------
(* The reducer of query actions                                             *)

\* The query states an action about q finds.
Known == active \cup finished

\* An action that moves an active query to status s; it is ignored when the
\* query is not active.
Moves(q, s) ==
    /\ status' = IF q \in active THEN [status EXCEPT ![q] = s] ELSE status
    /\ UNCHANGED <<active, finished, activeOrdered, finishedOrdered, recorded, tally>>

\* EXECUTE_QUERY, then the actions dispatched in the same turn, which leave the
\* query in status s.  A deleted connection ignores them.
Registers(q, s) ==
    /\ IF connected
       THEN /\ active' = active \cup {q}
            /\ activeOrdered' = activeOrdered \cup {q}
            /\ status' = [status EXCEPT ![q] = s]
       ELSE UNCHANGED <<active, activeOrdered, status>>
    /\ UNCHANGED <<finished, finishedOrdered, recorded, tally>>

\* Mutant: a progress report that says isQueued always sets the status.
ProgressesAlways(q, isQueued) == IF isQueued THEN Moves(q, "QUEUED") ELSE UNCHANGED stateVars

\* QUERY_PROGRESS_UPDATED
Progresses(q, isQueued) ==
    IF isQueued /\ status[q] = "SENDING" THEN Moves(q, "QUEUED") ELSE UNCHANGED stateVars

\* QUERY_SUCCEEDED, QUERY_FAILED and QUERY_CANCELLED
Finishes(q, s) ==
    /\ IF q \in active
       THEN /\ status' = [status EXCEPT ![q] = s]
            /\ active' = active \ {q}
            /\ activeOrdered' = activeOrdered \ {q}
            /\ finished' = finished \cup {q}
            /\ finishedOrdered' = finishedOrdered \cup {q}
            /\ tally' = [tally EXCEPT ![s] = @ + 1]
       ELSE UNCHANGED <<status, active, activeOrdered, finished, finishedOrdered, tally>>
    /\ UNCHANGED recorded

\* QUERY_CACHE_RECORDED, which finds finished queries as well
Records(q) == recorded' = IF q \in Known THEN recorded \cup {q} ELSE recorded

-----------------------------------------------------------------------------
(* The executor                                                             *)

\* execute() and executeImpl() up to the first await.  Without a connection it
\* throws; a catalog query has no cache key to wait for.
Starts(k, replaced) ==
    LET q == nextId IN
    /\ nextId <= MaxQueries
    /\ nextId' = q + 1
    /\ kind' = [kind EXCEPT ![q] = k]
    /\ replaces' = [replaces EXCEPT ![q] = replaced]
    /\ \/ /\ ~connected
          /\ pc' = [pc EXCEPT ![q] = "done"]
          /\ UNCHANGED stateVars
       \/ /\ connected /\ k = "notebook"
          /\ pc' = [pc EXCEPT ![q] = "key"]
          /\ UNCHANGED stateVars
       \/ /\ connected /\ k = "catalog"
          /\ pc' = [pc EXCEPT ![q] = "start"]
          /\ Registers(q, "SENDING")
    /\ UNCHANGED <<hashed, aborted, got, served, connected, computeVars, saving>>

\* The user executes the entry; REGISTER_QUERY makes the execution its latest.
RunEntry ==
    /\ ~crashed
    /\ connected
    /\ Starts("notebook", latest)
    /\ latest' = nextId
    /\ UNCHANGED <<refreshing, file>>

\* The catalog loader or a health check executes a query.
RunCatalogQuery ==
    /\ ~crashed
    /\ connected
    /\ Starts("catalog", NoQuery)
    /\ UNCHANGED <<entryVars, file>>

\* Refresh, offered for a succeeded result.  The cache entry is deleted only
\* when the query state has a cache key; the script is captured by the handler.
RefreshEntry ==
    /\ ~crashed
    /\ latest \in finished
    /\ status[latest] = "SUCCEEDED"
    /\ refreshing = NoQuery
    /\ IF latest \in recorded
       THEN /\ refreshing' = latest
            /\ UNCHANGED <<runVars, pc, hashed, aborted, got, served, latest, connected,
                           stateVars, computeVars, cacheVars>>
       ELSE /\ Starts("notebook", latest)
            /\ latest' = nextId
            /\ UNCHANGED <<refreshing, file>>

\* The deletion is over, which may have failed, and the handler goes on with the
\* script it has captured.
RefreshContinues ==
    /\ ~crashed
    /\ refreshing # NoQuery
    /\ Starts("notebook", refreshing)
    /\ refreshing' = NoQuery
    /\ latest' = nextId
    /\ file' = NoQuery \/ UNCHANGED file

\* The cache key is known, or there is none.  EXECUTE_QUERY is dispatched only now.
KeyComputed(q) ==
    /\ ~crashed
    /\ pc[q] = "key"
    /\ \/ /\ pc' = [pc EXCEPT ![q] = "read"]
          /\ hashed' = hashed \cup {q}
          /\ Registers(q, "REQUESTED")
       \/ /\ pc' = [pc EXCEPT ![q] = "start"]
          /\ Registers(q, "SENDING")
          /\ UNCHANGED hashed
    /\ UNCHANGED <<runVars, aborted, got, served, entryVars, connected, computeVars,
                   cacheVars>>

\* Mutant: the catch block dispatches nothing.
ThrowsSilently(q) ==
    /\ pc' = [pc EXCEPT ![q] = "done"]
    /\ UNCHANGED stateVars

\* The end of an execution by an exception.  After a cancellation every exception
\* is a cancellation; one that is named AbortError is a cancellation as well.
Throws(q) ==
    /\ pc' = [pc EXCEPT ![q] = "done"]
    /\ \/ Finishes(q, "CANCELLED")
       \/ q \notin aborted /\ Finishes(q, "FAILED")

\* Mutant: latestQueryId is read when the result arrives, not at the start.
CompletesLate(q) ==
    IF kind[q] = "notebook"
    THEN /\ pc' = [pc EXCEPT ![q] = "frame"]
         /\ computations' = (computations \ {latest}) \cup {q}
         /\ Moves(q, "PROCESSING_RESULTS")
    ELSE /\ pc' = [pc EXCEPT ![q] = "done"]
         /\ Finishes(q, "SUCCEEDED")
         /\ UNCHANGED computations

\* The result is complete.  A notebook's result is analyzed: the computation it
\* replaces is deleted first, its own is registered, and the data frame is awaited.
Completes(q) ==
    IF kind[q] = "notebook"
    THEN /\ pc' = [pc EXCEPT ![q] = "frame"]
         /\ computations' = (computations \ {replaces[q]}) \cup {q}
         /\ Moves(q, "PROCESSING_RESULTS")
    ELSE /\ pc' = [pc EXCEPT ![q] = "done"]
         /\ Finishes(q, "SUCCEEDED")
         /\ UNCHANGED computations

\* The cache has no entry, or reading it failed.
CacheMisses(q) ==
    /\ ~crashed
    /\ pc[q] = "read"
    /\ IF q \in aborted
       THEN /\ pc' = [pc EXCEPT ![q] = "done"]
            /\ Finishes(q, "CANCELLED")
       ELSE /\ pc' = [pc EXCEPT ![q] = "start"]
            /\ Moves(q, "SENDING")
    /\ UNCHANGED <<runVars, hashed, aborted, got, served, entryVars, connected,
                   computeVars, cacheVars>>

\* The cache has an entry: no backend is asked.
CacheHits(q) ==
    /\ ~crashed
    /\ pc[q] = "read"
    /\ file # NoQuery
    /\ IF q \in aborted
       THEN /\ pc' = [pc EXCEPT ![q] = "done"]
            /\ Finishes(q, "CANCELLED")
            /\ UNCHANGED <<served, computations>>
       ELSE /\ served' = served \cup {q}
            /\ pc' = [pc EXCEPT ![q] = "frame"]
            /\ computations' = (computations \ {replaces[q]}) \cup {q}
            /\ Records(q)
            /\ status' = IF q \in active THEN [status EXCEPT ![q] = "PROCESSING_RESULTS"]
                         ELSE status
            /\ UNCHANGED <<active, finished, activeOrdered, finishedOrdered, tally>>
    /\ UNCHANGED <<runVars, hashed, aborted, got, entryVars, connected, crashed,
                   cacheVars>>

\* The connector has returned the result stream.
StreamOpens(q) ==
    /\ ~crashed
    /\ pc[q] = "start"
    /\ pc' = [pc EXCEPT ![q] = "produce"]
    /\ Moves(q, "RUNNING")
    /\ UNCHANGED <<runVars, hashed, aborted, got, served, entryVars, connected,
                   computeVars, cacheVars>>

ProgressArrives(q) ==
    /\ ~crashed
    /\ pc[q] = "produce"
    /\ \E isQueued \in BOOLEAN : Progresses(q, isQueued)
    /\ UNCHANGED <<runVars, pc, hashed, aborted, got, served, entryVars, connected,
                   computeVars, cacheVars>>

BatchArrives(q) ==
    /\ ~crashed
    /\ pc[q] = "produce"
    /\ got' = got \cup {q}
    /\ Moves(q, "RECEIVED_FIRST_BATCH")
    /\ UNCHANGED <<runVars, pc, hashed, aborted, served, entryVars, connected,
                   computeVars, cacheVars>>

\* produce() has returned: without a batch, the schema has to be awaited.
StreamEnds(q) ==
    /\ ~crashed
    /\ pc[q] = "produce"
    /\ IF q \in got
       THEN Completes(q)
       ELSE /\ pc' = [pc EXCEPT ![q] = "schema"]
            /\ UNCHANGED <<stateVars, computations>>
    /\ UNCHANGED <<runVars, hashed, aborted, got, served, entryVars, connected, crashed,
                   cacheVars>>

\* Mutant: an empty result has no schema to wait for.
SchemaNeverArrives(q) ==
    /\ ~crashed
    /\ pc[q] = "schema"
    /\ q \in got
    /\ Completes(q)
    /\ UNCHANGED <<runVars, hashed, aborted, got, served, entryVars, connected, crashed,
                   cacheVars>>

SchemaArrives(q) ==
    /\ ~crashed
    /\ pc[q] = "schema"
    /\ Completes(q)
    /\ UNCHANGED <<runVars, hashed, aborted, got, served, entryVars, connected, crashed,
                   cacheVars>>

\* The cached bytes, the connector, the stream or the analysis has failed.
ExecutionFails(q) ==
    /\ ~crashed
    /\ \/ pc[q] \in {"start", "produce", "schema", "frame", "tasks"}
       \/ pc[q] = "read" /\ file # NoQuery
    /\ Throws(q)
    /\ UNCHANGED <<runVars, hashed, aborted, got, served, entryVars, connected,
                   computeVars, cacheVars>>

\* CREATED_DATA_FRAME expects that the computation is registered.  The first
\* scheduler task is dispatched in the same turn.
FrameCreated(q) ==
    /\ ~crashed
    /\ pc[q] = "frame"
    /\ IF q \in computations
       THEN pc' = [pc EXCEPT ![q] = "tasks"] /\ UNCHANGED crashed
       ELSE crashed' = TRUE /\ UNCHANGED pc
    /\ UNCHANGED <<runVars, hashed, aborted, got, served, entryVars, connected, stateVars,
                   computations, cacheVars>>

\* SCHEDULE_TASK for a computation that is gone registers no task, and nothing
\* resolves the result that the execution awaits.
TaskIsDropped(q) ==
    /\ ~crashed
    /\ pc[q] = "tasks"
    /\ q \notin computations
    /\ pc' = [pc EXCEPT ![q] = "stuck"]
    /\ UNCHANGED <<runVars, hashed, aborted, got, served, entryVars, connected, stateVars,
                   computeVars, cacheVars>>

\* Mutant: throwIfAborted is forgotten after the analysis.
AnalysisEndsUnchecked(q) ==
    /\ ~crashed
    /\ pc[q] = "tasks"
    /\ pc' = [pc EXCEPT ![q] = "done"]
    /\ Finishes(q, "SUCCEEDED")
    /\ saving' = IF q \in hashed \ served THEN saving \cup {q} ELSE saving
    /\ UNCHANGED <<runVars, hashed, aborted, got, served, entryVars, connected,
                   computeVars, file>>

\* Mutant: the result is saved before the cancellation is looked at.
AnalysisEndsSaved(q) ==
    /\ ~crashed
    /\ pc[q] = "tasks"
    /\ pc' = [pc EXCEPT ![q] = "done"]
    /\ Finishes(q, IF q \in aborted THEN "CANCELLED" ELSE "SUCCEEDED")
    /\ saving' = IF q \in hashed \ served THEN saving \cup {q} ELSE saving
    /\ UNCHANGED <<runVars, hashed, aborted, got, served, entryVars, connected,
                   computeVars, file>>

\* The last task is done.  A result that came from the backend is written to the
\* cache without waiting for it.
AnalysisEnds(q) ==
    /\ ~crashed
    /\ pc[q] = "tasks"
    /\ pc' = [pc EXCEPT ![q] = "done"]
    /\ IF q \in aborted
       THEN Finishes(q, "CANCELLED") /\ UNCHANGED saving
       ELSE /\ Finishes(q, "SUCCEEDED")
            /\ saving' = IF q \in hashed \ served THEN saving \cup {q} ELSE saving
    /\ UNCHANGED <<runVars, hashed, aborted, got, served, entryVars, connected,
                   computeVars, file>>

\* cancel(), for an execution that still has a runtime.
Cancel(q) ==
    /\ ~crashed
    /\ kind[q] = "notebook"
    /\ pc[q] \notin {"idle", "done"}
    /\ aborted' = aborted \cup {q}
    /\ UNCHANGED <<runVars, pc, hashed, got, served, entryVars, connected, stateVars,
                   computeVars, cacheVars>>

-----------------------------------------------------------------------------
(* The cache and the connection                                             *)

SaveLands(q) ==
    /\ ~crashed
    /\ q \in saving
    /\ saving' = saving \ {q}
    /\ file' = q
    /\ Records(q)
    /\ UNCHANGED <<runVars, pc, hashed, aborted, got, served, entryVars, connected, active,
                   finished, activeOrdered, finishedOrdered, status, tally, computeVars>>

SaveIsLost(q) ==
    /\ ~crashed
    /\ q \in saving
    /\ saving' = saving \ {q}
    /\ UNCHANGED <<runVars, pc, hashed, aborted, got, served, entryVars, connected,
                   stateVars, computeVars, file>>

\* Eviction, or a deletion in the cache view.
CacheEntryRemoved ==
    /\ ~crashed
    /\ file # NoQuery
    /\ file' = NoQuery
    /\ UNCHANGED <<runVars, pc, hashed, aborted, got, served, entryVars, connected,
                   stateVars, computeVars, saving>>

\* Mutant: the metrics survive a reset.
ResetConnectionCounted ==
    /\ ~crashed
    /\ connected
    /\ active' = {} /\ finished' = {}
    /\ UNCHANGED <<runVars, pc, hashed, aborted, got, served, entryVars, connected,
                   activeOrdered, finishedOrdered, status, recorded, tally, computeVars,
                   cacheVars>>

\* RESET_CONNECTION forgets the query states and the metrics, not the ordered ids;
\* the executions go on.
ResetConnection ==
    /\ ~crashed
    /\ connected
    /\ active' = {} /\ finished' = {}
    /\ tally' = [s \in Final |-> 0]
    /\ UNCHANGED <<runVars, pc, hashed, aborted, got, served, entryVars, connected,
                   activeOrdered, finishedOrdered, status, recorded, computeVars, cacheVars>>

\* DELETE_CONNECTION removes the connection from the registry.
DeleteConnection ==
    /\ ~crashed
    /\ connected
    /\ connected' = FALSE
    /\ active' = {} /\ finished' = {}
    /\ activeOrdered' = {} /\ finishedOrdered' = {}
    /\ tally' = [s \in Final |-> 0]
    /\ UNCHANGED <<runVars, pc, hashed, aborted, got, served, entryVars, status, recorded,
                   computeVars, cacheVars>>

\* What an execution does when the call it awaits returns without failing.
Resumes(q) ==
    \/ KeyComputed(q) \/ CacheMisses(q) \/ CacheHits(q)
    \/ StreamOpens(q) \/ StreamEnds(q) \/ SchemaArrives(q)
    \/ FrameCreated(q) \/ TaskIsDropped(q) \/ AnalysisEnds(q)

Next ==
    \/ RunEntry \/ RunCatalogQuery \/ RefreshEntry \/ RefreshContinues
    \/ \E q \in Queries :
           \/ Resumes(q) \/ ExecutionFails(q)
           \/ ProgressArrives(q) \/ BatchArrives(q) \/ Cancel(q)
           \/ SaveLands(q) \/ SaveIsLost(q)
    \/ CacheEntryRemoved \/ ResetConnection \/ DeleteConnection

Spec == Init /\ [][Next]_vars

\* Every awaited call returns: key, cache, connector, stream, DuckDB, tasks.  That
\* calls fail is not assumed, and neither is anything about the user.
Fairness == \A q \in Queries : WF_vars(Resumes(q))
FairSpec == Spec /\ Fairness
-----------------------------------------------------------------------------
(* Properties                                                               *)

\* Resets, deletions and outcomes keep the lists of the query viewer complete:
\* what a map knows, the list of its own kind holds, and no query is in both.
KnownIsListed ==
    /\ active \subseteq activeOrdered
    /\ finished \subseteq finishedOrdered
    /\ activeOrdered \cap finishedOrdered = {}

\* A query is shown as running only while its execution is under way: whatever
\* path an execution takes to its end, it leaves queriesActive on the way, also
\* when it is registered late, after the connection was reset.
ActiveIsRunning == \A q \in active : pc[q] \notin {"idle", "key", "done"}

\* The outcome counters of the connection agree with the finished queries, over
\* resets and late ends: every outcome is counted once.
TallyMatches == \A s \in Final : tally[s] = Cardinality({q \in finished : status[q] = s})

\* The status of a query never falls back, on any path through the cache, the
\* connector, the stream and the analysis.
Rank(s) ==
    CASE s = "NONE" -> 0 [] s = "REQUESTED" -> 1 [] s = "SENDING" -> 2 [] s = "QUEUED" -> 3
      [] s = "RUNNING" -> 4 [] s = "RECEIVED_FIRST_BATCH" -> 5
      [] s = "RECEIVED_ALL_BATCHES" -> 6 [] s = "PROCESSING_RESULTS" -> 7 [] s \in Final -> 8
StatusMovesForward == [][\A q \in Queries : Rank(status[q]) <= Rank(status'[q])]_vars

\* A cancelled notebook query never becomes a success, whatever it was waiting
\* for when the user cancelled it.
CancelPrevails ==
    [][\A q \in aborted :
           kind[q] = "notebook" /\ status[q] # "SUCCEEDED" => status'[q] # "SUCCEEDED"]_vars

\* The result shown for the entry has its computation: whatever executions of
\* the entry overlap, none deletes the computation of the latest success.
LatestHasComputation ==
    latest # NoQuery /\ status[latest] = "SUCCEEDED" => latest \in computations

\* The cache holds results of ended executions that the connection, if it still
\* knows them, has recorded as successes: never one cancelled or failed.
CacheHoldsResults ==
    \A q \in saving \cup ({file} \ {NoQuery}) :
        pc[q] = "done" /\ (q \in Known => q \in finished /\ status[q] = "SUCCEEDED")

\* Every execution ends when what it awaits returns, or a reducer has thrown.  The
\* exception is an execution whose computation another one has replaced: it may
\* wait for a dropped task.
ExecutionsEnd ==
    \A q \in Queries :
        pc[q] # "idle" ~> \/ pc[q] = "done" \/ crashed
                          \/ pc[q] = "stuck" /\ \E r \in Queries : replaces[r] = q

-----------------------------------------------------------------------------
(* What comments say and the code does not do                               *)

\* query_execution_args.ts:12: the computation of the previous execution "can be
\* retired before analyzing this result".  The previous execution may be in the
\* middle of its own analysis: its CREATED_DATA_FRAME then finds no computation.
RetiringIsSafe == ~crashed
=============================================================================
