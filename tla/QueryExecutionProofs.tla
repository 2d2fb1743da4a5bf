------------------------ MODULE QueryExecutionProofs ------------------------
(***************************************************************************)
(* Theorems about QueryExecution, for any number of executions: its types; *)
(* what the maps and lists of the query state say of the executions; that  *)
(* the latest result keeps its computation; that only successes are        *)
(* cached; and that a cancelled query does not succeed.                    *)
(***************************************************************************)
EXTENDS QueryExecution, FiniteSetTheorems, TLAPS

-----------------------------------------------------------------------------
(* Types                                                                    *)

\* The reducer keeps the types of the query states.
LEMMA ReducerTypes ==
    ASSUME TypeOK, NEW q \in Queries,
           \/ UNCHANGED stateVars
           \/ \E s \in Statuses : Moves(q, s) \/ Registers(q, s)
           \/ \E b \in BOOLEAN : Progresses(q, b)
           \/ \E s \in Final : Finishes(q, s)
    PROVE  StateTypeOK'
<1> USE DEF TypeOK, StateTypeOK
<1>1. CASE UNCHANGED stateVars
  BY <1>1 DEF stateVars
<1>2. CASE \E s \in Statuses : Moves(q, s) \/ Registers(q, s)
  BY <1>2 DEF Moves, Registers
<1>3. CASE \E b \in BOOLEAN : Progresses(q, b)
  BY <1>3 DEF Progresses, Moves, stateVars, Statuses
<1>4. CASE \E s \in Final : Finishes(q, s)
  <2>1. PICK s \in Final : Finishes(q, s)
    BY <1>4
  <2>2. tally' \in [Final -> Nat]
    BY <2>1 DEF Finishes
  <2>3. s \in Statuses
    BY DEF Final, Statuses
  <2>4. QED
    BY <2>1, <2>2, <2>3 DEF Finishes
<1>5. QED
  BY <1>1, <1>2, <1>3, <1>4

\* Starting an execution keeps the types.
LEMMA StartTypes ==
    ASSUME TypeOK, NEW k \in {"notebook", "catalog"}, NEW r \in Queries \cup {NoQuery},
           Starts(k, r), file' \in Queries \cup {NoQuery},
           refreshing' \in Queries \cup {NoQuery}, latest' \in {latest, nextId}
    PROVE  TypeOK'
<1>1. nextId \in Queries
  BY BoundsAssumption DEF Starts, TypeOK, ExecutorTypeOK, Queries
<1>2. "SENDING" \in Statuses
  BY DEF Statuses
<1>3. UNCHANGED stateVars \/ Registers(nextId, "SENDING")
  BY DEF Starts
<1>4. StateTypeOK'
  BY <1>1, <1>2, <1>3, ReducerTypes
<1>5. ExecutorTypeOK'
  <2>1. \E p \in Points : pc' = [pc EXCEPT ![nextId] = p]
    BY DEF Starts, Points
  <2>2. pc' \in [Queries -> Points]
    BY <1>1, <2>1 DEF TypeOK, ExecutorTypeOK
  <2>3. nextId' \in 1 .. (MaxQueries + 1)
    BY BoundsAssumption DEF Starts, TypeOK, ExecutorTypeOK
  <2>4. /\ kind' \in [Queries -> {"notebook", "catalog"}]
        /\ replaces' \in [Queries -> Queries \cup {NoQuery}]
    BY <1>1 DEF Starts, TypeOK, ExecutorTypeOK
  <2>5. QED
    BY <1>1, <2>2, <2>3, <2>4 DEF Starts, TypeOK, ExecutorTypeOK
<1>6. QED
  BY <1>4, <1>5 DEF Starts, TypeOK, computeVars

\* Every variable has its type: executor, query states, computations and cache.
THEOREM QueryTypes == Spec => []TypeOK
<1>1. Init => TypeOK
  <2> SUFFICES ASSUME Init PROVE TypeOK
    OBVIOUS
  <2>1. ExecutorTypeOK
    BY BoundsAssumption DEF Init, ExecutorTypeOK, Points
  <2>2. StateTypeOK
    BY DEF Init, StateTypeOK, Statuses
  <2>3. connected \in BOOLEAN /\ crashed \in BOOLEAN
    BY Zenon DEF Init
  <2>4. QED
    BY <2>1, <2>2, <2>3 DEF Init, TypeOK
<1>2. TypeOK /\ [Next]_vars => TypeOK'
  <2> SUFFICES ASSUME TypeOK, [Next]_vars PROVE TypeOK'
    OBVIOUS
  <2>1. CASE UNCHANGED vars
    BY <2>1 DEF TypeOK, ExecutorTypeOK, StateTypeOK, vars, runVars, entryVars, stateVars,
         computeVars, cacheVars
  <2>2. CASE RunEntry \/ RunCatalogQuery \/ RefreshContinues
    BY <2>2, StartTypes DEF RunEntry, RunCatalogQuery, RefreshContinues, entryVars, TypeOK,
         ExecutorTypeOK, NoQuery
  <2>3. CASE RefreshEntry
    <3>1. CASE latest \notin recorded
      BY <2>3, <3>1, StartTypes DEF RefreshEntry, TypeOK, ExecutorTypeOK
    <3>2. CASE latest \in recorded
      BY <2>3, <3>2 DEF RefreshEntry, TypeOK, ExecutorTypeOK, StateTypeOK, runVars, stateVars,
           computeVars, cacheVars
    <3>3. QED
      BY <3>1, <3>2
  <2>4. ASSUME NEW q \in Queries, Resumes(q) \/ ExecutionFails(q) PROVE TypeOK'
    <3> USE <2>4 DEF Resumes
    <3> USE DEF KeyComputed, CacheMisses, StreamOpens, StreamEnds, SchemaArrives,
            ExecutionFails, FrameCreated, TaskIsDropped, AnalysisEnds
    <3>1. UNCHANGED <<connected, file>>
      BY DEF CacheHits, cacheVars
    <3>2. {"REQUESTED", "SENDING", "RUNNING", "PROCESSING_RESULTS"} \subseteq Statuses
          /\ Final = {"SUCCEEDED", "FAILED", "CANCELLED"}
      BY DEF Statuses, Final
    <3>3. StateTypeOK'
      <4>1. CASE CacheHits(q)
        BY <4>1, <3>2, ReducerTypes
           DEF CacheHits, Records, TypeOK, StateTypeOK
      <4>2. CASE ~CacheHits(q)
        BY <4>2, <3>2, ReducerTypes DEF Completes, Throws
      <4>3. QED
        BY <4>1, <4>2
    <3>4. ExecutorTypeOK'
      <4>1. \E p \in Points : pc' = [pc EXCEPT ![q] = p] \/ pc' = pc
        BY DEF CacheHits, Completes, Throws, Points
      <4>2. pc' \in [Queries -> Points]
        BY <4>1 DEF TypeOK, ExecutorTypeOK
      <4>3. hashed' \subseteq Queries /\ served' \subseteq Queries
        BY DEF CacheHits, TypeOK, ExecutorTypeOK
      <4>4. UNCHANGED <<nextId, kind, replaces, aborted, got, latest, refreshing>>
        BY DEF CacheHits, runVars, entryVars
      <4>5. QED
        BY <4>2, <4>3, <4>4 DEF TypeOK, ExecutorTypeOK
    <3>5. computations' \subseteq Queries /\ crashed' \in BOOLEAN /\ saving' \subseteq Queries
      BY DEF CacheHits, Completes, TypeOK, computeVars, cacheVars
    <3>6. QED
      BY <3>1, <3>3, <3>4, <3>5 DEF TypeOK
  <2>5. ASSUME NEW q \in Queries, ProgressArrives(q) \/ BatchArrives(q) PROVE TypeOK'
    <3>1. "RECEIVED_FIRST_BATCH" \in Statuses
      BY DEF Statuses
    <3>2. StateTypeOK'
      BY <2>5, <3>1, ReducerTypes DEF ProgressArrives, BatchArrives
    <3>3. QED
      BY <2>5, <3>2 DEF ProgressArrives, BatchArrives, TypeOK, ExecutorTypeOK, runVars,
           entryVars, computeVars, cacheVars
  <2>6. ASSUME NEW q \in Queries, Cancel(q) \/ SaveLands(q) \/ SaveIsLost(q) PROVE TypeOK'
    BY <2>6 DEF Cancel, SaveLands, SaveIsLost, Records, TypeOK, ExecutorTypeOK, StateTypeOK,
         runVars, entryVars, stateVars, computeVars, cacheVars
  <2>7. CASE CacheEntryRemoved \/ ResetConnection \/ DeleteConnection
    <3>1. ExecutorTypeOK'
      BY <2>7 DEF CacheEntryRemoved, ResetConnection, DeleteConnection, TypeOK, ExecutorTypeOK,
           runVars, entryVars
    <3>2. StateTypeOK'
      BY <2>7 DEF CacheEntryRemoved, ResetConnection, DeleteConnection, TypeOK, StateTypeOK,
           stateVars
    <3>3. QED
      BY <2>7, <3>1, <3>2 DEF CacheEntryRemoved, ResetConnection, DeleteConnection, TypeOK,
           computeVars, cacheVars
  <2>8. QED
    BY <2>1, <2>2, <2>3, <2>4, <2>5, <2>6, <2>7 DEF Next
<1>3. QED
  BY <1>1, <1>2, PTL DEF Spec

-----------------------------------------------------------------------------
(* The query state and the executions                                       *)

\* An id that is not given out yet belongs to no execution and no query state.
Unissued ==
    \A q \in Queries : q >= nextId =>
        pc[q] = "idle" /\ kind[q] = "catalog" /\ status[q] = "NONE"

\* Only ended executions are listed as finished.
FinishedHasEnded == \A q \in finishedOrdered : pc[q] = "done"

ListInv == Unissued /\ FinishedHasEnded /\ KnownIsListed /\ ActiveIsRunning

\* A step of an execution that ends where the final action is dispatched.
LEMMA EndKeepsLists ==
    ASSUME TypeOK, ListInv, NEW q \in Queries, NEW s \in Final,
           pc[q] # "idle", pc' = [pc EXCEPT ![q] = "done"], Finishes(q, s),
           UNCHANGED <<nextId, kind>>
    PROVE  ListInv'
<1>1. Unissued'
  BY DEF TypeOK, ExecutorTypeOK, StateTypeOK, ListInv, Unissued, Finishes
<1>2. FinishedHasEnded' /\ KnownIsListed' /\ ActiveIsRunning'
  BY DEF TypeOK, ExecutorTypeOK, StateTypeOK, ListInv, FinishedHasEnded, KnownIsListed,
       ActiveIsRunning, Finishes
<1>3. QED
  BY <1>1, <1>2 DEF ListInv

\* A step of an execution that is under way and goes on.
LEMMA MoveKeepsLists ==
    ASSUME TypeOK, ListInv, NEW q \in Queries, NEW p, pc[q] \notin {"idle", "key", "done"},
           p \notin {"idle", "key", "done"}, pc' = [pc EXCEPT ![q] = p],
           UNCHANGED <<nextId, kind, active, finished, activeOrdered, finishedOrdered>>,
           NEW s, status' = [status EXCEPT ![q] = s] \/ status' = status
    PROVE  ListInv'
<1>1. Unissued'
  BY DEF TypeOK, ExecutorTypeOK, StateTypeOK, ListInv, Unissued
<1>2. FinishedHasEnded' /\ KnownIsListed' /\ ActiveIsRunning'
  BY DEF TypeOK, ExecutorTypeOK, StateTypeOK, ListInv, FinishedHasEnded, KnownIsListed,
       ActiveIsRunning
<1>3. QED
  BY <1>1, <1>2 DEF ListInv

\* EXECUTE_QUERY, of an execution that has just begun or has its cache key.
LEMMA RegisterKeepsLists ==
    ASSUME TypeOK, ListInv, NEW q \in Queries, pc[q] \in {"idle", "key"},
           \E p \in {"read", "start"} : pc' = [pc EXCEPT ![q] = p],
           \/ active' = active \cup {q} /\ activeOrdered' = activeOrdered \cup {q}
           \/ UNCHANGED <<active, activeOrdered>>,
           UNCHANGED <<finished, finishedOrdered>>, Unissued'
    PROVE  ListInv'
<1>1. FinishedHasEnded' /\ KnownIsListed' /\ ActiveIsRunning'
  BY DEF TypeOK, ExecutorTypeOK, StateTypeOK, ListInv, FinishedHasEnded, KnownIsListed,
       ActiveIsRunning
<1>2. QED
  BY <1>1 DEF ListInv

\* execute() up to its first await.
LEMMA StartKeepsLists ==
    ASSUME TypeOK, ListInv, NEW k, NEW r, Starts(k, r)
    PROVE  ListInv'
<1>1. nextId \in Queries /\ nextId' = nextId + 1
  BY BoundsAssumption DEF Starts, TypeOK, ExecutorTypeOK, Queries
<1>2. pc[nextId] = "idle"
  BY <1>1 DEF ListInv, Unissued, Queries
<1>3. \A q \in Queries \ {nextId} : kind'[q] = kind[q]
  BY DEF Starts, TypeOK, ExecutorTypeOK
<1>4. CASE Registers(nextId, "SENDING") /\ pc' = [pc EXCEPT ![nextId] = "start"]
  <2>1. Unissued'
    <3> SUFFICES ASSUME NEW q \in Queries, q >= nextId'
                 PROVE  pc'[q] = "idle" /\ kind'[q] = "catalog" /\ status'[q] = "NONE"
      BY DEF Unissued
    <3>1. q # nextId /\ q >= nextId
      BY <1>1 DEF Queries
    <3>2. pc[q] = "idle" /\ kind[q] = "catalog" /\ status[q] = "NONE"
      BY <3>1 DEF ListInv, Unissued
    <3>3. QED
      BY <1>1, <1>3, <1>4, <3>1, <3>2 DEF TypeOK, ExecutorTypeOK, StateTypeOK, Registers
  <2>2. QED
    BY <1>1, <1>2, <1>4, <2>1, RegisterKeepsLists DEF Registers
<1>5. ASSUME NEW p \in {"key", "done"}, pc' = [pc EXCEPT ![nextId] = p], UNCHANGED stateVars
      PROVE  ListInv'
  <2>1. Unissued'
    BY <1>1, <1>3, <1>5 DEF TypeOK, ExecutorTypeOK, ListInv, Unissued, stateVars, Queries
  <2>2. FinishedHasEnded' /\ KnownIsListed' /\ ActiveIsRunning'
    BY <1>1, <1>2, <1>5 DEF TypeOK, ExecutorTypeOK, StateTypeOK, ListInv, FinishedHasEnded,
         KnownIsListed, ActiveIsRunning, stateVars
  <2>3. QED
    BY <2>1, <2>2 DEF ListInv
<1>6. QED
  BY <1>4, <1>5 DEF Starts

\* The steps of an execution under way.
LEMMA ResumeKeepsLists ==
    ASSUME TypeOK, ListInv, NEW q \in Queries, Resumes(q) \/ ExecutionFails(q)
    PROVE  ListInv'
<1>1. UNCHANGED <<nextId, kind>>
  BY DEF Resumes, KeyComputed, CacheMisses, CacheHits, StreamOpens, StreamEnds, SchemaArrives,
       ExecutionFails, FrameCreated, TaskIsDropped, AnalysisEnds, runVars
<1>2. CASE KeyComputed(q)
  <2>1. q < nextId
    BY <1>2, BoundsAssumption DEF KeyComputed, ListInv, Unissued, TypeOK, ExecutorTypeOK, Queries
  <2>2. PICK p \in {"read", "start"}, s \in {"REQUESTED", "SENDING"} :
            pc' = [pc EXCEPT ![q] = p] /\ Registers(q, s)
    BY <1>2 DEF KeyComputed
  <2>3. Unissued'
    <3> SUFFICES ASSUME NEW r \in Queries, r >= nextId'
                 PROVE  pc'[r] = "idle" /\ kind'[r] = "catalog" /\ status'[r] = "NONE"
      BY DEF Unissued
    <3>1. r # q /\ r >= nextId
      BY <1>1, <2>1, BoundsAssumption DEF TypeOK, ExecutorTypeOK, Queries
    <3>2. pc[r] = "idle" /\ kind[r] = "catalog" /\ status[r] = "NONE"
      BY <3>1 DEF ListInv, Unissued
    <3>3. QED
      BY <1>1, <2>2, <3>1, <3>2 DEF TypeOK, ExecutorTypeOK, StateTypeOK, Registers
  <2>4. QED
    BY <1>2, <2>2, <2>3, RegisterKeepsLists DEF KeyComputed, Registers
<1>3. ASSUME NEW s \in Final, pc' = [pc EXCEPT ![q] = "done"], Finishes(q, s), pc[q] # "idle"
      PROVE  ListInv'
  BY <1>1, <1>3, EndKeepsLists
<1>4. ASSUME pc[q] \notin {"idle", "key", "done"},
             \E p \in {"frame", "start", "produce", "schema", "tasks", "stuck"} :
                 pc' = [pc EXCEPT ![q] = p],
             UNCHANGED <<active, finished, activeOrdered, finishedOrdered>>,
             NEW s, status' = [status EXCEPT ![q] = s] \/ status' = status
      PROVE  ListInv'
  <2>1. PICK p \in {"frame", "start", "produce", "schema", "tasks", "stuck"} :
            pc' = [pc EXCEPT ![q] = p]
    BY <1>4
  <2>2. p \notin {"idle", "key", "done"}
    OBVIOUS
  <2>3. QED
    BY <1>1, <1>4, <2>1, <2>2, MoveKeepsLists
<1>5. {"SUCCEEDED", "FAILED", "CANCELLED"} = Final
  BY DEF Final
<1>6. ASSUME Completes(q), pc[q] \in {"produce", "schema"} PROVE ListInv'
  BY <1>3, <1>4, <1>5, <1>6 DEF Completes, Moves
<1>7. CASE CacheMisses(q) \/ CacheHits(q)
  BY <1>3, <1>4, <1>5, <1>7 DEF CacheMisses, CacheHits, Moves
<1>8. CASE StreamOpens(q)
  BY <1>4, <1>8 DEF StreamOpens, Moves
<1>9. CASE StreamEnds(q) \/ SchemaArrives(q)
  BY <1>4, <1>6, <1>9 DEF StreamEnds, SchemaArrives, stateVars
<1>10. CASE ExecutionFails(q)
  BY <1>3, <1>5, <1>10 DEF ExecutionFails, Throws
<1>11. CASE FrameCreated(q)
  <2>1. CASE pc' = pc
    BY <1>1, <1>11, <2>1 DEF FrameCreated, stateVars, ListInv, Unissued, FinishedHasEnded,
         KnownIsListed, ActiveIsRunning
  <2>2. QED
    BY <1>4, <1>11, <2>1 DEF FrameCreated, stateVars
<1>12. CASE TaskIsDropped(q)
  BY <1>4, <1>12 DEF TaskIsDropped, stateVars
<1>13. CASE AnalysisEnds(q)
  BY <1>3, <1>5, <1>13 DEF AnalysisEnds
<1>14. QED
  BY <1>2, <1>7, <1>8, <1>9, <1>10, <1>11, <1>12, <1>13 DEF Resumes

\* The inductive step of ListInv.
LEMMA ListStep == TypeOK /\ ListInv /\ [Next]_vars => ListInv'
<1> SUFFICES ASSUME TypeOK, ListInv, [Next]_vars PROVE ListInv'
  OBVIOUS
<1> USE DEF ListInv, Unissued, FinishedHasEnded, KnownIsListed, ActiveIsRunning
<1>1. ASSUME UNCHANGED <<nextId, pc, kind, active, finished, activeOrdered, finishedOrdered,
                         status>>
      PROVE  ListInv'
  BY <1>1
<1>2. CASE UNCHANGED vars
  BY <1>1, <1>2 DEF vars, runVars, stateVars
<1>3. CASE RunEntry \/ RunCatalogQuery \/ RefreshContinues
  BY <1>3, StartKeepsLists DEF RunEntry, RunCatalogQuery, RefreshContinues
<1>4. CASE RefreshEntry
  BY <1>1, <1>4, StartKeepsLists DEF RefreshEntry, runVars, stateVars
<1>5. ASSUME NEW q \in Queries, Resumes(q) \/ ExecutionFails(q) PROVE ListInv'
  BY <1>5, ResumeKeepsLists
<1>6. ASSUME NEW q \in Queries, ProgressArrives(q) \/ BatchArrives(q) PROVE ListInv'
  <2>1. /\ UNCHANGED <<nextId, kind, pc, active, finished, activeOrdered, finishedOrdered>>
        /\ \E s : status' = [status EXCEPT ![q] = s] \/ status' = status
        /\ pc[q] = "produce"
    BY <1>6 DEF ProgressArrives, BatchArrives, Progresses, Moves, runVars, stateVars
  <2>2. pc' = [pc EXCEPT ![q] = "produce"]
    BY <2>1 DEF TypeOK, ExecutorTypeOK
  <2>3. QED
    BY <2>1, <2>2, MoveKeepsLists
<1>7. ASSUME NEW q \in Queries, Cancel(q) \/ SaveLands(q) \/ SaveIsLost(q) PROVE ListInv'
  BY <1>1, <1>7 DEF Cancel, SaveLands, SaveIsLost, runVars, stateVars
<1>8. CASE CacheEntryRemoved
  BY <1>1, <1>8 DEF CacheEntryRemoved, runVars, stateVars
<1>9. CASE ResetConnection \/ DeleteConnection
  BY <1>9 DEF ResetConnection, DeleteConnection, runVars
<1>10. QED
  BY <1>2, <1>3, <1>4, <1>5, <1>6, <1>7, <1>8, <1>9 DEF Next

\* A query that is shown as running has an execution under way, and the viewer's
\* lists hold every query the maps know, in the list of its own kind.
THEOREM ShownIsRunning == Spec => [](KnownIsListed /\ ActiveIsRunning)
<1>1. Init => ListInv
  BY DEF Init, ListInv, Unissued, FinishedHasEnded, KnownIsListed, ActiveIsRunning
<1>2. ListInv => KnownIsListed /\ ActiveIsRunning
  BY DEF ListInv
<1>3. QED
  BY <1>1, <1>2, ListStep, QueryTypes, PTL DEF Spec

-----------------------------------------------------------------------------
(* The cached result                                                        *)

CacheInv == ListInv /\ CacheHoldsResults

\* A step of an execution that has not ended leaves the ended ones alone.
LEMMA OthersKept ==
    ASSUME TypeOK, NEW q \in Queries,
           Resumes(q) \/ ExecutionFails(q) \/ ProgressArrives(q) \/ BatchArrives(q)
    PROVE  /\ pc[q] # "done"
           /\ UNCHANGED <<nextId, kind, replaces, latest, refreshing, file>>
           /\ \A r \in Queries \ {q} :
                  /\ pc'[r] = pc[r] /\ status'[r] = status[r]
                  /\ (r \in active') = (r \in active) /\ (r \in finished') = (r \in finished)
<1> USE DEF Resumes, KeyComputed, CacheMisses, CacheHits, StreamOpens, StreamEnds,
        SchemaArrives, FrameCreated, TaskIsDropped, AnalysisEnds, ExecutionFails,
        ProgressArrives, BatchArrives
<1>1. pc[q] # "done" /\ UNCHANGED <<nextId, kind, replaces, latest, refreshing, file>>
  BY DEF runVars, entryVars, cacheVars
<1>2. ASSUME NEW r \in Queries \ {q} PROVE pc'[r] = pc[r]
  BY <1>2 DEF Completes, Throws, TypeOK, ExecutorTypeOK
<1>3. ASSUME NEW r \in Queries \ {q}
      PROVE  /\ status'[r] = status[r]
             /\ (r \in active') = (r \in active) /\ (r \in finished') = (r \in finished)
  BY <1>3 DEF Completes, Throws, Moves, Registers, Progresses, Finishes, stateVars,
       TypeOK, StateTypeOK
<1>4. QED
  BY <1>1, <1>2, <1>3

\* The inductive step of CacheInv.
LEMMA CacheStep == TypeOK /\ CacheInv /\ [Next]_vars => CacheInv'
<1> SUFFICES ASSUME TypeOK, CacheInv, [Next]_vars PROVE CacheHoldsResults'
  BY ListStep DEF CacheInv
<1> USE DEF CacheHoldsResults, Known
<1>1. ASSUME UNCHANGED <<pc, active, finished, status>>, saving' \subseteq saving,
             file' \in saving \cup {file, NoQuery}
      PROVE  CacheHoldsResults'
  BY <1>1 DEF CacheInv
<1>2. CASE UNCHANGED vars
  BY <1>1, <1>2 DEF vars, stateVars, cacheVars
<1>3. ASSUME NEW k, NEW r, Starts(k, r), file' \in {file, NoQuery} PROVE CacheHoldsResults'
  <2>1. nextId \in Queries /\ pc[nextId] = "idle"
    BY <1>3, BoundsAssumption DEF Starts, TypeOK, ExecutorTypeOK, Queries, CacheInv, ListInv,
       Unissued
  <2>2. saving' = saving
    BY <1>3 DEF Starts
  <2>3. ASSUME NEW q \in Queries \ {nextId}
        PROVE  /\ pc'[q] = pc[q] /\ status'[q] = status[q]
               /\ (q \in active') = (q \in active) /\ (q \in finished') = (q \in finished)
    BY <1>3, <2>1, <2>3 DEF Starts, Registers, stateVars, TypeOK, ExecutorTypeOK, StateTypeOK
  <2>4. QED
    BY <1>3, <2>1, <2>2, <2>3 DEF CacheInv, TypeOK
<1>4. CASE RunEntry \/ RunCatalogQuery \/ RefreshContinues
  BY <1>3, <1>4 DEF RunEntry, RunCatalogQuery, RefreshContinues
<1>5. CASE RefreshEntry
  BY <1>1, <1>3, <1>5 DEF RefreshEntry, stateVars, cacheVars
<1>6. ASSUME NEW q \in Queries,
             Resumes(q) \/ ExecutionFails(q) \/ ProgressArrives(q) \/ BatchArrives(q)
      PROVE  CacheHoldsResults'
  <2>1. CASE saving' = saving
    BY <1>6, <2>1, OthersKept DEF CacheInv, TypeOK
  <2>2. CASE AnalysisEnds(q) /\ saving' = saving \cup {q} /\ Finishes(q, "SUCCEEDED")
    <3>1. q \notin finished
      BY <2>2 DEF AnalysisEnds, CacheInv, ListInv, KnownIsListed, FinishedHasEnded
    <3>2. pc'[q] = "done" /\ (q \in Known' => q \in finished' /\ status'[q] = "SUCCEEDED")
      BY <2>2, <3>1 DEF AnalysisEnds, Finishes, TypeOK, ExecutorTypeOK, StateTypeOK
    <3>3. QED
      BY <1>6, <2>2, <3>2, OthersKept DEF CacheInv, TypeOK
  <2>3. QED
    BY <1>6, <2>1, <2>2 DEF Resumes, KeyComputed, CacheMisses, CacheHits, StreamOpens,
       StreamEnds, SchemaArrives, FrameCreated, TaskIsDropped, AnalysisEnds, ExecutionFails,
       ProgressArrives, BatchArrives, cacheVars
<1>7. ASSUME NEW q \in Queries, Cancel(q) \/ SaveLands(q) \/ SaveIsLost(q)
      PROVE  CacheHoldsResults'
  BY <1>1, <1>7 DEF Cancel, SaveLands, SaveIsLost, stateVars, cacheVars
<1>8. CASE CacheEntryRemoved
  BY <1>1, <1>8 DEF CacheEntryRemoved, stateVars, cacheVars
<1>9. CASE ResetConnection \/ DeleteConnection
  BY <1>9 DEF ResetConnection, DeleteConnection, cacheVars, CacheInv
<1>10. QED
  BY <1>2, <1>4, <1>5, <1>6, <1>7, <1>8, <1>9 DEF Next

\* Only ended executions that succeeded are cached, over resets, deletions,
\* cancellations and late writes: no cached result is one cancelled or failed.
THEOREM OnlySuccessesAreCached == Spec => []CacheHoldsResults
<1>1. Init => CacheInv
  BY DEF Init, CacheInv, CacheHoldsResults, ListInv, Unissued, FinishedHasEnded, KnownIsListed,
     ActiveIsRunning
<1>2. CacheInv => CacheHoldsResults
  BY DEF CacheInv
<1>3. QED
  BY <1>1, <1>2, CacheStep, QueryTypes, PTL DEF Spec

-----------------------------------------------------------------------------
(* The computation of the latest execution                                  *)

\* The executions of the entry: the latest is the newest of the notebook's, only
\* those are cached and analyzed, and an execution replaces an earlier one.
EntryInv ==
    /\ latest < nextId /\ refreshing < nextId
    /\ \A q \in Queries : replaces[q] < q
    /\ \A q \in Queries : kind[q] = "notebook" => q <= latest
    /\ latest # NoQuery => kind[latest] = "notebook"
    /\ \A q \in Queries :
           pc[q] \in {"key", "read", "frame", "tasks"} => kind[q] = "notebook"

\* The latest execution's computation is there from its registration on.
AnalyzedHasComputation ==
    latest # NoQuery /\ (pc[latest] \in {"frame", "tasks"} \/ status[latest] = "SUCCEEDED")
        => latest \in computations

LatestInv == Unissued /\ EntryInv /\ AnalyzedHasComputation

\* A new execution of the entry or of another kind.
LEMMA StartKeepsLatest ==
    ASSUME TypeOK, LatestInv, NEW k \in {"notebook", "catalog"},
           NEW r \in Queries \cup {NoQuery}, Starts(k, r), r < nextId,
           latest' = IF k = "notebook" THEN nextId ELSE latest,
           refreshing' \in {refreshing, NoQuery}
    PROVE  EntryInv' /\ AnalyzedHasComputation'
<1>1. nextId \in Queries /\ nextId' = nextId + 1 /\ nextId # NoQuery
  BY BoundsAssumption DEF Starts, TypeOK, ExecutorTypeOK, Queries, NoQuery
<1>2. pc[nextId] = "idle" /\ status[nextId] = "NONE"
  BY <1>1 DEF LatestInv, Unissued, Queries
<1>3. latest \in Nat /\ refreshing \in Nat /\ latest < nextId /\ refreshing < nextId
  BY DEF TypeOK, ExecutorTypeOK, Queries, NoQuery, LatestInv, EntryInv
<1>4. /\ kind' = [kind EXCEPT ![nextId] = k] /\ replaces' = [replaces EXCEPT ![nextId] = r]
      /\ computations' = computations
  BY DEF Starts, computeVars
<1>5. /\ \E p \in {"done", "key", "start"} : pc' = [pc EXCEPT ![nextId] = p]
      /\ k = "notebook" => status' = status
      /\ k = "catalog" => pc'[nextId] \in {"done", "start"}
  BY <1>1 DEF Starts, stateVars, TypeOK, ExecutorTypeOK
<1>6. \A q \in Queries \ {nextId} : /\ pc'[q] = pc[q] /\ status'[q] = status[q]
                                    /\ kind'[q] = kind[q] /\ replaces'[q] = replaces[q]
  BY <1>1, <1>4, <1>5 DEF Starts, Registers, stateVars, TypeOK, ExecutorTypeOK, StateTypeOK
<1>7. EntryInv'
  <2>1. latest' < nextId' /\ refreshing' < nextId'
    BY <1>1, <1>3 DEF NoQuery, Queries
  <2>2. \A q \in Queries : replaces'[q] < q
    BY <1>1, <1>4, <1>6 DEF LatestInv, EntryInv, TypeOK, ExecutorTypeOK
  <2>3. kind'[nextId] = k
    BY <1>1, <1>4 DEF TypeOK, ExecutorTypeOK
  <2>4. \A q \in Queries : kind'[q] = "notebook" => q <= latest'
    BY <1>1, <1>3, <1>6, <2>3 DEF LatestInv, EntryInv, Queries
  <2>5. latest' # NoQuery => kind'[latest'] = "notebook"
    <3>1. CASE k = "notebook"
      BY <2>3, <3>1
    <3>2. CASE k = "catalog"
      BY <1>3, <1>6, <3>2 DEF TypeOK, ExecutorTypeOK, LatestInv, EntryInv
    <3>3. QED
      BY <3>1, <3>2
  <2>6. \A q \in Queries : pc'[q] \in {"key", "read", "frame", "tasks"} => kind'[q] = "notebook"
    BY <1>1, <1>5, <1>6, <2>3 DEF LatestInv, EntryInv
  <2>7. QED
    BY <2>1, <2>2, <2>4, <2>5, <2>6 DEF EntryInv
<1>8. AnalyzedHasComputation'
  <2>1. CASE k = "notebook"
    BY <1>1, <1>2, <1>5, <2>1 DEF AnalyzedHasComputation, TypeOK, ExecutorTypeOK
  <2>2. CASE k = "catalog"
    BY <1>3, <1>4, <1>6, <2>2 DEF AnalyzedHasComputation, LatestInv, TypeOK, ExecutorTypeOK
  <2>3. QED
    BY <2>1, <2>2
<1>9. QED
  BY <1>7, <1>8

\* The steps of an execution under way.
LEMMA ResumeKeepsLatest ==
    ASSUME TypeOK, LatestInv, NEW q \in Queries,
           Resumes(q) \/ ExecutionFails(q) \/ ProgressArrives(q) \/ BatchArrives(q)
    PROVE  EntryInv' /\ AnalyzedHasComputation'
<1> USE DEF Resumes, KeyComputed, CacheMisses, CacheHits, StreamOpens, StreamEnds,
        SchemaArrives, FrameCreated, TaskIsDropped, AnalysisEnds, ExecutionFails,
        ProgressArrives, BatchArrives
<1>1. /\ UNCHANGED <<nextId, kind, replaces, latest, refreshing>>
      /\ \A r \in Queries \ {q} : pc'[r] = pc[r] /\ status'[r] = status[r]
  BY OthersKept
<1>2. pc'[q] \in {"key", "read", "frame", "tasks"} => kind[q] = "notebook"
  BY DEF Completes, Throws, LatestInv, EntryInv, TypeOK, ExecutorTypeOK
<1>3. EntryInv'
  BY <1>1, <1>2 DEF LatestInv, EntryInv
<1>4. \/ computations' = computations
      \/ kind[q] = "notebook" /\ computations' = (computations \ {replaces[q]}) \cup {q}
  BY DEF Completes, LatestInv, EntryInv, computeVars
<1>5. CASE latest # NoQuery /\ latest # q
  <2>1. latest \in Queries
    BY <1>5 DEF TypeOK, ExecutorTypeOK
  <2>2. kind[q] = "notebook" => replaces[q] # latest
    BY <2>1 DEF LatestInv, EntryInv, TypeOK, ExecutorTypeOK, Queries, NoQuery
  <2>3. latest \in computations => latest \in computations'
    BY <1>4, <2>2
  <2>4. QED
    BY <1>1, <1>3, <1>5, <2>1, <2>3 DEF AnalyzedHasComputation, LatestInv
<1>6. CASE latest = q
  <2>1. kind[q] = "notebook" /\ (q \in computations => q \in computations')
    BY <1>4, <1>6 DEF LatestInv, EntryInv, TypeOK, ExecutorTypeOK, Queries, NoQuery
  <2>2. pc'[q] \in {"frame", "tasks"} => pc[q] = "frame" \/ q \in computations'
    BY <2>1 DEF Completes, Throws, TypeOK, ExecutorTypeOK
  <2>3. status'[q] = "SUCCEEDED" => status[q] = "SUCCEEDED" \/ pc[q] = "tasks"
    BY <2>1 DEF Completes, Throws, Moves, Registers, Progresses, Finishes, stateVars,
         TypeOK, StateTypeOK
  <2>4. QED
    BY <1>1, <1>3, <1>6, <2>1, <2>2, <2>3 DEF AnalyzedHasComputation, LatestInv
<1>7. QED
  BY <1>1, <1>3, <1>5, <1>6 DEF AnalyzedHasComputation

\* The inductive step of LatestInv.
LEMMA LatestStep == TypeOK /\ ListInv /\ LatestInv /\ [Next]_vars => LatestInv'
<1> SUFFICES ASSUME TypeOK, ListInv, LatestInv, [Next]_vars
             PROVE  EntryInv' /\ AnalyzedHasComputation'
  BY ListStep DEF LatestInv, ListInv
<1>1. ASSUME UNCHANGED <<nextId, pc, kind, replaces, latest, status, computations>>,
             refreshing' \in {refreshing, latest}
      PROVE  EntryInv' /\ AnalyzedHasComputation'
  BY <1>1 DEF LatestInv, EntryInv, AnalyzedHasComputation
<1>2. CASE UNCHANGED vars
  BY <1>1, <1>2 DEF vars, runVars, entryVars, stateVars, computeVars
<1>3. CASE RunEntry \/ RunCatalogQuery \/ RefreshContinues
  <2>1. latest < nextId /\ refreshing < nextId /\ NoQuery < nextId
    BY BoundsAssumption DEF LatestInv, EntryInv, TypeOK, ExecutorTypeOK, NoQuery
  <2>2. latest \in Queries \cup {NoQuery} /\ refreshing \in Queries \cup {NoQuery}
    BY DEF TypeOK, ExecutorTypeOK
  <2>3. QED
    BY <1>3, <2>1, <2>2, StartKeepsLatest DEF RunEntry, RunCatalogQuery, RefreshContinues,
       entryVars
<1>4. CASE RefreshEntry
  <2>1. latest < nextId /\ latest \in Queries \cup {NoQuery}
    BY DEF LatestInv, EntryInv, TypeOK, ExecutorTypeOK
  <2>2. QED
    BY <1>1, <1>4, <2>1, StartKeepsLatest DEF RefreshEntry, runVars, stateVars, computeVars
<1>5. ASSUME NEW q \in Queries,
             Resumes(q) \/ ExecutionFails(q) \/ ProgressArrives(q) \/ BatchArrives(q)
      PROVE  EntryInv' /\ AnalyzedHasComputation'
  BY <1>5, ResumeKeepsLatest
<1>6. ASSUME NEW q \in Queries, Cancel(q) \/ SaveLands(q) \/ SaveIsLost(q)
      PROVE  EntryInv' /\ AnalyzedHasComputation'
  BY <1>1, <1>6 DEF Cancel, SaveLands, SaveIsLost, runVars, entryVars, stateVars, computeVars
<1>7. CASE CacheEntryRemoved \/ ResetConnection \/ DeleteConnection
  BY <1>1, <1>7 DEF CacheEntryRemoved, ResetConnection, DeleteConnection, runVars,
     entryVars, stateVars, computeVars
<1>8. QED
  BY <1>2, <1>3, <1>4, <1>5, <1>6, <1>7 DEF Next

\* The result of the entry's latest execution has its computation, however the
\* executions of the entry overlap and retire each other's computations.
THEOREM LatestIsComputed == Spec => []LatestHasComputation
<1>1. Init => ListInv /\ LatestInv
  BY BoundsAssumption DEF Init, ListInv, LatestInv, Unissued, FinishedHasEnded, KnownIsListed,
     ActiveIsRunning, EntryInv, AnalyzedHasComputation, Queries, NoQuery
<1>2. LatestInv => LatestHasComputation
  BY DEF LatestInv, AnalyzedHasComputation, LatestHasComputation
<1>3. QED
  BY <1>1, <1>2, ListStep, LatestStep, QueryTypes, PTL DEF Spec

-----------------------------------------------------------------------------
(* Cancellation                                                             *)

\* A cancelled notebook query does not become a success in any step.
THEOREM CancelledNeverSucceeds == Spec => CancelPrevails
<1>1. TypeOK /\ [Next]_vars =>
          [\A q \in aborted :
               kind[q] = "notebook" /\ status[q] # "SUCCEEDED" => status'[q] # "SUCCEEDED"]_vars
  <2> SUFFICES ASSUME TypeOK, Next, NEW r \in aborted, kind[r] = "notebook",
                      status[r] # "SUCCEEDED"
               PROVE  status'[r] # "SUCCEEDED"
    OBVIOUS
  <2>1. r \in Queries
    BY DEF TypeOK, ExecutorTypeOK
  <2>2. ASSUME NEW k, NEW o, Starts(k, o) PROVE status'[r] # "SUCCEEDED"
    BY <2>1, <2>2 DEF Starts, Registers, stateVars, TypeOK, StateTypeOK
  <2>3. CASE RunEntry \/ RunCatalogQuery \/ RefreshEntry \/ RefreshContinues
    BY <2>2, <2>3 DEF RunEntry, RunCatalogQuery, RefreshEntry, RefreshContinues, stateVars
  <2>4. ASSUME NEW q \in Queries,
               Resumes(q) \/ ExecutionFails(q) \/ ProgressArrives(q) \/ BatchArrives(q)
        PROVE  status'[r] # "SUCCEEDED"
    <3>1. CASE r # q
      BY <2>1, <2>4, <3>1, OthersKept
    <3>2. CASE r = q
      BY <2>4, <3>2 DEF Resumes, KeyComputed, CacheMisses, CacheHits, StreamOpens, StreamEnds,
         SchemaArrives, FrameCreated, TaskIsDropped, AnalysisEnds, ExecutionFails,
         ProgressArrives, BatchArrives, Completes, Throws, Moves, Registers, Progresses,
         Finishes, stateVars, TypeOK, StateTypeOK
    <3>3. QED
      BY <3>1, <3>2
  <2>5. ASSUME NEW q \in Queries, Cancel(q) \/ SaveLands(q) \/ SaveIsLost(q)
        PROVE  status'[r] # "SUCCEEDED"
    BY <2>5 DEF Cancel, SaveLands, SaveIsLost, stateVars
  <2>6. CASE CacheEntryRemoved \/ ResetConnection \/ DeleteConnection
    BY <2>6 DEF CacheEntryRemoved, ResetConnection, DeleteConnection, stateVars
  <2>7. QED
    BY <2>3, <2>4, <2>5, <2>6 DEF Next
<1>2. QED
  BY <1>1, QueryTypes, PTL DEF Spec, CancelPrevails

-----------------------------------------------------------------------------
(* The order of the statuses                                                *)

\* The furthest rank that a query may have while its execution waits at p.
Reached(p) ==
    CASE p \in {"idle", "key"} -> 0 [] p = "read" -> 1 [] p = "start" -> 2
      [] p \in {"produce", "schema"} -> 5 [] p \in {"frame", "tasks", "stuck"} -> 7
      [] p = "done" -> 8

RankInv == \A q \in Queries : Rank(status[q]) <= Reached(pc[q])

\* Ranks are numbers up to 8, the bounds of the points where an execution waits too.
LEMMA RankTypes ==
    /\ \A s \in Statuses : Rank(s) \in 0 .. 8
    /\ \A p \in Points : Reached(p) \in 0 .. 8
<1>1. \A s \in Statuses : Rank(s) \in 0 .. 8
  BY DEF Rank, Statuses, Final
<1>2. \A p \in Points : Reached(p) \in 0 .. 8
  BY DEF Reached, Points
<1>3. QED
  BY <1>1, <1>2

\* A step of one execution sets its status within the two bounds.
LEMMA StepMovesForward ==
    ASSUME TypeOK, RankInv, NEW q \in Queries,
           Resumes(q) \/ ExecutionFails(q) \/ ProgressArrives(q) \/ BatchArrives(q)
    PROVE  Rank(status[q]) <= Rank(status'[q]) /\ Rank(status'[q]) <= Reached(pc'[q])
<1> DEFINE Goes(p, s, r) == /\ pc[q] \in p /\ pc'[q] \in r
                            /\ status'[q] = status[q] \/ status'[q] \in s
<1> USE DEF Moves, Registers, TypeOK, ExecutorTypeOK, StateTypeOK
<1>1. \/ Goes({"key"}, {"REQUESTED"}, {"read"}) \/ Goes({"key"}, {"SENDING"}, {"start"})
      \/ Goes({"read"}, {"SENDING"}, {"start"})
      \/ Goes({"read", "produce", "schema"}, {"PROCESSING_RESULTS"}, {"frame"})
      \/ Goes({"start"}, {"RUNNING"}, {"produce"}) \/ Goes({"produce"}, {}, {"schema"})
      \/ Goes({"produce"}, {"RECEIVED_FIRST_BATCH"}, {"produce"})
      \/ Goes({"produce"}, {}, {"produce"})
      \/ status[q] = "SENDING" /\ Goes({"produce"}, {"QUEUED"}, {"produce"})
      \/ Goes({"frame"}, {}, {"frame", "tasks"}) \/ Goes({"tasks"}, {}, {"stuck"})
      \/ Goes(Points \ {"done"}, Final, {"done"})
  <2> USE DEF Finishes, Completes, stateVars, Final, Points
  <2>1. CASE KeyComputed(q)
    BY <2>1 DEF KeyComputed
  <2>2. CASE CacheMisses(q)
    BY <2>2 DEF CacheMisses
  <2>3. CASE CacheHits(q)
    BY <2>3 DEF CacheHits
  <2>4. CASE StreamOpens(q)
    BY <2>4 DEF StreamOpens
  <2>5. CASE StreamEnds(q)
    BY <2>5 DEF StreamEnds
  <2>6. CASE SchemaArrives(q)
    BY <2>6 DEF SchemaArrives
  <2>7. CASE FrameCreated(q)
    BY <2>7 DEF FrameCreated
  <2>8. CASE TaskIsDropped(q)
    BY <2>8 DEF TaskIsDropped
  <2>9. CASE AnalysisEnds(q)
    BY <2>9 DEF AnalysisEnds
  <2>10. CASE ExecutionFails(q)
    BY <2>10 DEF ExecutionFails, Throws
  <2>11. CASE ProgressArrives(q)
    BY <2>11 DEF ProgressArrives, Progresses
  <2>12. CASE BatchArrives(q)
    BY <2>12 DEF BatchArrives
  <2>13. QED
    BY <2>1, <2>2, <2>3, <2>4, <2>5, <2>6, <2>7, <2>8, <2>9, <2>10, <2>11, <2>12 DEF Resumes
<1>2. /\ Rank(status[q]) \in 0 .. 8 /\ Rank(status[q]) <= Reached(pc[q])
      /\ pc[q] \in Points
  BY RankTypes DEF RankInv
<1>3. /\ Rank("REQUESTED") = 1 /\ Rank("SENDING") = 2 /\ Rank("QUEUED") = 3
      /\ Rank("RUNNING") = 4 /\ Rank("RECEIVED_FIRST_BATCH") = 5
      /\ Rank("PROCESSING_RESULTS") = 7 /\ \A s \in Final : Rank(s) = 8
  BY DEF Rank, Final
<1>4. /\ Reached("key") = 0 /\ Reached("read") = 1 /\ Reached("start") = 2
      /\ Reached("produce") = 5 /\ Reached("schema") = 5 /\ Reached("frame") = 7
      /\ Reached("tasks") = 7 /\ Reached("stuck") = 7 /\ Reached("done") = 8
  BY DEF Reached
<1>5. CASE Goes(Points \ {"done"}, Final, {"done"})
  BY <1>2, <1>3, <1>4, <1>5
<1>6. CASE ~Goes(Points \ {"done"}, Final, {"done"})
  BY <1>1, <1>2, <1>3, <1>4, <1>6
<1>7. QED
  BY <1>5, <1>6

\* The inductive step: every status moves forward, and stays within its bound.
LEMMA RankStep ==
    TypeOK /\ ListInv /\ RankInv /\ [Next]_vars =>
        RankInv' /\ [\A q \in Queries : Rank(status[q]) <= Rank(status'[q])]_vars
<1> SUFFICES ASSUME TypeOK, ListInv, RankInv, [Next]_vars, NEW q \in Queries
             PROVE  Rank(status[q]) <= Rank(status'[q]) /\ Rank(status'[q]) <= Reached(pc'[q])
  BY DEF RankInv
<1>1. /\ Rank(status[q]) \in 0 .. 8 /\ Rank(status[q]) <= Reached(pc[q])
      /\ Reached(pc[q]) \in 0 .. 8
  BY RankTypes DEF RankInv, TypeOK, ExecutorTypeOK, StateTypeOK
<1>2. CASE UNCHANGED <<pc, status>>
  BY <1>1, <1>2
<1>3. ASSUME NEW k, NEW r, Starts(k, r)
      PROVE  Rank(status[q]) <= Rank(status'[q]) /\ Rank(status'[q]) <= Reached(pc'[q])
  <2>1. CASE q = nextId
    <3>1. status[q] = "NONE"
      BY <2>1 DEF ListInv, Unissued, TypeOK, ExecutorTypeOK, Queries
    <3>2. \/ status'[q] = status[q] /\ pc'[q] \in {"key", "done"}
          \/ status'[q] \in {status[q], "SENDING"} /\ pc'[q] = "start"
      BY <1>3, <2>1 DEF Starts, Registers, stateVars, TypeOK, ExecutorTypeOK, StateTypeOK
    <3>3. QED
      BY <3>1, <3>2 DEF Rank, Reached, Final
  <2>2. CASE q # nextId
    <3>1. status'[q] = status[q] /\ pc'[q] = pc[q]
      BY <1>3, <2>2 DEF Starts, Registers, stateVars, TypeOK, ExecutorTypeOK, StateTypeOK
    <3>2. QED
      BY <1>1, <3>1
  <2>3. QED
    BY <2>1, <2>2
<1>4. CASE RunEntry \/ RunCatalogQuery \/ RefreshEntry \/ RefreshContinues
  BY <1>2, <1>3, <1>4 DEF RunEntry, RunCatalogQuery, RefreshEntry, RefreshContinues, stateVars
<1>5. ASSUME NEW r \in Queries,
             Resumes(r) \/ ExecutionFails(r) \/ ProgressArrives(r) \/ BatchArrives(r)
      PROVE  Rank(status[q]) <= Rank(status'[q]) /\ Rank(status'[q]) <= Reached(pc'[q])
  <2>1. CASE q = r
    BY <1>5, <2>1, StepMovesForward
  <2>2. CASE q # r
    <3>1. status'[q] = status[q] /\ pc'[q] = pc[q]
      BY <1>5, <2>2, OthersKept
    <3>2. QED
      BY <1>1, <3>1
  <2>3. QED
    BY <2>1, <2>2
<1>6. ASSUME NEW r \in Queries, Cancel(r) \/ SaveLands(r) \/ SaveIsLost(r)
      PROVE  UNCHANGED <<pc, status>>
  BY <1>6 DEF Cancel, SaveLands, SaveIsLost, stateVars
<1>7. CASE CacheEntryRemoved \/ ResetConnection \/ DeleteConnection \/ UNCHANGED vars
  BY <1>2, <1>7 DEF CacheEntryRemoved, ResetConnection, DeleteConnection, stateVars, vars
<1>8. QED
  BY <1>2, <1>4, <1>5, <1>6, <1>7 DEF Next

\* No action, however late it arrives, sets a query back to an earlier status.
THEOREM StatusesMoveForward == Spec => StatusMovesForward
<1>1. Init => ListInv /\ RankInv
  BY DEF Init, ListInv, Unissued, FinishedHasEnded, KnownIsListed, ActiveIsRunning, RankInv,
     Rank, Reached, Final
<1>2. QED
  BY <1>1, ListStep, RankStep, QueryTypes, PTL DEF Spec, StatusMovesForward

-----------------------------------------------------------------------------
(* The outcome counters                                                     *)

With(s) == {q \in finished : status[q] = s}

CountInv == ListInv /\ TallyMatches

\* QUERY_SUCCEEDED, QUERY_FAILED or QUERY_CANCELLED counts an active query once.
LEMMA FinishCounts ==
    ASSUME TypeOK, CountInv, NEW q \in Queries, NEW s \in Final, Finishes(q, s), q \in active
    PROVE  TallyMatches'
<1>1. q \notin finished
  BY DEF CountInv, ListInv, KnownIsListed
<1>2. finished' = finished \cup {q} /\ \A r \in finished : status'[r] = status[r]
  BY <1>1 DEF Finishes, TypeOK, StateTypeOK
<1>3. status'[q] = s
  BY DEF Finishes, TypeOK, StateTypeOK
<1>4. ASSUME NEW o \in Final PROVE tally'[o] = Cardinality(With(o)')
  <2>1. IsFiniteSet(With(o))
    <3>1. IsFiniteSet(Queries)
      BY BoundsAssumption, FS_Interval DEF Queries
    <3>2. With(o) \subseteq Queries
      BY DEF With, TypeOK, StateTypeOK
    <3>3. QED
      BY <3>1, <3>2, FS_Subset
  <2>2. tally[o] = Cardinality(With(o)) /\ tally[o] \in Nat
    BY DEF CountInv, TallyMatches, With, TypeOK, StateTypeOK
  <2>3. CASE o = s
    <3>1. With(o)' = With(o) \cup {q} /\ q \notin With(o)
      BY <1>1, <1>2, <1>3, <2>3 DEF With
    <3>2. Cardinality(With(o)') = Cardinality(With(o)) + 1
      BY <2>1, <3>1, FS_AddElement
    <3>3. tally'[o] = tally[o] + 1
      BY <2>3 DEF Finishes, TypeOK, StateTypeOK
    <3>4. QED
      BY <2>2, <3>2, <3>3
  <2>4. CASE o # s
    <3>1. With(o)' = With(o)
      BY <1>1, <1>2, <1>3, <2>4 DEF With
    <3>2. tally'[o] = tally[o]
      BY <2>4 DEF Finishes, TypeOK, StateTypeOK
    <3>3. QED
      BY <2>2, <3>1, <3>2
  <2>5. QED
    BY <2>3, <2>4
<1>5. QED
  BY <1>4 DEF TallyMatches, With

\* A query that is not finished may change its status without being counted.
LEMMA CountKept ==
    ASSUME CountInv, UNCHANGED <<finished, tally>>,
           \A r \in finished : status'[r] = status[r]
    PROVE  TallyMatches'
<1>1. \A s \in Final : With(s)' = With(s)
  BY DEF With
<1>2. QED
  BY <1>1 DEF CountInv, TallyMatches, With

\* The inductive step of CountInv.
LEMMA CountStep == TypeOK /\ CountInv /\ [Next]_vars => CountInv'
<1> SUFFICES ASSUME TypeOK, CountInv, [Next]_vars PROVE TallyMatches'
  BY ListStep DEF CountInv
<1>1. \A q \in active : q \notin finished
  BY DEF CountInv, ListInv, KnownIsListed
<1>2. CASE UNCHANGED <<finished, tally, status>>
  BY <1>2, CountKept
<1>3. ASSUME NEW k, NEW r, Starts(k, r) PROVE TallyMatches'
  <2>1. nextId \notin finished
    BY DEF CountInv, ListInv, KnownIsListed, FinishedHasEnded, Unissued, TypeOK, ExecutorTypeOK,
       StateTypeOK, Queries
  <2>2. QED
    BY <1>3, <2>1, CountKept DEF Starts, Registers, stateVars, TypeOK, StateTypeOK
<1>4. CASE RunEntry \/ RunCatalogQuery \/ RefreshEntry \/ RefreshContinues
  BY <1>2, <1>3, <1>4 DEF RunEntry, RunCatalogQuery, RefreshEntry, RefreshContinues, stateVars
<1>5. ASSUME NEW q \in Queries,
             Resumes(q) \/ ExecutionFails(q) \/ ProgressArrives(q) \/ BatchArrives(q)
      PROVE  TallyMatches'
  <2>1. q \notin finished
    BY <1>5, OthersKept DEF CountInv, ListInv, KnownIsListed, FinishedHasEnded
  <2>2. CASE UNCHANGED <<finished, tally>>
    BY <1>5, <2>1, <2>2, OthersKept, CountKept DEF TypeOK, StateTypeOK
  <2>3. CASE \E s \in Final : Finishes(q, s)
    BY <2>2, <2>3, FinishCounts DEF Finishes
  <2>4. QED
    BY <1>5, <2>2, <2>3 DEF Resumes, KeyComputed, CacheMisses, CacheHits, StreamOpens, StreamEnds,
       SchemaArrives, FrameCreated, TaskIsDropped, AnalysisEnds, ExecutionFails, ProgressArrives,
       BatchArrives, Completes, Throws, Moves, Registers, Progresses, stateVars, Final
<1>6. ASSUME NEW q \in Queries, Cancel(q) \/ SaveLands(q) \/ SaveIsLost(q)
      PROVE  UNCHANGED <<finished, tally, status>>
  BY <1>6 DEF Cancel, SaveLands, SaveIsLost, stateVars
<1>7. CASE ResetConnection \/ DeleteConnection
  <2>1. finished' = {} /\ \A s \in Final : tally'[s] = 0
    BY <1>7 DEF ResetConnection, DeleteConnection
  <2>2. \A s \in Final : With(s)' = {}
    BY <2>1 DEF With
  <2>3. QED
    BY <2>1, <2>2, FS_EmptySet DEF TallyMatches, With
<1>8. CASE CacheEntryRemoved \/ UNCHANGED vars
  BY <1>2, <1>8 DEF CacheEntryRemoved, stateVars, vars
<1>9. QED
  BY <1>2, <1>4, <1>5, <1>6, <1>7, <1>8 DEF Next

\* Every finished query is counted once, under its outcome.
THEOREM OutcomesAreCounted == Spec => []TallyMatches
<1>1. Init => CountInv
  <2> SUFFICES ASSUME Init PROVE CountInv
    OBVIOUS
  <2>1. ListInv
    BY DEF Init, ListInv, Unissued, FinishedHasEnded, KnownIsListed, ActiveIsRunning
  <2>2. \A s \in Final : tally[s] = 0 /\ With(s) = {}
    BY DEF Init, With
  <2>3. QED
    BY <2>1, <2>2, FS_EmptySet DEF CountInv, TallyMatches, With
<1>2. CountInv => TallyMatches
  BY DEF CountInv
<1>3. QED
  BY <1>1, <1>2, CountStep, QueryTypes, PTL DEF Spec
=============================================================================
