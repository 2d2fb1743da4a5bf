------------------------- MODULE NotebookSyncProofs -------------------------
(***************************************************************************)
(* Theorems about the writer and about its composition with the reload     *)
(* loop, for all constants.  The first part is about StorageWriter on its  *)
(* own: what the debounced writer guarantees for every set of keys,        *)
(* notebooks and concurrent relocations.  The second part is about         *)
(* NotebookSync: the composition is an implementation of the writer, so    *)
(* that the first part holds of it; and the reload loop holds, reads and   *)
(* discards the way the design of the native synchronisation promises.     *)
(***************************************************************************)
EXTENDS NotebookSync, WellFoundedInduction, TLAPS

-----------------------------------------------------------------------------
(* The writer                                                              *)

\* One visit of flush(): k is started and rest is left on its list.
VisitOf(r, k, rest, tm) ==
    /\ pc' = [pc EXCEPT ![r] = "flushing"]
    /\ flushKeys' = [flushKeys EXCEPT ![r] = rest]
    /\ awaited' = [awaited EXCEPT ![r] = [key |-> k, gen |-> pending[k]]]
    /\ disturbed' = (disturbed \cup PastFlush(r)) \ {r}
    /\ StartTask(k, tm \ {k}, stray)

\* The pending keys that flush() has not visited yet stay on its list.
LEMMA FlushVisitsOne ==
    ASSUME NEW r, NEW keys \in SUBSET Keys, NEW tm, FlushVisits(r, keys, tm)
    PROVE  \E k \in keys, rest \in SUBSET keys :
               /\ IsPending(k)
               /\ \A j \in keys \ {k} : IsPending(j) => j \in rest
               /\ VisitOf(r, k, rest, tm)
<1>1. PICK k \in keys, skipped \in SUBSET keys :
        /\ IsPending(k)
        /\ \A j \in skipped : ~IsPending(j)
        /\ VisitOf(r, k, keys \ (skipped \cup {k}), tm)
  BY Zenon DEF FlushVisits, VisitOf
<1>2. WITNESS k \in keys, keys \ (skipped \cup {k}) \in SUBSET keys
<1>3. QED
  BY <1>1

\* The steps of flush() keep the types of what they assign.
LEMMA FlushVisitsType ==
    ASSUME TypeOK, NEW r \in Relocators, NEW keys \in SUBSET Keys,
           NEW tm \in SUBSET Keys, FlushVisits(r, keys, tm)
    PROVE  /\ pending' \in [Keys -> Gens \cup {NoTask}]
           /\ armed' \subseteq Keys
           /\ stray' \in [Keys -> Nat]
           /\ running' \subseteq Executions
           /\ pc' \in [Relocators -> {"idle", "flushing", "draining", "copying", "reloaded"}]
           /\ flushKeys' \in [Relocators -> SUBSET Keys]
           /\ awaited' \in [Relocators -> Executions \cup {NoExecution}]
           /\ disturbed' \subseteq Relocators
<1>1. PICK k \in keys, rest \in SUBSET keys : IsPending(k) /\ VisitOf(r, k, rest, tm)
  BY FlushVisitsOne
<1> USE DEF TypeOK, WriterTypeOK, RelocationTypeOK, VisitOf, StartTask
<1>2. [key |-> k, gen |-> pending[k]] \in Executions
  BY <1>1 DEF IsPending, Executions
<1>3. pending' \in [Keys -> Gens \cup {NoTask}] /\ armed' \subseteq Keys /\ stray' \in [Keys -> Nat]
  <2>1. stray' = stray
    BY <1>1
  <2>2. QED
    BY <1>1, <2>1
<1>4. running' \subseteq Executions /\ awaited' \in [Relocators -> Executions \cup {NoExecution}]
  BY <1>1, <1>2
<1>5. disturbed' \subseteq Relocators
  BY <1>1 DEF PastFlush
<1>6. QED
  BY <1>1, <1>3, <1>4, <1>5

LEMMA FlushEndsType ==
    ASSUME TypeOK, NEW r \in Relocators, NEW keys, NEW tm \in SUBSET Keys,
           FlushEnds(r, keys, tm)
    PROVE  /\ pending' \in [Keys -> Gens \cup {NoTask}]
           /\ armed' \subseteq Keys
           /\ stray' \in [Keys -> Nat]
           /\ running' \subseteq Executions
           /\ paused' \in BOOLEAN
           /\ pc' \in [Relocators -> {"idle", "flushing", "draining", "copying", "reloaded"}]
           /\ flushKeys' \in [Relocators -> SUBSET Keys]
           /\ awaited' \in [Relocators -> Executions \cup {NoExecution}]
           /\ disturbed' \subseteq Relocators
<1> USE DEF TypeOK, WriterTypeOK, RelocationTypeOK, FlushEnds
<1>1. paused' \in BOOLEAN
  OBVIOUS
<1>2. QED
  BY <1>1

\* Type correctness of the writer, its timers and the relocations that flush it.
THEOREM TypeCorrect == Spec => []TypeOK
<1> USE BoundsAssumption, KeysAssumption DEF Gens, NoTask, Executions
<1>1. Init => TypeOK
  <2>1. Init => WriterTypeOK
    <3>1. Init => paused \in BOOLEAN
      BY DEF Init
    <3>2. QED
      BY <3>1 DEF Init, WriterTypeOK
  <2>2. Init => RelocationTypeOK
    BY DEF Init, RelocationTypeOK
  <2>3. QED
    BY <2>1, <2>2 DEF Init, TypeOK
<1>2. TypeOK /\ [Next]_vars => TypeOK'
  <2> SUFFICES ASSUME TypeOK, [Next]_vars PROVE TypeOK'
    OBVIOUS
  <2>1. ASSUME NEW k \in Keys, Write(k) PROVE TypeOK'
    BY <2>1 DEF TypeOK, WriterTypeOK, RelocationTypeOK, Write, flushVars
  <2>2. ASSUME NEW k \in Keys, TimerFires(k) PROVE TypeOK'
    <3>1. stray' \in [Keys -> Nat]
      BY <2>2 DEF TypeOK, WriterTypeOK, TimerFires, ProcessTask, StartTask, IsPending, Held, flushVars, genVars
    <3>2. WriterTypeOK'
      <4>1. pending' \in [Keys -> Gens \cup {NoTask}] /\ armed' \subseteq Keys
        BY <2>2 DEF TypeOK, WriterTypeOK, TimerFires, ProcessTask, StartTask
      <4>2. running' \subseteq Executions
        BY <2>2 DEF TypeOK, WriterTypeOK, TimerFires, ProcessTask, StartTask, IsPending
      <4>3. UNCHANGED <<paused, held, promise, keyGen, nextGen>>
        BY <2>2 DEF TimerFires, genVars
      <4>4. QED
        BY <3>1, <4>1, <4>2, <4>3 DEF TypeOK, WriterTypeOK
    <3>3. RelocationTypeOK'
      BY <2>2 DEF TypeOK, WriterTypeOK, RelocationTypeOK, TimerFires, ProcessTask, StartTask, IsPending, Held, flushVars, genVars
    <3>4. QED
      BY <2>2, <3>2, <3>3 DEF TypeOK, TimerFires, ProcessTask, StartTask, IsPending, Held, flushVars, genVars
  <2>3. ASSUME NEW k \in Keys, StrayTimerFires(k) PROVE TypeOK'
    <3>1. stray' \in [Keys -> Nat]
      BY <2>3 DEF TypeOK, WriterTypeOK, StrayTimerFires, ProcessTask, StartTask, IsPending, Held, flushVars, genVars
    <3>2. WriterTypeOK'
      <4>1. pending' \in [Keys -> Gens \cup {NoTask}] /\ armed' \subseteq Keys
        BY <2>3 DEF TypeOK, WriterTypeOK, StrayTimerFires, ProcessTask, StartTask
      <4>2. running' \subseteq Executions
        BY <2>3 DEF TypeOK, WriterTypeOK, StrayTimerFires, ProcessTask, StartTask, IsPending
      <4>3. UNCHANGED <<paused, held, promise, keyGen, nextGen>>
        BY <2>3 DEF StrayTimerFires, genVars
      <4>4. QED
        BY <3>1, <4>1, <4>2, <4>3 DEF TypeOK, WriterTypeOK
    <3>3. RelocationTypeOK'
      BY <2>3 DEF TypeOK, WriterTypeOK, RelocationTypeOK, StrayTimerFires, ProcessTask, StartTask, IsPending, Held, flushVars, genVars
    <3>4. QED
      BY <2>3, <3>2, <3>3 DEF TypeOK, StrayTimerFires, ProcessTask, StartTask, IsPending, Held, flushVars, genVars
  <2>4. ASSUME NEW e \in running, ExecutionSucceeds(e) PROVE TypeOK'
    BY <2>4 DEF TypeOK, WriterTypeOK, RelocationTypeOK, ExecutionSucceeds, Finish, flushVars, genVars
  <2>5. ASSUME NEW e \in running, ExecutionFails(e) PROVE TypeOK'
    BY <2>5 DEF TypeOK, WriterTypeOK, RelocationTypeOK, ExecutionFails, Finish, flushVars, genVars
  <2>6. ASSUME NEW r \in Relocators, RelocateBegins(r) PROVE TypeOK'
    <3>1. /\ held' \subseteq Notebooks
          /\ promise' \in [Gens -> {"none", "open", "true", "false"}]
          /\ keyGen' \in [Keys -> Gens \cup {NoTask}]
          /\ nextGen' \in 1 .. (MaxWrites + 1)
          /\ wasPaused' \subseteq Relocators
          /\ begun' \in [Relocators -> 1 .. (MaxWrites + 1)]
          /\ holds' \in 0 .. MaxHolds
      BY <2>6 DEF TypeOK, WriterTypeOK, RelocationTypeOK, RelocateBegins, genVars
    <3>2. PendingKeys \in SUBSET Keys /\ PauseTimers \in SUBSET Keys
      BY DEF TypeOK, WriterTypeOK, RelocationTypeOK, PendingKeys, PauseTimers
    <3>3. CASE FlushEnds(r, PendingKeys, PauseTimers)
      BY <3>1, <3>2, <3>3, FlushEndsType DEF TypeOK, WriterTypeOK, RelocationTypeOK
    <3>4. CASE FlushVisits(r, PendingKeys, PauseTimers) /\ paused' = FALSE
      <4>1. paused' \in BOOLEAN
        BY <3>4 DEF TypeOK, WriterTypeOK
      <4>2. QED
        BY <3>1, <3>2, <3>4, <4>1, FlushVisitsType DEF TypeOK, WriterTypeOK, RelocationTypeOK
    <3>5. QED
      BY <2>6, <3>3, <3>4 DEF RelocateBegins
  <2>7. ASSUME NEW r \in Relocators, FlushContinues(r) PROVE TypeOK'
    <3>1. /\ held' \subseteq Notebooks
          /\ promise' \in [Gens -> {"none", "open", "true", "false"}]
          /\ keyGen' \in [Keys -> Gens \cup {NoTask}]
          /\ nextGen' \in 1 .. (MaxWrites + 1)
          /\ wasPaused' \subseteq Relocators
          /\ begun' \in [Relocators -> 1 .. (MaxWrites + 1)]
          /\ holds' \in 0 .. MaxHolds
      BY <2>7 DEF TypeOK, WriterTypeOK, RelocationTypeOK, FlushContinues, genVars
    <3>2. flushKeys[r] \in SUBSET Keys /\ armed \in SUBSET Keys
      BY DEF TypeOK, WriterTypeOK, RelocationTypeOK, PendingKeys
    <3>3. CASE FlushEnds(r, flushKeys[r], armed)
      BY <3>1, <3>2, <3>3, FlushEndsType DEF TypeOK, WriterTypeOK, RelocationTypeOK
    <3>4. CASE FlushVisits(r, flushKeys[r], armed) /\ UNCHANGED paused
      <4>1. paused' \in BOOLEAN
        BY <3>4 DEF TypeOK, WriterTypeOK
      <4>2. QED
        BY <3>1, <3>2, <3>4, <4>1, FlushVisitsType DEF TypeOK, WriterTypeOK, RelocationTypeOK
    <3>5. QED
      BY <2>7, <3>3, <3>4 DEF FlushContinues
  <2>8. ASSUME NEW r \in Relocators, FlushReturns(r) PROVE TypeOK'
    BY <2>8 DEF TypeOK, WriterTypeOK, RelocationTypeOK, FlushReturns, genVars, writerVars
  <2>9. ASSUME NEW r \in Relocators, RelocateFails(r) PROVE TypeOK'
    <3>1. stray' \in [Keys -> Nat]
      BY <2>9 DEF TypeOK, WriterTypeOK, RelocateFails, Rearm, PendingKeys, genVars
    <3>2. WriterTypeOK'
      BY <2>9, <3>1 DEF TypeOK, WriterTypeOK, RelocateFails, Rearm, PendingKeys, genVars
    <3>3. RelocationTypeOK'
      BY <2>9 DEF TypeOK, WriterTypeOK, RelocationTypeOK, RelocateFails, PastFlush, Rearm, PendingKeys, genVars
    <3>4. QED
      BY <2>9, <3>2, <3>3 DEF TypeOK, RelocateFails, Rearm, PendingKeys, genVars
  <2>10. ASSUME NEW r \in Relocators, RelocateSucceeds(r) PROVE TypeOK'
    BY <2>10 DEF TypeOK, WriterTypeOK, RelocationTypeOK, RelocateSucceeds, genVars, writerVars
  <2>11. ASSUME NEW n \in Notebooks, PauseNotebook(n) PROVE TypeOK'
    BY <2>11 DEF TypeOK, WriterTypeOK, RelocationTypeOK, PauseNotebook, genVars, flushVars
  <2>12. ASSUME NEW n \in Notebooks, ResumeNotebook(n) PROVE TypeOK'
    <3> USE DEF TypeOK, WriterTypeOK, RelocationTypeOK
    <3>1. paused' \in BOOLEAN
      BY <2>12 DEF ResumeNotebook
    <3>2. armed' \subseteq Keys /\ stray' \in [Keys -> Nat]
      BY <2>12 DEF ResumeNotebook, Rearm, PendingOf, PendingKeys
    <3>3. /\ pending' = pending /\ held' \subseteq Notebooks
          /\ UNCHANGED <<running, promise, genVars, flushVars, holds>>
      BY <2>12 DEF ResumeNotebook
    <3>4. QED
      BY <3>1, <3>2, <3>3 DEF genVars, flushVars
  <2>13. ASSUME NEW n \in Notebooks, CancelPendingWritesForNotebook(n) PROVE TypeOK'
    BY <2>13 DEF TypeOK, WriterTypeOK, RelocationTypeOK, CancelPendingWritesForNotebook, genVars, flushVars
  <2>14. ASSUME UNCHANGED vars PROVE TypeOK'
    BY <2>14 DEF vars, TypeOK, WriterTypeOK, RelocationTypeOK
  <2>15. QED
    BY <2>1, <2>2, <2>3, <2>4, <2>5, <2>6, <2>7, <2>8, <2>9, <2>10, <2>11, <2>12,
       <2>13, <2>14 DEF Next, Reloaded
<1>3. QED
  BY <1>1, <1>2, PTL DEF Spec

-----------------------------------------------------------------------------
(* No accepted write is forgotten *)

\* Strengthening of NoLostWrite: a flush() always finds the writer paused,
\* because relocateNotebookToNative calls pause() before it; so when its loop
\* ends, the tasks scheduled meanwhile are held back until resume() re-arms them.
FlushFoundPause ==
    \A r \in Relocators : pc[r] = "flushing" => r \in wasPaused

\* While k is pending, not held back and has no timer, one list still has it.
Lost(k) ==
    /\ IsPending(k) /\ ~paused /\ ~Held(k)
    /\ k \notin armed /\ ~(stray[k] > 0) /\ ~Flushing(k)

\* NoLostWrite, key by key.
LEMMA NotLost == NoLostWrite <=> \A k \in Keys : ~Lost(k)
  BY DEF NoLostWrite, Lost

\* The inductive step of NoLostWrite, action by action.
LEMMA NoLostWriteStep ==
    TypeOK /\ NoLostWrite /\ FlushFoundPause /\ [Next]_vars
        => NoLostWrite' /\ FlushFoundPause'
<1> SUFFICES ASSUME TypeOK, NoLostWrite, FlushFoundPause, [Next]_vars
             PROVE  (\A j \in Keys : ~Lost(j)') /\ FlushFoundPause'
  BY DEF NoLostWrite, Lost
<1> USE NotLost DEF TypeOK, WriterTypeOK, RelocationTypeOK
<1>1. ASSUME NEW k \in Keys, Write(k) PROVE (\A j \in Keys : ~Lost(j)') /\ FlushFoundPause'
  BY <1>1 DEF Write, flushVars, Lost, IsPending, Held, Flushing, FlushFoundPause
<1>2. ASSUME NEW k \in Keys, TimerFires(k) PROVE (\A j \in Keys : ~Lost(j)') /\ FlushFoundPause'
  BY <1>2 DEF TimerFires, ProcessTask, StartTask, flushVars, genVars, Lost, IsPending, Held, Flushing, FlushFoundPause
<1>3. ASSUME NEW k \in Keys, StrayTimerFires(k) PROVE (\A j \in Keys : ~Lost(j)') /\ FlushFoundPause'
  BY <1>3 DEF StrayTimerFires, ProcessTask, StartTask, flushVars, genVars, Lost, IsPending, Held, Flushing, FlushFoundPause
<1>4. ASSUME NEW e \in running, ExecutionSucceeds(e) \/ ExecutionFails(e)
      PROVE (\A j \in Keys : ~Lost(j)') /\ FlushFoundPause'
  BY <1>4 DEF ExecutionSucceeds, ExecutionFails, Finish, flushVars, genVars, Lost, IsPending, Held, Flushing, FlushFoundPause
<1>5. ASSUME NEW r \in Relocators, RelocateBegins(r) PROVE (\A j \in Keys : ~Lost(j)') /\ FlushFoundPause'
  <2>1. PendingKeys \in SUBSET Keys
    BY DEF PendingKeys
  <2>2. CASE FlushVisits(r, PendingKeys, PauseTimers) /\ paused' = FALSE
    <3>1. PICK k \in PendingKeys, rest \in SUBSET PendingKeys :
            /\ IsPending(k)
            /\ \A j \in PendingKeys \ {k} : IsPending(j) => j \in rest
            /\ VisitOf(r, k, rest, PauseTimers)
      BY <2>1, <2>2, FlushVisitsOne
    <3>2. FlushFoundPause'
      BY <1>5, <3>1 DEF RelocateBegins, VisitOf, FlushFoundPause
    <3>3. ASSUME NEW j \in Keys, Lost(j)' PROVE FALSE
      <4>1. j # k /\ IsPending(j)
        BY <3>1, <3>3 DEF VisitOf, StartTask, Lost, IsPending
      <4>2. flushKeys'[r] = rest /\ pc'[r] = "flushing" /\ stray' = stray
        BY <3>1 DEF VisitOf, StartTask
      <4>3. QED
        BY <1>5, <2>2, <3>1, <3>3, <4>1, <4>2 DEF RelocateBegins, VisitOf, StartTask, Lost, IsPending, Held, Flushing, PendingKeys
    <3>4. QED
      BY <3>2, <3>3
  <2>3. CASE FlushEnds(r, PendingKeys, PauseTimers)
    BY <1>5, <2>1, <2>3 DEF RelocateBegins, FlushEnds, Lost, IsPending, Held, Flushing, FlushFoundPause, PendingKeys
  <2>4. QED
    BY <1>5, <2>2, <2>3 DEF RelocateBegins
<1>6. ASSUME NEW r \in Relocators, FlushContinues(r) PROVE (\A j \in Keys : ~Lost(j)') /\ FlushFoundPause'
  <2>1. flushKeys[r] \in SUBSET Keys
    BY DEF PendingKeys
  <2>2. CASE FlushVisits(r, flushKeys[r], armed) /\ UNCHANGED paused
    <3>1. PICK k \in flushKeys[r], rest \in SUBSET flushKeys[r] :
            /\ IsPending(k)
            /\ \A j \in flushKeys[r] \ {k} : IsPending(j) => j \in rest
            /\ VisitOf(r, k, rest, armed)
      BY <2>1, <2>2, FlushVisitsOne
    <3>2. FlushFoundPause'
      BY <1>6, <3>1 DEF FlushContinues, VisitOf, FlushFoundPause
    <3>3. ASSUME NEW j \in Keys, Lost(j)' PROVE FALSE
      <4>1. j # k /\ IsPending(j)
        BY <3>1, <3>3 DEF VisitOf, StartTask, Lost, IsPending
      <4>2. flushKeys'[r] = rest /\ pc'[r] = "flushing" /\ stray' = stray
        BY <3>1 DEF VisitOf, StartTask
      <4>3. QED
        BY <1>6, <2>2, <3>1, <3>3, <4>1, <4>2 DEF FlushContinues, VisitOf, StartTask, Lost, IsPending, Held, Flushing, PendingKeys
    <3>4. QED
      BY <3>2, <3>3
  <2>3. CASE FlushEnds(r, flushKeys[r], armed)
    BY <1>6, <2>1, <2>3 DEF FlushContinues, FlushEnds, Lost, IsPending, Held, Flushing, FlushFoundPause, PendingKeys
  <2>4. QED
    BY <1>6, <2>2, <2>3 DEF FlushContinues
<1>7. ASSUME NEW r \in Relocators, FlushReturns(r) \/ RelocateSucceeds(r)
      PROVE (\A j \in Keys : ~Lost(j)') /\ FlushFoundPause'
  BY <1>7 DEF FlushReturns, RelocateSucceeds, writerVars, genVars, Lost, IsPending, Held, Flushing, FlushFoundPause
<1>8. ASSUME NEW r \in Relocators, RelocateFails(r) PROVE (\A j \in Keys : ~Lost(j)') /\ FlushFoundPause'
  BY <1>8 DEF RelocateFails, Rearm, PendingKeys, genVars, Lost, IsPending, Held, Flushing, FlushFoundPause
<1>9. ASSUME NEW n \in Notebooks, PauseNotebook(n) PROVE (\A j \in Keys : ~Lost(j)') /\ FlushFoundPause'
  BY <1>9 DEF PauseNotebook, PendingOf, PendingKeys, genVars, flushVars, Lost, IsPending, Held, Flushing, FlushFoundPause
<1>10. ASSUME NEW n \in Notebooks, ResumeNotebook(n) PROVE (\A j \in Keys : ~Lost(j)') /\ FlushFoundPause'
  BY <1>10 DEF ResumeNotebook, Rearm, PendingOf, PendingKeys, genVars, flushVars, Lost, IsPending, Held, Flushing, FlushFoundPause
<1>11. ASSUME NEW n \in Notebooks, CancelPendingWritesForNotebook(n) PROVE (\A j \in Keys : ~Lost(j)') /\ FlushFoundPause'
  BY <1>11 DEF CancelPendingWritesForNotebook, PendingOf, PendingKeys, genVars, flushVars, Lost, IsPending, Held, Flushing, FlushFoundPause
<1>12. ASSUME UNCHANGED vars PROVE (\A j \in Keys : ~Lost(j)') /\ FlushFoundPause'
  BY <1>12 DEF vars, Lost, IsPending, Held, Flushing, FlushFoundPause
<1>13. QED
  BY <1>1, <1>2, <1>3, <1>4, <1>5, <1>6, <1>7, <1>8, <1>9, <1>10, <1>11, <1>12 DEF Next, Reloaded

\* Every accepted write stays recoverable (NoLostWrite), for any number of
\* relocations and notebook reloads running at once.
THEOREM WritesAreNotLost == Spec => []NoLostWrite
<1>1. Init => NoLostWrite /\ FlushFoundPause
  BY DEF Init, NoLostWrite, FlushFoundPause, IsPending
<1>2. TypeOK /\ NoLostWrite /\ FlushFoundPause /\ [Next]_vars => NoLostWrite' /\ FlushFoundPause'
  BY NoLostWriteStep
<1>3. QED
  BY <1>1, <1>2, TypeCorrect, PTL DEF Spec

-----------------------------------------------------------------------------
(* Every write() call has one owner, and the newest write of a key is the one *)
(* that is pending                                                            *)

\* Strengthening of OneOwner and NewestIsPending, in first-order parts.
IssuedInOrder == \A g \in Gens : promise[g] = "none" <=> g >= nextGen
SlotsOpen == \A k \in Keys : IsPending(k) => promise[pending[k]] = "open"
FlightsOpen == \A e \in running : promise[e.gen] = "open"
OpenIsOwned == \A g \in Gens : promise[g] = "open" =>
                   (\E k \in Keys : pending[k] = g) \/ (\E e \in running : e.gen = g)
SlotsDistinct == \A k, j \in Keys : IsPending(k) /\ pending[k] = pending[j] => k = j
FlightsDistinct == \A e, f \in running : e.gen = f.gen => e = f
SlotOrFlight == \A k \in Keys, e \in running : pending[k] # e.gen

OwnerInv ==
    /\ IssuedInOrder
    /\ SlotsOpen
    /\ FlightsOpen
    /\ OpenIsOwned
    /\ SlotsDistinct
    /\ FlightsDistinct
    /\ SlotOrFlight

NewestInv ==
    /\ NewestIsPending
    /\ \A k \in Keys : keyGen[k] < nextGen

\* k is started: its task moves from its slot into flight.
StartOf(k) ==
    /\ IsPending(k)
    /\ pending' = [pending EXCEPT ![k] = NoTask]
    /\ running' = running \cup {[key |-> k, gen |-> pending[k]]}

\* A timer or a step of flush() starts one task or none, and answers no call.
LEMMA StartsAtMostOne ==
    ASSUME TypeOK,
           \/ \E k \in Keys : TimerFires(k) \/ StrayTimerFires(k)
           \/ \E r \in Relocators : RelocateBegins(r) \/ FlushContinues(r)
    PROVE  /\ UNCHANGED <<promise, keyGen, nextGen>>
           /\ UNCHANGED <<pending, running>> \/ \E k \in Keys : StartOf(k)
<1>1. ASSUME NEW k \in Keys, TimerFires(k) \/ StrayTimerFires(k)
      PROVE  /\ UNCHANGED <<promise, keyGen, nextGen>>
             /\ UNCHANGED <<pending, running>> \/ StartOf(k)
  BY <1>1 DEF TimerFires, StrayTimerFires, ProcessTask, StartTask, StartOf, genVars
<1>2. ASSUME NEW r \in Relocators, NEW keys \in SUBSET Keys, NEW tm, FlushVisits(r, keys, tm)
      PROVE  \E k \in Keys : StartOf(k)
  <2>1. PICK k \in keys, rest \in SUBSET keys : IsPending(k) /\ VisitOf(r, k, rest, tm)
    BY <1>2, FlushVisitsOne
  <2>2. QED
    BY <2>1 DEF VisitOf, StartTask, StartOf
<1>3. ASSUME NEW r \in Relocators, NEW keys, NEW tm, FlushEnds(r, keys, tm)
      PROVE  UNCHANGED <<pending, running>>
  BY <1>3 DEF FlushEnds
<1>4. ASSUME NEW r \in Relocators, RelocateBegins(r)
      PROVE  /\ UNCHANGED <<promise, keyGen, nextGen>>
             /\ UNCHANGED <<pending, running>> \/ \E k \in Keys : StartOf(k)
  <2>1. PendingKeys \in SUBSET Keys
    BY DEF PendingKeys
  <2>2. QED
    BY <1>2, <1>3, <1>4, <2>1 DEF RelocateBegins, genVars
<1>5. ASSUME NEW r \in Relocators, FlushContinues(r)
      PROVE  /\ UNCHANGED <<promise, keyGen, nextGen>>
             /\ UNCHANGED <<pending, running>> \/ \E k \in Keys : StartOf(k)
  <2>1. flushKeys[r] \in SUBSET Keys
    BY DEF TypeOK, RelocationTypeOK
  <2>2. QED
    BY <1>2, <1>3, <1>5, <2>1 DEF FlushContinues, genVars
<1>6. QED
  BY <1>1, <1>4, <1>5

\* The inductive step of OwnerInv.
LEMMA OwnerStep == TypeOK /\ OwnerInv /\ [Next]_vars => OwnerInv'
<1> SUFFICES ASSUME TypeOK, OwnerInv, [Next]_vars PROVE OwnerInv'
  OBVIOUS
<1>1. ASSUME UNCHANGED <<pending, running, promise, nextGen>> PROVE OwnerInv'
  BY <1>1 DEF OwnerInv, IsPending, IssuedInOrder, SlotsOpen, FlightsOpen, OpenIsOwned, SlotsDistinct,
       FlightsDistinct, SlotOrFlight
<1>2. ASSUME NEW k \in Keys, StartOf(k), UNCHANGED <<promise, nextGen>> PROVE OwnerInv'
  <2> USE <1>2 DEF OwnerInv, TypeOK, WriterTypeOK, StartOf
  <2>1. IssuedInOrder' /\ FlightsOpen'
    BY DEF IssuedInOrder, SlotsOpen, FlightsOpen
  <2>2. SlotsOpen' /\ SlotsDistinct'
    BY DEF SlotsOpen, SlotsDistinct, IsPending
  <2>3. OpenIsOwned'
    <3> SUFFICES ASSUME NEW g \in Gens, promise'[g] = "open", \A j \in Keys : pending'[j] # g
                 PROVE  \E e \in running' : e.gen = g
      BY DEF OpenIsOwned
    <3>1. CASE g = pending[k]
      <4>1. [key |-> k, gen |-> pending[k]] \in running'
        OBVIOUS
      <4>2. QED
        BY <3>1, <4>1
    <3>2. CASE g # pending[k]
      BY <3>2 DEF OpenIsOwned
    <3>3. QED
      BY <3>1, <3>2
  <2>4. FlightsDistinct'
    BY DEF FlightsDistinct, SlotOrFlight
  <2>5. SlotOrFlight'
    BY BoundsAssumption DEF SlotOrFlight, SlotsDistinct, IsPending, NoTask, Executions, Gens
  <2>6. QED
    BY <2>1, <2>2, <2>3, <2>4, <2>5
<1> USE BoundsAssumption DEF TypeOK, WriterTypeOK, OwnerInv, Gens, NoTask, IsPending
<1>3. ASSUME NEW k \in Keys, Write(k) PROVE OwnerInv'
  <2>1. IssuedInOrder'
    BY <1>3 DEF Write, IssuedInOrder, SlotsOpen
  <2>2. SlotsOpen'
    BY <1>3 DEF Write, SlotsOpen, SlotsDistinct, IssuedInOrder
  <2>3. FlightsOpen'
    BY <1>3 DEF Write, FlightsOpen, SlotOrFlight, IssuedInOrder, Executions
  <2>4. OpenIsOwned'
    BY <1>3 DEF Write, OpenIsOwned
  <2>5. SlotsDistinct'
    BY <1>3 DEF Write, SlotsDistinct, SlotsOpen, IssuedInOrder
  <2>6. FlightsDistinct' /\ SlotOrFlight'
    BY <1>3 DEF Write, FlightsDistinct, SlotOrFlight, FlightsOpen, IssuedInOrder, Executions
  <2>7. QED
    BY <2>1, <2>2, <2>3, <2>4, <2>5, <2>6
<1>4. ASSUME NEW e \in running, ExecutionSucceeds(e) \/ ExecutionFails(e) PROVE OwnerInv'
  <2>1. /\ running' = running \ {e} /\ UNCHANGED <<pending, nextGen>>
        /\ promise' \in [Gens -> {"none", "open", "true", "false"}]
        /\ promise'[e.gen] \in {"true", "false"}
        /\ \A g \in Gens : g # e.gen => promise'[g] = promise[g]
    BY <1>4 DEF ExecutionSucceeds, ExecutionFails, Finish, genVars, Executions
  <2>2. IssuedInOrder'
    BY <2>1 DEF IssuedInOrder, FlightsOpen
  <2>3. SlotsOpen' /\ FlightsOpen'
    BY <2>1 DEF SlotsOpen, FlightsOpen, SlotOrFlight, FlightsDistinct, Executions
  <2>4. OpenIsOwned'
    BY <2>1 DEF OpenIsOwned
  <2>5. SlotsDistinct' /\ FlightsDistinct' /\ SlotOrFlight'
    BY <2>1 DEF SlotsDistinct, FlightsDistinct, SlotOrFlight
  <2>6. QED
    BY <2>2, <2>3, <2>4, <2>5
<1>5. ASSUME NEW n \in Notebooks, CancelPendingWritesForNotebook(n) PROVE OwnerInv'
  <2> USE <1>5 DEF CancelPendingWritesForNotebook, PendingOf, PendingKeys, genVars
  <2>1. IssuedInOrder' /\ SlotsOpen'
    BY DEF IssuedInOrder, SlotsOpen, SlotsDistinct
  <2>2. FlightsOpen' /\ FlightsDistinct'
    BY DEF FlightsOpen, FlightsDistinct, SlotOrFlight, Executions
  <2>3. OpenIsOwned'
    BY DEF OpenIsOwned
  <2>4. SlotsDistinct' /\ SlotOrFlight'
    BY DEF SlotsDistinct, SlotOrFlight, Executions
  <2>5. QED
    BY <2>1, <2>2, <2>3, <2>4
<1>6. ASSUME \/ \E r \in Relocators : FlushReturns(r) \/ RelocateFails(r) \/ RelocateSucceeds(r)
             \/ \E n \in Notebooks : PauseNotebook(n) \/ ResumeNotebook(n)
             \/ UNCHANGED vars
      PROVE  UNCHANGED <<pending, running, promise, nextGen>>
  BY <1>6 DEF FlushReturns, RelocateFails, RelocateSucceeds, PauseNotebook, ResumeNotebook,
       writerVars, genVars, vars
<1>7. QED
  BY <1>1, <1>2, <1>3, <1>4, <1>5, <1>6, StartsAtMostOne DEF Next, Reloaded

\* A generation is never executed after a newer one of its key was scheduled and
\* started: the newest write of a key is the one that is pending.
LEMMA NewestStep == TypeOK /\ OwnerInv /\ NewestInv /\ [Next]_vars => NewestInv'
<1> SUFFICES ASSUME TypeOK, OwnerInv, NewestInv, [Next]_vars PROVE NewestInv'
  OBVIOUS
<1> USE BoundsAssumption DEF TypeOK, WriterTypeOK, NewestInv, NewestIsPending, IsPending, NoTask, Gens
<1>1. ASSUME UNCHANGED <<pending, running, keyGen, nextGen>> PROVE NewestInv'
  BY <1>1
<1>2. ASSUME NEW k \in Keys, StartOf(k), UNCHANGED <<keyGen, nextGen>> PROVE NewestInv'
  BY <1>2 DEF StartOf
<1>3. ASSUME NEW k \in Keys, Write(k) PROVE NewestInv'
  BY <1>3 DEF Write, OwnerInv, FlightsOpen, IssuedInOrder, Executions
<1>4. ASSUME NEW e \in running, ExecutionSucceeds(e) \/ ExecutionFails(e) PROVE NewestInv'
  BY <1>4 DEF ExecutionSucceeds, ExecutionFails, Finish, genVars
<1>5. ASSUME NEW n \in Notebooks, CancelPendingWritesForNotebook(n) PROVE NewestInv'
  BY <1>5 DEF CancelPendingWritesForNotebook, PendingOf, PendingKeys, genVars
<1>6. ASSUME \/ \E r \in Relocators : FlushReturns(r) \/ RelocateFails(r) \/ RelocateSucceeds(r)
             \/ \E n \in Notebooks : PauseNotebook(n) \/ ResumeNotebook(n)
             \/ UNCHANGED vars
      PROVE  UNCHANGED <<pending, running, keyGen, nextGen>>
  BY <1>6 DEF FlushReturns, RelocateFails, RelocateSucceeds, PauseNotebook, ResumeNotebook,
       writerVars, genVars, vars
<1>7. QED
  BY <1>1, <1>2, <1>3, <1>4, <1>5, <1>6, StartsAtMostOne DEF Next, Reloaded

\* The strengthening is an invariant of the writer.
LEMMA OwnersAreTracked == Spec => [](OwnerInv /\ NewestInv)
<1>1. Init => OwnerInv /\ NewestInv
  BY BoundsAssumption DEF Init, OwnerInv, NewestInv, NewestIsPending, IsPending, Gens, NoTask,
       IssuedInOrder, SlotsOpen, FlightsOpen, OpenIsOwned, SlotsDistinct,
       FlightsDistinct, SlotOrFlight
<1>2. TypeOK /\ OwnerInv /\ NewestInv /\ [Next]_vars => OwnerInv' /\ NewestInv'
  BY OwnerStep, NewestStep
<1>3. QED
  BY <1>1, <1>2, TypeCorrect, PTL DEF Spec

\* A slot never holds an older write than the key's newest.
THEOREM NewestStaysPending == Spec => []NewestIsPending
<1>1. NewestInv => NewestIsPending
  BY DEF NewestInv
<1>2. QED
  BY <1>1, OwnersAreTracked, PTL

\* Every write() call is answered exactly once, by the one slot or execution that
\* owns it.
THEOREM WritesHaveOneOwner == Spec => []OneOwner
<1>1. TypeOK /\ OwnerInv => OneOwner
  <2> SUFFICES ASSUME TypeOK, OwnerInv, NEW g \in Gens
               PROVE  /\ promise[g] = "open" <=> Owners(g) # {}
                      /\ \A o1, o2 \in Owners(g) : o1 = o2
    BY DEF OneOwner
  <2> DEFINE slots == {k \in Keys : pending[k] = g}
             flights == {x \in running : x.gen = g}
  <2>1. Owners(g) = [at : {"slot"}, key : slots] \cup [at : {"flight"}, key : {e.key : e \in flights}]
    BY DEF Owners
  <2>2. promise[g] = "open" <=> slots # {} \/ flights # {}
    BY BoundsAssumption DEF OwnerInv, SlotsOpen, FlightsOpen, OpenIsOwned, IsPending, Gens, NoTask
  <2>3. \A k, j \in slots : k = j
    BY BoundsAssumption DEF OwnerInv, SlotsDistinct, IsPending, Gens, NoTask
  <2>4. \A e, f \in flights : e = f
    BY DEF OwnerInv, FlightsDistinct
  <2>5. slots = {} \/ flights = {}
    BY DEF OwnerInv, SlotOrFlight
  <2>6. Owners(g) # {} <=> slots # {} \/ flights # {}
    <3>1. ASSUME NEW k \in slots PROVE [at |-> "slot", key |-> k] \in Owners(g)
      BY <2>1
    <3>2. ASSUME NEW e \in flights PROVE [at |-> "flight", key |-> e.key] \in Owners(g)
      BY <2>1
    <3>3. QED
      BY <2>1, <3>1, <3>2
  <2>7. \A o1, o2 \in Owners(g) : o1 = o2
    <3>1. CASE flights = {}
      BY <2>1, <2>3, <3>1
    <3>2. CASE slots = {}
      BY <2>1, <2>4, <3>2
    <3>3. QED
      BY <2>5, <3>1, <3>2
  <2>8. QED
    BY <2>2, <2>6, <2>7
<1>2. QED
  BY <1>1, OwnersAreTracked, TypeCorrect, PTL

-----------------------------------------------------------------------------
(* The global pause, and the drain before a copy *)

\* The writer is paused only while a relocation is under way (PauseIsOwned),
\* however many relocations overlap.
THEOREM PauseHasOwner == Spec => []PauseIsOwned
<1>1. Init => PauseIsOwned
  BY DEF Init, PauseIsOwned
<1>2. TypeOK /\ PauseIsOwned /\ [Next]_vars => PauseIsOwned'
  <2> SUFFICES ASSUME TypeOK, PauseIsOwned, [Next]_vars PROVE PauseIsOwned'
    OBVIOUS
  <2> USE DEF TypeOK, RelocationTypeOK, PauseIsOwned
  <2>1. ASSUME UNCHANGED <<paused, pc>> PROVE PauseIsOwned'
    BY <2>1
  <2>2. ASSUME NEW r \in Relocators, pc' = [pc EXCEPT ![r] = pc'[r]], pc'[r] # "idle" PROVE PauseIsOwned'
    BY <2>2
  <2>3. ASSUME NEW r \in Relocators, RelocateBegins(r) \/ FlushContinues(r)
        PROVE  pc' = [pc EXCEPT ![r] = pc'[r]] /\ pc'[r] # "idle"
    BY <2>3 DEF RelocateBegins, FlushContinues, FlushVisits, FlushEnds
  <2>4. ASSUME NEW r \in Relocators, FlushReturns(r) \/ RelocateSucceeds(r)
        PROVE  pc' = [pc EXCEPT ![r] = pc'[r]] /\ pc'[r] # "idle"
    BY <2>4 DEF FlushReturns, RelocateSucceeds
  <2>5. ASSUME NEW r \in Relocators, RelocateFails(r) PROVE PauseIsOwned'
    BY <2>5 DEF RelocateFails
  <2>6. ASSUME \/ \E k \in Keys : Write(k) \/ TimerFires(k) \/ StrayTimerFires(k)
               \/ \E e \in running : ExecutionSucceeds(e) \/ ExecutionFails(e)
               \/ \E n \in Notebooks : \/ PauseNotebook(n) \/ ResumeNotebook(n)
                                       \/ CancelPendingWritesForNotebook(n)
               \/ UNCHANGED vars
        PROVE  UNCHANGED <<paused, pc>>
    BY <2>6 DEF Write, TimerFires, StrayTimerFires, ExecutionSucceeds, ExecutionFails, Finish,
         PauseNotebook, ResumeNotebook, CancelPendingWritesForNotebook, flushVars, vars
  <2>7. QED
    BY <2>1, <2>2, <2>3, <2>4, <2>5, <2>6 DEF Next, Reloaded
<1>3. QED
  BY <1>1, <1>2, TypeCorrect, PTL DEF Spec

\* Strengthening of DrainedBeforeCopy: the writes a flush() has to drain are on
\* its list or in flight, then only in flight, then answered.
OnList(r, g) == pc[r] = "flushing" /\ \E k \in flushKeys[r] : pending[k] = g
InFlight(g) == \E e \in running : e.gen = g
DrainInv ==
    \A r \in Relocators :
        /\ begun[r] <= nextGen
        /\ pc[r] # "idle" =>
              \A g \in Gens : g < begun[r] /\ promise[g] = "open" =>
                  OnList(r, g) \/ (pc[r] \in {"flushing", "draining"} /\ InFlight(g))

\* What DrainInv says of one relocation.
Drains(r) ==
    pc[r] # "idle" =>
        \A g \in Gens : g < begun[r] /\ promise[g] = "open" =>
            OnList(r, g) \/ (pc[r] \in {"flushing", "draining"} /\ InFlight(g))

\* A started task is on the list or in flight for every other relocation.
LEMMA StartDrains ==
    ASSUME TypeOK, NEW q \in Relocators, Drains(q), NEW k \in Keys, StartOf(k),
           promise' = promise, pc'[q] = pc[q], flushKeys'[q] = flushKeys[q], begun'[q] = begun[q]
    PROVE  Drains(q)'
<1> SUFFICES ASSUME pc[q] # "idle", NEW g \in Gens, g < begun[q], promise[g] = "open"
             PROVE  OnList(q, g)' \/ (pc'[q] \in {"flushing", "draining"} /\ InFlight(g)')
  BY DEF Drains
<1>1. OnList(q, g) \/ (pc[q] \in {"flushing", "draining"} /\ InFlight(g))
  BY DEF Drains
<1>2. CASE g = pending[k]
  <2>1. [key |-> k, gen |-> pending[k]] \in running'
    BY DEF StartOf
  <2>2. InFlight(g)'
    BY <1>2, <2>1 DEF InFlight
  <2>3. QED
    BY <1>1, <2>2 DEF OnList
<1>3. CASE g # pending[k]
  BY <1>1, <1>3 DEF TypeOK, WriterTypeOK, RelocationTypeOK, StartOf, OnList, InFlight
<1>4. QED
  BY <1>2, <1>3

\* A visit of flush() leaves every write that it has to drain, and that is
\* pending or in flight, on its list or in flight.
LEMMA VisitDrains ==
    ASSUME TypeOK, NEW r \in Relocators, NEW keys \in SUBSET Keys, NEW tm,
           FlushVisits(r, keys, tm), promise' = promise,
           \A g \in Gens : g < begun'[r] /\ promise[g] = "open" =>
               (\E k \in keys : pending[k] = g) \/ InFlight(g)
    PROVE  Drains(r)'
<1>1. PICK k \in keys, rest \in SUBSET keys :
        /\ IsPending(k)
        /\ \A j \in keys \ {k} : IsPending(j) => j \in rest
        /\ VisitOf(r, k, rest, tm)
  BY FlushVisitsOne
<1>2. pc'[r] = "flushing" /\ flushKeys'[r] = rest
  BY <1>1 DEF VisitOf, TypeOK, RelocationTypeOK
<1>3. [key |-> k, gen |-> pending[k]] \in running' /\ running \subseteq running'
  BY <1>1 DEF VisitOf, StartTask
<1>4. \A j \in Keys : j # k => pending'[j] = pending[j]
  BY <1>1 DEF VisitOf, StartTask, TypeOK, WriterTypeOK
<1> SUFFICES ASSUME NEW g \in Gens, g < begun'[r], promise[g] = "open"
             PROVE  OnList(r, g)' \/ InFlight(g)'
  BY <1>2 DEF Drains
<1>5. CASE g = pending[k]
  BY <1>3, <1>5 DEF InFlight
<1>6. CASE InFlight(g)
  BY <1>3, <1>6 DEF InFlight
<1>7. ASSUME NEW j \in keys, pending[j] = g, j # k PROVE OnList(r, g)'
  <2>1. IsPending(j)
    BY <1>7, BoundsAssumption DEF IsPending, NoTask, Gens
  <2>2. QED
    BY <1>1, <1>2, <1>4, <1>7, <2>1 DEF OnList
<1>8. QED
  BY <1>5, <1>6, <1>7

\* The inductive step of DrainInv.
LEMMA DrainStep == TypeOK /\ OwnerInv /\ DrainInv /\ [Next]_vars => DrainInv'
<1> SUFFICES ASSUME TypeOK, OwnerInv, DrainInv, [Next]_vars, NEW q \in Relocators
             PROVE  (begun[q] <= nextGen)' /\ Drains(q)'
  BY DEF DrainInv, Drains
<1>0. begun[q] <= nextGen /\ Drains(q)
  BY DEF DrainInv, Drains
<1> USE <1>0, BoundsAssumption DEF TypeOK, WriterTypeOK, RelocationTypeOK
<1>1. ASSUME NEW k \in Keys, Write(k) PROVE (begun[q] <= nextGen)' /\ Drains(q)'
  BY <1>1 DEF Write, flushVars, Drains, OnList, InFlight, Gens
<1>2. ASSUME NEW k \in Keys, TimerFires(k) \/ StrayTimerFires(k)
      PROVE  (begun[q] <= nextGen)' /\ Drains(q)'
  <2>1. UNCHANGED <<pc, flushKeys, begun, nextGen, promise>>
    BY <1>2 DEF TimerFires, StrayTimerFires, flushVars, genVars
  <2>2. CASE UNCHANGED <<pending, running>>
    BY <2>1, <2>2 DEF Drains, OnList, InFlight
  <2>3. ASSUME NEW j \in Keys, StartOf(j) PROVE (begun[q] <= nextGen)' /\ Drains(q)'
    BY <2>1, <2>3, StartDrains
  <2>4. QED
    BY <1>2, <2>2, <2>3, StartsAtMostOne
<1>3. ASSUME NEW e \in running, ExecutionSucceeds(e) \/ ExecutionFails(e)
      PROVE  (begun[q] <= nextGen)' /\ Drains(q)'
  BY <1>3 DEF ExecutionSucceeds, ExecutionFails, Finish, flushVars, genVars, Drains, OnList, InFlight, Executions
<1>4. ASSUME NEW r \in Relocators, RelocateBegins(r) \/ FlushContinues(r)
      PROVE  (begun[q] <= nextGen)' /\ Drains(q)'
  <2>1. (begun[q] <= nextGen)' /\ promise' = promise
    BY <1>4 DEF RelocateBegins, FlushContinues, genVars
  <2>2. CASE q # r
    <3>1. pc'[q] = pc[q] /\ flushKeys'[q] = flushKeys[q] /\ begun'[q] = begun[q]
      BY <1>4, <2>2 DEF RelocateBegins, FlushContinues, FlushVisits, FlushEnds
    <3>2. CASE UNCHANGED <<pending, running>>
      BY <2>1, <3>1, <3>2 DEF Drains, OnList, InFlight
    <3>3. ASSUME NEW j \in Keys, StartOf(j) PROVE Drains(q)'
      BY <2>1, <3>1, <3>3, StartDrains
    <3>4. QED
      BY <1>4, <2>1, <3>2, <3>3, StartsAtMostOne
  <2>3. CASE q = r /\ RelocateBegins(r)
    <3>1. PendingKeys \in SUBSET Keys /\ begun'[r] = nextGen
      BY <2>3 DEF RelocateBegins, PendingKeys
    <3>2. \A g \in Gens : promise[g] = "open" => (\E k \in PendingKeys : pending[k] = g) \/ InFlight(g)
      BY DEF OwnerInv, OpenIsOwned, PendingKeys, IsPending, InFlight, NoTask, Gens
    <3>3. CASE FlushVisits(r, PendingKeys, PauseTimers)
      BY <2>1, <2>3, <3>1, <3>2, <3>3, VisitDrains
    <3>4. CASE FlushEnds(r, PendingKeys, PauseTimers)
      <4>1. \A g \in Gens : promise[g] = "open" => InFlight(g)
        BY <3>2, <3>4 DEF FlushEnds, PendingKeys
      <4>2. QED
        BY <2>1, <2>3, <3>4, <4>1 DEF FlushEnds, Drains, InFlight
    <3>5. QED
      BY <2>1, <2>3, <3>3, <3>4 DEF RelocateBegins
  <2>4. CASE q = r /\ FlushContinues(r)
    <3>1. flushKeys[r] \in SUBSET Keys /\ begun' = begun /\ pc[r] = "flushing"
      BY <2>4 DEF FlushContinues
    <3>2. \A g \in Gens : g < begun[r] /\ promise[g] = "open"
              => (\E k \in flushKeys[r] : pending[k] = g) \/ InFlight(g)
      BY <2>4, <3>1 DEF Drains, OnList
    <3>3. CASE FlushVisits(r, flushKeys[r], armed)
      BY <2>1, <2>4, <3>1, <3>2, <3>3, VisitDrains
    <3>4. CASE FlushEnds(r, flushKeys[r], armed)
      <4>1. \A g \in Gens : g < begun[r] /\ promise[g] = "open" => InFlight(g)
        BY <3>1, <3>2, <3>4 DEF FlushEnds, IsPending, NoTask, Gens
      <4>2. QED
        BY <2>1, <2>4, <3>1, <3>4, <4>1 DEF FlushEnds, Drains, InFlight
    <3>5. QED
      BY <2>1, <2>4, <3>3, <3>4 DEF FlushContinues
  <2>5. QED
    BY <1>4, <2>2, <2>3, <2>4
<1>5. ASSUME NEW r \in Relocators, FlushReturns(r) PROVE (begun[q] <= nextGen)' /\ Drains(q)'
  BY <1>5 DEF FlushReturns, writerVars, genVars, Drains, OnList, InFlight
<1>6. ASSUME NEW r \in Relocators, RelocateFails(r) \/ RelocateSucceeds(r)
      PROVE  (begun[q] <= nextGen)' /\ Drains(q)'
  BY <1>6 DEF RelocateFails, RelocateSucceeds, writerVars, genVars, Drains, OnList, InFlight
<1>7. ASSUME NEW n \in Notebooks, CancelPendingWritesForNotebook(n)
      PROVE  (begun[q] <= nextGen)' /\ Drains(q)'
  BY <1>7 DEF CancelPendingWritesForNotebook, PendingOf, PendingKeys, genVars, flushVars, Drains, OnList, InFlight
<1>8. ASSUME \/ \E n \in Notebooks : PauseNotebook(n) \/ ResumeNotebook(n)
             \/ UNCHANGED vars
      PROVE  (begun[q] <= nextGen)' /\ Drains(q)'
  BY <1>8 DEF PauseNotebook, ResumeNotebook, genVars, flushVars, vars, Drains, OnList, InFlight
<1>9. QED
  BY <1>1, <1>2, <1>3, <1>4, <1>5, <1>6, <1>7, <1>8 DEF Next, Reloaded

\* When a relocation copies, and when it reloads the page, every write accepted
\* before it began has been answered (DrainedBeforeCopy).
THEOREM RelocationDrains == Spec => []DrainedBeforeCopy
<1>1. Init => OwnerInv /\ DrainInv
  BY BoundsAssumption DEF Init, OwnerInv, DrainInv, IsPending, Gens, NoTask, IssuedInOrder,
       SlotsOpen, FlightsOpen, OpenIsOwned, SlotsDistinct, FlightsDistinct, SlotOrFlight
<1>2. TypeOK /\ OwnerInv /\ DrainInv /\ [Next]_vars => OwnerInv' /\ DrainInv'
  BY OwnerStep, DrainStep
<1>3. DrainInv => DrainedBeforeCopy
  BY DEF DrainInv, DrainedBeforeCopy, OnList
<1>4. QED
  BY <1>1, <1>2, <1>3, TypeCorrect, PTL DEF Spec

\* The storage is not written while a notebook is copied (NoWriteDuringCopy), with
\* any number of relocations on their way: from the end of its own flush() on the
\* writer is paused and drained, until another relocation disturbs it.
THEOREM CopyIsUndisturbed == Spec => []NoWriteDuringCopy
<1> DEFINE KeepsPause == \A r \in Relocators :
                             pc[r] \in {"draining", "copying"} /\ r \notin disturbed => paused
           CopyInv == FlushFoundPause /\ KeepsPause /\ NoWriteDuringCopy
<1>1. Init => CopyInv
  BY DEF Init, FlushFoundPause, NoWriteDuringCopy
<1>2. TypeOK /\ CopyInv /\ [Next]_vars => CopyInv'
  <2> SUFFICES ASSUME TypeOK, CopyInv, [Next]_vars PROVE CopyInv'
    OBVIOUS
  <2> USE DEF TypeOK, RelocationTypeOK, FlushFoundPause, NoWriteDuringCopy
  <2>1. ASSUME NEW k \in Keys, TimerFires(k) \/ StrayTimerFires(k) PROVE CopyInv'
    <3>1. UNCHANGED <<paused, pc, wasPaused, disturbed>> /\ (paused => running' = running)
      BY <2>1 DEF TimerFires, StrayTimerFires, ProcessTask, flushVars
    <3>2. QED
      BY <3>1
  <2>2. ASSUME NEW e \in running, ExecutionSucceeds(e) \/ ExecutionFails(e) PROVE CopyInv'
    <3>1. UNCHANGED <<paused, pc, wasPaused, disturbed>> /\ running' \subseteq running
      BY <2>2 DEF ExecutionSucceeds, ExecutionFails, Finish, flushVars
    <3>2. QED
      BY <3>1
  \* A visit of flush() disturbs the relocations that are past theirs.
  <2>3. ASSUME NEW r \in Relocators, NEW keys \in SUBSET Keys, NEW tm, FlushVisits(r, keys, tm),
               r \in wasPaused', wasPaused \subseteq wasPaused'
        PROVE  CopyInv'
    <3>1. /\ pc' = [pc EXCEPT ![r] = "flushing"]
          /\ disturbed' = (disturbed \cup PastFlush(r)) \ {r}
      BY <2>3 DEF FlushVisits
    <3>2. \A q \in Relocators : pc'[q] \in {"draining", "copying"} => q \in disturbed'
      BY <3>1 DEF PastFlush
    <3>3. QED
      BY <2>3, <3>1, <3>2
  \* The end of its loop finds the pause, and restores it.
  <2>4. ASSUME NEW r \in Relocators, NEW keys, NEW tm, FlushEnds(r, keys, tm),
               r \in wasPaused', wasPaused \subseteq wasPaused'
        PROVE  CopyInv'
    <3>1. paused' /\ pc' = [pc EXCEPT ![r] = "draining"] /\ disturbed' = disturbed \ {r}
          /\ running' = running
      BY <2>4 DEF FlushEnds
    <3>2. QED
      BY <2>4, <3>1
  <2>5. ASSUME NEW r \in Relocators, RelocateBegins(r) PROVE CopyInv'
    <3>1. r \in wasPaused' /\ wasPaused \subseteq wasPaused' /\ PendingKeys \in SUBSET Keys
      BY <2>5 DEF RelocateBegins, PendingKeys
    <3>2. QED
      BY <2>3, <2>4, <2>5, <3>1 DEF RelocateBegins
  <2>6. ASSUME NEW r \in Relocators, FlushContinues(r) PROVE CopyInv'
    <3>1. r \in wasPaused' /\ wasPaused' = wasPaused /\ flushKeys[r] \in SUBSET Keys
      BY <2>6 DEF FlushContinues
    <3>2. QED
      BY <2>3, <2>4, <2>6, <3>1 DEF FlushContinues
  <2>7. ASSUME NEW r \in Relocators, FlushReturns(r) \/ RelocateSucceeds(r) PROVE CopyInv'
    BY <2>7 DEF FlushReturns, RelocateSucceeds, writerVars
  <2>8. ASSUME NEW r \in Relocators, RelocateFails(r) PROVE CopyInv'
    <3>1. /\ pc' = [pc EXCEPT ![r] = "idle"] /\ wasPaused' = wasPaused
          /\ disturbed' = disturbed \cup PastFlush(r)
      BY <2>8 DEF RelocateFails
    <3>2. \A q \in Relocators : pc'[q] \in {"draining", "copying"} => q \in disturbed'
      BY <3>1 DEF PastFlush
    <3>3. QED
      BY <3>1, <3>2
  <2>9. ASSUME \/ \E k \in Keys : Write(k)
               \/ \E n \in Notebooks : \/ PauseNotebook(n) \/ ResumeNotebook(n)
                                       \/ CancelPendingWritesForNotebook(n)
               \/ UNCHANGED vars
        PROVE  CopyInv'
    <3>1. UNCHANGED <<paused, running, pc, wasPaused, disturbed>>
      BY <2>9 DEF Write, PauseNotebook, ResumeNotebook, CancelPendingWritesForNotebook,
           writerVars, flushVars, vars
    <3>2. QED
      BY <3>1
  <2>10. QED
    BY <2>1, <2>2, <2>5, <2>6, <2>7, <2>8, <2>9 DEF Next, Reloaded
<1>3. QED
  BY <1>1, <1>2, TypeCorrect, PTL DEF Spec

-----------------------------------------------------------------------------
(* The largest generation *)

\* A bounded, non-empty set of naturals has a largest element.
LEMMA BoundedHasMax ==
    ASSUME NEW n \in Nat, NEW S \in SUBSET (0 .. n), S # {}
    PROVE  \E x \in S : \A y \in S : x >= y
<1> DEFINE R == {ss \in Nat \X Nat : ss[1] < ss[2]}
           T == {n - x : x \in S}
<1>1. IsWellFoundedOn(R, Nat)
  BY NatLessThanWellFounded DEF OpToRel
<1>2. \A x \in S : n - x \in Nat
  OBVIOUS
<1>3. T \subseteq Nat
  BY <1>2
<1>4. T # {}
  <2>1. PICK x \in S : TRUE
    OBVIOUS
  <2>2. n - x \in T
    OBVIOUS
  <2>3. QED
    BY <2>2
<1> HIDE DEF R
<1>5. PICK t \in T : \A u \in T : ~(<<u, t>> \in R)
  BY <1>1, <1>3, <1>4, WFMin
<1>6. PICK x \in S : t = n - x
  BY <1>5
<1>7. ASSUME NEW y \in S PROVE x >= y
  <2>1. n - y \in T
    OBVIOUS
  <2>2. ~(<<n - y, t>> \in R)
    BY <2>1, <1>5
  <2>3. n - y \in Nat /\ t \in Nat
    BY <1>3, <2>1
  <2>4. ~(n - y < t)
    BY <2>2, <2>3 DEF R
  <2>5. QED
    BY <2>4, <1>6
<1>8. QED
  BY <1>7

\* getNotebookWriteGeneration() is the generation of one of the files, and no
\* file has a newer one.
LEMMA WriteGenerationIsMax ==
    ASSUME TypeOK
    PROVE  /\ WriteGeneration \in {keyGen[k] : k \in FilesOf(current)} \cup {NoTask}
           /\ \A k \in FilesOf(current) : keyGen[k] <= WriteGeneration
<1> DEFINE S == {keyGen[k] : k \in FilesOf(current)} \cup {NoTask}
<1>1. S \in SUBSET (0 .. MaxWrites)
  BY KeysAssumption, BoundsAssumption DEF TypeOK, WriterTypeOK, FilesOf, Gens, NoTask
<1>2. PICK x \in S : \A y \in S : x >= y
  <2>1. S # {}
    OBVIOUS
  <2>2. MaxWrites \in Nat
    BY BoundsAssumption
  <2> HIDE DEF S
  <2>3. QED
    BY <1>1, <2>1, <2>2, BoundedHasMax
<1> HIDE DEF S
<1>3. Max(S) \in S /\ \A y \in S : Max(S) >= y
  BY <1>2 DEF Max
<1>4. WriteGeneration = Max(S)
  BY DEF WriteGeneration, S
<1>5. \A k \in FilesOf(current) : keyGen[k] \in S
  BY DEF S
<1>6. S \subseteq Int
  BY <1>1, BoundsAssumption
<1>7. \A k \in FilesOf(current) : keyGen[k] <= WriteGeneration
  BY <1>3, <1>4, <1>5, <1>6
<1>8. QED
  BY <1>3, <1>4, <1>7 DEF S

-----------------------------------------------------------------------------
(* The composition implements the writer *)

QueueTypeOK ==
    /\ queued \subseteq Notebooks
    /\ events \subseteq Notebooks
    /\ current \in Notebooks

\* The notebooks in the queue of the loop are notebooks of the app.
LEMMA QueueType == SyncSpec => []QueueTypeOK
<1>1. SyncInit => QueueTypeOK
  BY DEF SyncInit, QueueTypeOK
<1>2. QueueTypeOK /\ [SyncNext]_allVars => QueueTypeOK'
  <2> SUFFICES ASSUME QueueTypeOK, [SyncNext]_allVars PROVE QueueTypeOK'
    OBVIOUS
  <2> USE DEF QueueTypeOK
  <2>1. ASSUME UNCHANGED <<queued, events, current>> PROVE QueueTypeOK'
    BY <2>1
  <2>2. ASSUME NEW k \in Keys, events' = Notify(k), UNCHANGED <<queued, current>> PROVE QueueTypeOK'
    BY <2>2, KeysAssumption DEF Notify
  <2>3. ASSUME NEW k \in Keys, NEW c \in Contents, EditScript(k, c) \/ ExternalEdit(k, c)
        PROVE  QueueTypeOK'
    BY <2>1, <2>2, <2>3 DEF EditScript, ExternalEdit, loopVars
  <2>4. ASSUME NEW e \in running, SaveReachesDisk(e) \/ SaveSucceeds(e) \/ SaveFails(e)
        PROVE  QueueTypeOK'
    <3>1. events' = events \/ events' = Notify(e.key)
      BY <2>4 DEF SaveReachesDisk, SaveSucceeds, SaveFails
    <3>2. UNCHANGED <<queued, current>>
      BY <2>4 DEF SaveReachesDisk, SaveSucceeds, SaveFails, loopVars
    <3>3. events' \subseteq Notebooks
      BY <3>1, KeysAssumption DEF Notify
    <3>4. QED
      BY <3>2, <3>3
  <2>5. ASSUME NEW n \in Notebooks, EnqueueReload(n) PROVE QueueTypeOK'
    BY <2>5 DEF EnqueueReload, ReloadBegins
  <2>6. CASE LoopContinues
    BY <2>6 DEF LoopContinues, ReloadBegins
  <2>7. CASE AcceptStale
    BY <2>7 DEF AcceptStale
  <2>8. ASSUME \/ \E k \in Keys : SyncTimerFires(k)
               \/ \E k \in Reloadable : ReadFile(k)
               \/ Settle \/ ReadFails \/ Compare \/ AnswerKeep \/ AskAgain
               \/ AcceptReload \/ Release \/ Idle \/ UNCHANGED allVars
        PROVE  UNCHANGED <<queued, events, current>>
    BY <2>8 DEF SyncTimerFires, ReadFile, Settle, ReadFails, Compare, AnswerKeep, AskAgain,
         AcceptReload, Release, Idle, allVars, syncVars, loopVars
  <2>9. QED
    BY <2>1, <2>3, <2>4, <2>5, <2>6, <2>7, <2>8 DEF SyncNext, LoopNext
<1>3. QED
  BY <1>1, <1>2, PTL DEF SyncSpec

\* Every step of the composition is a step of the writer or leaves it alone.
LEMMA SyncStepIsWriterStep == QueueTypeOK /\ [SyncNext]_allVars => [Next]_vars
<1> SUFFICES ASSUME QueueTypeOK, [SyncNext]_allVars PROVE [Next]_vars
  OBVIOUS
<1>1. ASSUME NEW k \in Keys, Write(k) \/ TimerFires(k) \/ StrayTimerFires(k) PROVE [Next]_vars
  BY <1>1 DEF Next
<1>2. ASSUME NEW e \in running, ExecutionSucceeds(e) \/ ExecutionFails(e) PROVE [Next]_vars
  BY <1>2 DEF Next
<1>3. ASSUME NEW n \in Notebooks,
             PauseNotebook(n) \/ ResumeNotebook(n) \/ CancelPendingWritesForNotebook(n)
      PROVE  [Next]_vars
  BY <1>3 DEF Next
<1>4. ASSUME NEW k \in Keys, NEW c \in Contents, EditScript(k, c) \/ ExternalEdit(k, c)
      PROVE  Write(k) \/ UNCHANGED vars
  BY <1>4 DEF EditScript, ExternalEdit
<1>5. ASSUME NEW e \in running, SaveReachesDisk(e) \/ SaveSucceeds(e) \/ SaveFails(e)
      PROVE  ExecutionSucceeds(e) \/ ExecutionFails(e) \/ UNCHANGED vars
  BY <1>5 DEF SaveReachesDisk, SaveSucceeds, SaveFails
<1>6. ASSUME NEW n \in Notebooks, EnqueueReload(n)
      PROVE  PauseNotebook(n) \/ UNCHANGED vars
  BY <1>6 DEF EnqueueReload, ReloadBegins
<1>7. ASSUME LoopContinues
      PROVE  (\E n \in Notebooks : PauseNotebook(n)) \/ UNCHANGED vars
  BY <1>7 DEF LoopContinues, ReloadBegins, QueueTypeOK
<1>8. ASSUME AcceptReload \/ Release
      PROVE  ResumeNotebook(current) \/ CancelPendingWritesForNotebook(current) \/ UNCHANGED vars
  BY <1>8 DEF AcceptReload, Release
<1>9. ASSUME \/ \E k \in Reloadable : ReadFile(k)
             \/ Settle \/ ReadFails \/ Compare \/ AnswerKeep \/ AskAgain \/ AcceptStale
             \/ Idle \/ UNCHANGED allVars
      PROVE  UNCHANGED vars
  BY <1>9 DEF ReadFile, Settle, ReadFails, Compare, AnswerKeep, AskAgain, AcceptStale,
       Idle, allVars
<1>10. current \in Notebooks
  BY DEF QueueTypeOK
<1>11. ASSUME NEW k \in Keys, SyncTimerFires(k) PROVE TimerFires(k) \/ StrayTimerFires(k)
  BY <1>11 DEF SyncTimerFires
<1>12. QED
  BY <1>1, <1>2, <1>3, <1>4, <1>5, <1>6, <1>7, <1>8, <1>9, <1>10, <1>11 DEF SyncNext, LoopNext

\* The synchronised app is an implementation of StorageWriter: the reload loop
\* uses the writer only the way the theorems about the writer allow.
THEOREM SyncImplementsWriter == SyncSpec => Spec
<1>1. SyncInit => Init
  BY DEF SyncInit
<1>2. QED
  BY <1>1, QueueType, SyncStepIsWriterStep, PTL DEF SyncSpec, Spec

-----------------------------------------------------------------------------
(* Holding and reading *)

Resting == phase \in {"idle", "looping"}

HoldInv == held = IF Resting THEN {} ELSE {current}

\* The actions that change neither the hold nor the notebook being reloaded.
LEMMA HoldSteps ==
    ASSUME [SyncNext]_allVars
    PROVE  \/ UNCHANGED <<held, current>> /\ (Resting <=> Resting')
           \/ \E n \in Notebooks : EnqueueReload(n) /\ phase = "idle"
           \/ LoopContinues
           \/ Release
<1>1. ASSUME NEW k \in Keys, NEW c \in Contents, EditScript(k, c) \/ ExternalEdit(k, c)
      PROVE  UNCHANGED <<held, current, phase>>
  BY <1>1 DEF EditScript, ExternalEdit, Write, loopVars, vars
<1>2. ASSUME NEW k \in Keys, SyncTimerFires(k) PROVE UNCHANGED <<held, current, phase>>
  BY <1>2 DEF SyncTimerFires, TimerFires, StrayTimerFires, syncVars, loopVars
<1>3. ASSUME NEW e \in running, SaveReachesDisk(e) \/ SaveSucceeds(e) \/ SaveFails(e)
      PROVE  UNCHANGED <<held, current, phase>>
  BY <1>3 DEF SaveReachesDisk, SaveSucceeds, SaveFails, ExecutionSucceeds, ExecutionFails, Finish,
       loopVars, vars
<1>4. ASSUME NEW n \in Notebooks, EnqueueReload(n), phase # "idle"
      PROVE  UNCHANGED <<held, current, phase>>
  BY <1>4 DEF EnqueueReload, vars
<1>5. ASSUME \/ \E k \in Reloadable : ReadFile(k)
             \/ Settle \/ ReadFails \/ Compare \/ AnswerKeep \/ AskAgain \/ AcceptStale
             \/ AcceptReload
      PROVE  UNCHANGED <<held, current>> /\ ~Resting /\ ~Resting'
  BY <1>5 DEF ReadFile, Settle, ReadFails, Compare, AnswerKeep, AskAgain, AcceptStale, AcceptReload,
       Accepted, Destructive, CancelPendingWritesForNotebook, Resting, vars
<1>6. ASSUME Idle \/ UNCHANGED allVars PROVE UNCHANGED <<held, current, phase>>
  BY <1>6 DEF Idle, allVars, vars, syncVars, loopVars
<1>7. UNCHANGED <<held, current, phase>> => UNCHANGED <<held, current>> /\ (Resting <=> Resting')
  BY DEF Resting
<1>8. QED
  BY <1>1, <1>2, <1>3, <1>4, <1>5, <1>6, <1>7 DEF SyncNext, LoopNext

\* A notebook is held exactly while the loop works on it.
LEMMA HoldIsTracked == SyncSpec => []HoldInv
<1>1. SyncInit => HoldInv
  BY DEF SyncInit, Init, HoldInv, Resting
<1>2. HoldInv /\ [SyncNext]_allVars => HoldInv'
  <2> SUFFICES ASSUME HoldInv, [SyncNext]_allVars PROVE HoldInv'
    OBVIOUS
  <2>1. CASE UNCHANGED <<held, current>> /\ (Resting <=> Resting')
    BY <2>1 DEF HoldInv
  <2>2. ASSUME NEW n \in Notebooks, EnqueueReload(n), phase = "idle" PROVE HoldInv'
    BY <2>2 DEF EnqueueReload, ReloadBegins, PauseNotebook, HoldInv, Resting
  <2>3. CASE LoopContinues
    BY <2>3 DEF LoopContinues, ReloadBegins, PauseNotebook, HoldInv, Resting, vars
  <2>4. CASE Release
    BY <2>4 DEF Release, ResumeNotebook, HoldInv, Resting
  <2>5. QED
    BY <2>1, <2>2, <2>3, <2>4, HoldSteps
<1>3. QED
  BY <1>1, <1>2, PTL DEF SyncSpec

\* Every path out of a reload resumes the notebook (HeldWhileReloading).
THEOREM HoldsAreReleased == SyncSpec => []HeldWhileReloading
<1>1. HoldInv => HeldWhileReloading
  BY DEF HoldInv, HeldWhileReloading, Resting
<1>2. QED
  BY <1>1, HoldIsTracked, PTL

\* Only a timer of a notebook that is not held starts an execution.
LEMMA SyncStarts ==
    ASSUME [SyncNext]_allVars
    PROVE  \A e \in running' : e \in running \/ ~Held(e.key)
<1>1. ASSUME running' \subseteq running PROVE \A e \in running' : e \in running \/ ~Held(e.key)
  BY <1>1
<1>2. ASSUME NEW k \in Keys, SyncTimerFires(k)
      PROVE  running' = running \/ (~Held(k) /\ running' = running \cup {[key |-> k, gen |-> pending[k]]})
  BY <1>2 DEF SyncTimerFires, TimerFires, StrayTimerFires, ProcessTask, StartTask
<1>3. ASSUME NEW k \in Keys, NEW c \in Contents, EditScript(k, c) \/ ExternalEdit(k, c)
      PROVE  running' \subseteq running
  BY <1>3 DEF EditScript, ExternalEdit, Write, vars
<1>4. ASSUME NEW e \in running, SaveReachesDisk(e) \/ SaveSucceeds(e) \/ SaveFails(e)
      PROVE  running' \subseteq running
  BY <1>4 DEF SaveReachesDisk, SaveSucceeds, SaveFails, ExecutionSucceeds, ExecutionFails, Finish, vars
<1>5. ASSUME \/ \E n \in Notebooks : EnqueueReload(n)
             \/ LoopContinues \/ AcceptReload \/ Release
      PROVE  running' \subseteq running
  BY <1>5 DEF EnqueueReload, LoopContinues, ReloadBegins, PauseNotebook, AcceptReload, Release,
       CancelPendingWritesForNotebook, ResumeNotebook, vars
<1>6. ASSUME \/ \E k \in Reloadable : ReadFile(k)
             \/ Settle \/ ReadFails \/ Compare \/ AnswerKeep \/ AskAgain \/ AcceptStale
             \/ Idle \/ UNCHANGED allVars
      PROVE  running' \subseteq running
  BY <1>6 DEF ReadFile, Settle, ReadFails, Compare, AnswerKeep, AskAgain, AcceptStale, Idle,
       allVars, vars
<1>7. ASSUME NEW k \in Keys, SyncTimerFires(k)
      PROVE  \A e \in running' : e \in running \/ ~Held(e.key)
  BY <1>2, <1>7
<1>8. QED
  BY <1>1, <1>3, <1>4, <1>5, <1>6, <1>7 DEF SyncNext, LoopNext

\* While a snapshot is taken, no write of the app to that notebook is in flight
\* (StableRead): settle() waited for those that were, and the hold keeps new
\* ones from starting.
THEOREM ReadsAreStable == SyncSpec => []StableRead
<1>1. SyncInit => StableRead
  BY DEF SyncInit, StableRead
<1>2. HoldInv /\ StableRead /\ [SyncNext]_allVars => StableRead'
  <2> SUFFICES ASSUME HoldInv, StableRead, [SyncNext]_allVars, phase' = "reading",
                      NEW e \in running'
               PROVE  NotebookOf[e.key] # current'
    BY DEF StableRead
  <2>1. CASE phase = "reading"
    <3>1. current' = current
      BY <2>1, HoldSteps DEF EnqueueReload, LoopContinues, Release, Resting
    <3>2. held = {current}
      BY <2>1 DEF HoldInv, Resting
    <3>3. e \in running \/ ~Held(e.key)
      BY SyncStarts
    <3>4. QED
      BY <2>1, <3>1, <3>2, <3>3 DEF StableRead, Held
  <2>2. CASE phase # "reading"
    <3>1. running' = {}
      <4>1. Settle
        BY <2>2 DEF SyncNext, LoopNext, allVars, syncVars, loopVars, EditScript, ExternalEdit,
             SyncTimerFires, SaveReachesDisk, SaveSucceeds, SaveFails, EnqueueReload, ReloadBegins,
             LoopContinues, ReadFails, Compare, ReadFile, AnswerKeep, AskAgain, AcceptStale,
             AcceptReload, Release, Idle
      <4>2. QED
        BY <4>1 DEF Settle, vars
    <3>2. QED
      BY <3>1
  <2>3. QED
    BY <2>1, <2>2
<1>3. QED
  BY <1>1, <1>2, HoldIsTracked, PTL DEF SyncSpec

-----------------------------------------------------------------------------
(* The dialogs *)

Asking == phase \in {"asking", "warning", "confirming"}

PromptInv ==
    /\ promptGen \in Int
    /\ Asking => promptGen < nextGen
    /\ phase = "asking" => \A k \in ReloadPending : keyGen[k] > promptGen
    /\ phase = "confirming" => \E k \in FilesOf(current) : keyGen[k] > promptGen

\* Generations only grow, and a key is pending because it was, or because it has
\* just been written.
LEMMA SyncGenerations ==
    ASSUME TypeOK, [SyncNext]_allVars
    PROVE  /\ nextGen' \in Int /\ nextGen' >= nextGen
           /\ \A k \in Keys : \/ keyGen'[k] = keyGen[k] /\ pending'[k] \in {pending[k], NoTask}
                              \/ keyGen'[k] = nextGen
<1> DEFINE Calm == /\ UNCHANGED <<nextGen, keyGen>>
                   /\ \A k \in Keys : pending'[k] \in {pending[k], NoTask}
<1>0. nextGen \in Int
  BY BoundsAssumption DEF TypeOK, WriterTypeOK
<1>1. ASSUME NEW k \in Keys, Write(k)
      PROVE  /\ nextGen' = nextGen + 1
             /\ \A j \in Keys : \/ keyGen'[j] = keyGen[j] /\ pending'[j] = pending[j]
                                \/ keyGen'[j] = nextGen
  BY <1>1 DEF Write, TypeOK, WriterTypeOK
<1>2. ASSUME UNCHANGED vars PROVE Calm
  BY <1>2 DEF vars
<1>3. ASSUME NEW k \in Keys, SyncTimerFires(k) PROVE Calm
  BY <1>3 DEF SyncTimerFires, TimerFires, StrayTimerFires, ProcessTask, StartTask, genVars,
       TypeOK, WriterTypeOK
<1>4. ASSUME NEW e \in running, SaveReachesDisk(e) \/ SaveSucceeds(e) \/ SaveFails(e) PROVE Calm
  BY <1>4, <1>2 DEF SaveReachesDisk, SaveSucceeds, SaveFails, ExecutionSucceeds, ExecutionFails,
       Finish, genVars
<1>5. ASSUME NEW n \in Notebooks, EnqueueReload(n) PROVE Calm
  BY <1>5, <1>2 DEF EnqueueReload, ReloadBegins, PauseNotebook, genVars
<1>6. ASSUME LoopContinues PROVE Calm
  BY <1>6, <1>2 DEF LoopContinues, ReloadBegins, PauseNotebook, genVars
<1>7. ASSUME AcceptReload PROVE Calm
  <2>1. CASE CancelPendingWritesForNotebook(current)
    BY <2>1 DEF CancelPendingWritesForNotebook, genVars
  <2>2. QED
    BY <1>7, <1>2, <2>1 DEF AcceptReload
<1>8. ASSUME Release PROVE Calm
  BY <1>8 DEF Release, ResumeNotebook, genVars
<1>9. ASSUME \/ \E k \in Reloadable : ReadFile(k)
             \/ \E k \in Keys, c \in Contents : ExternalEdit(k, c)
             \/ Settle \/ ReadFails \/ Compare \/ AnswerKeep \/ AskAgain \/ AcceptStale
             \/ Idle \/ UNCHANGED allVars
      PROVE  UNCHANGED vars
  BY <1>9 DEF ReadFile, ExternalEdit, Settle, ReadFails, Compare, AnswerKeep, AskAgain, AcceptStale,
       Idle, allVars
<1>10. (\E k \in Keys : Write(k)) \/ Calm
  <2>1. ASSUME NEW k \in Keys, NEW c \in Contents, EditScript(k, c) PROVE Write(k)
    BY <2>1 DEF EditScript
  <2> HIDE DEF Calm
  <2>2. QED
    BY <1>2, <1>3, <1>4, <1>5, <1>6, <1>7, <1>8, <1>9, <2>1 DEF SyncNext, LoopNext
<1>11. QED
  BY <1>0, <1>1, <1>10

\* A dialog is opened by Compare or AskAgain, and stays open otherwise.
LEMMA DialogSteps ==
    ASSUME [SyncNext]_allVars, Asking'
    PROVE  \/ UNCHANGED <<phase, promptGen, current>>
           \/ Compare \/ AskAgain
  BY DEF Asking, SyncNext, LoopNext, allVars, syncVars, loopVars, EditScript, ExternalEdit,
       SyncTimerFires, SaveReachesDisk, SaveSucceeds, SaveFails, EnqueueReload, ReloadBegins,
       LoopContinues, Settle, ReadFails, ReadFile, AnswerKeep, AcceptStale,
       AcceptReload, Release, Idle

\* What the open dialog knows about the local edits stays true while it is open.
LEMMA PromptIsTracked == SyncSpec => []PromptInv
<1>1. SyncInit => PromptInv
  BY DEF SyncInit, PromptInv, Asking, NoTask
<1>2. TypeOK /\ NewestInv /\ PromptInv /\ [SyncNext]_allVars => PromptInv'
  <2> SUFFICES ASSUME TypeOK, NewestInv, PromptInv, [SyncNext]_allVars PROVE PromptInv'
    OBVIOUS
  <2>1. /\ nextGen \in Int /\ NoTask \in Int
        /\ \A k \in Keys : keyGen[k] \in Int /\ keyGen[k] < nextGen
    BY BoundsAssumption DEF TypeOK, WriterTypeOK, NewestInv, Gens, NoTask
  <2>2. /\ WriteGeneration \in Int
        /\ WriteGeneration < nextGen
        /\ \A k \in FilesOf(current) : keyGen[k] <= WriteGeneration
    <3>1. \A k \in FilesOf(current) : k \in Keys
      BY KeysAssumption DEF FilesOf
    <3>2. NoTask < nextGen
      BY BoundsAssumption DEF TypeOK, WriterTypeOK, NoTask
    <3>3. QED
      BY <2>1, <3>1, <3>2, WriteGenerationIsMax
  <2>3. promptGen' = promptGen \/ Compare
    BY DEF SyncNext, LoopNext, allVars, syncVars, loopVars, EditScript, ExternalEdit,
         SyncTimerFires, SaveReachesDisk, SaveSucceeds, SaveFails, EnqueueReload, ReloadBegins,
         LoopContinues, Settle, ReadFails, ReadFile, AnswerKeep, AskAgain, AcceptStale,
         AcceptReload, Release, Idle
  <2>4. promptGen' \in Int
    BY <2>2, <2>3 DEF Compare, PromptInv
  <2>5. CASE Compare
    <3>1. UNCHANGED <<nextGen, keyGen, pending, current>>
      BY <2>5 DEF Compare, vars
    <3>2. Asking' => promptGen' = WriteGeneration
      BY <2>5 DEF Compare, Asking
    <3>3. phase' = "asking" => ReloadPending = {}
      BY <2>5 DEF Compare
    <3>4. phase' # "confirming"
      BY <2>5 DEF Compare
    <3>5. ReloadPending' = ReloadPending
      BY <3>1 DEF ReloadPending, PendingOf, PendingKeys, IsPending
    <3>6. QED
      BY <2>2, <2>4, <3>1, <3>2, <3>3, <3>4, <3>5 DEF PromptInv
  <2>6. CASE AskAgain
    <3>1. UNCHANGED <<nextGen, keyGen, current, promptGen>>
      BY <2>6 DEF AskAgain, vars
    <3>2. phase = "asking" /\ phase' = "confirming" /\ ReloadPending # {}
      BY <2>6 DEF AskAgain
    <3>3. PICK k \in ReloadPending : keyGen[k] > promptGen
      BY <3>2 DEF PromptInv
    <3>4. k \in FilesOf(current) /\ FilesOf(current)' = FilesOf(current)
      BY <3>1, <3>3 DEF ReloadPending, PendingOf, FilesOf
    <3>5. promptGen' < nextGen'
      BY <3>1, <3>2 DEF PromptInv, Asking
    <3>6. QED
      BY <2>4, <3>1, <3>2, <3>3, <3>4, <3>5 DEF PromptInv
  <2>7. CASE UNCHANGED <<phase, promptGen, current>>
    <3>1. Asking' => promptGen' < nextGen'
      BY <2>1, <2>7, SyncGenerations DEF PromptInv, Asking
    <3>2. ASSUME phase' = "asking", NEW k \in ReloadPending' PROVE keyGen'[k] > promptGen'
      <4>1. k \in Keys /\ k \in FilesOf(current) /\ pending'[k] # NoTask
        BY <2>7 DEF ReloadPending, PendingOf, PendingKeys, IsPending, FilesOf
      <4>2. CASE keyGen'[k] = nextGen
        BY <2>1, <2>7, <3>2, <4>2 DEF PromptInv, Asking
      <4>3. CASE keyGen'[k] = keyGen[k] /\ pending'[k] = pending[k]
        <5>1. k \in ReloadPending
          BY <4>1, <4>3 DEF ReloadPending, PendingOf, PendingKeys, IsPending, FilesOf
        <5>2. QED
          BY <5>1, <2>7, <3>2, <4>3 DEF PromptInv
      <4>4. QED
        BY <4>1, <4>2, <4>3, SyncGenerations
    <3>3. ASSUME phase' = "confirming" PROVE \E k \in FilesOf(current') : keyGen'[k] > promptGen'
      <4>1. PICK k \in FilesOf(current) : keyGen[k] > promptGen
        BY <2>7, <3>3 DEF PromptInv
      <4>2. k \in Keys
        BY KeysAssumption DEF FilesOf
      <4>3. promptGen < nextGen
        BY <2>7, <3>3 DEF PromptInv, Asking
      <4>4. keyGen'[k] > promptGen'
        BY <2>1, <2>7, <4>1, <4>2, <4>3, SyncGenerations
      <4>5. QED
        BY <2>7, <4>1, <4>4
    <3>4. QED
      BY <2>4, <3>1, <3>2, <3>3 DEF PromptInv, FilesOf
  <2>8. CASE ~Asking'
    BY <2>4, <2>8 DEF PromptInv, Asking
  <2>9. QED
    BY <2>5, <2>6, <2>7, <2>8, DialogSteps
<1>3. QED
  BY <1>1, <1>2, SyncImplementsWriter, TypeCorrect, OwnersAreTracked, PTL DEF SyncSpec

\* The answer to the second dialog is always found stale (SecondAnswerIsStale):
\* the edit it is about is newer than the generation of the first.
THEOREM SecondAnswerNeverApplies == SyncSpec => []SecondAnswerIsStale
<1>1. TypeOK /\ PromptInv => SecondAnswerIsStale
  <2> SUFFICES ASSUME TypeOK, PromptInv, phase = "confirming" PROVE WriteGeneration # promptGen
    BY DEF SecondAnswerIsStale
  <2>1. PICK k \in FilesOf(current) : keyGen[k] > promptGen
    BY DEF PromptInv
  <2>2. keyGen[k] \in Int
    BY KeysAssumption, BoundsAssumption DEF FilesOf, TypeOK, WriterTypeOK, Gens, NoTask
  <2>3. keyGen[k] <= WriteGeneration
    BY WriteGenerationIsMax
  <2>4. promptGen \in Int
    BY DEF PromptInv
  <2>5. QED
    BY <2>1, <2>2, <2>3, <2>4
<1>2. QED
  BY <1>1, PromptIsTracked, SyncImplementsWriter, TypeCorrect, PTL

\* A local edit that waits to be saved is given up only in favour of the disk
\* version of its own notebook, after a dialog that said so, and not if it is
\* newer than that dialog (NoSilentDiscard).
THEOREM EditsAreNotDiscardedSilently == SyncSpec => NoSilentDiscard
<1>1. TypeOK /\ OwnerInv /\ NewestInv /\ [SyncNext]_allVars => DiscardsAreInformed
  <2> SUFFICES ASSUME TypeOK, OwnerInv, NewestInv, [SyncNext]_allVars, NEW k \in Keys, Discards(k)
               PROVE  k \in FilesOf(current) /\ Destructive /\ pending[k] <= promptGen
    BY DEF DiscardsAreInformed
  <2>1. ASSUME NEW j \in Keys, SyncTimerFires(j) PROVE FALSE
    <3>1. memory' = memory
      BY <2>1 DEF SyncTimerFires, syncVars, fileVars
    <3>2. pending[k] # NoTask /\ pending'[k] = NoTask /\ running' = running
      BY <3>1 DEF Discards, IsPending
    <3>3. [key |-> k, gen |-> pending[k]] \in running'
      BY <2>1, <3>2 DEF SyncTimerFires, TimerFires, StrayTimerFires, ProcessTask, StartTask,
           TypeOK, WriterTypeOK
    <3>4. QED
      BY <3>2, <3>3 DEF OwnerInv, SlotOrFlight
  <2>2. ASSUME NEW j \in Keys, NEW c \in Contents, EditScript(j, c) PROVE FALSE
    BY <2>2, BoundsAssumption DEF EditScript, Write, Discards, TypeOK, WriterTypeOK
  <2>3. ASSUME UNCHANGED <<pending, memory>> PROVE FALSE
    BY <2>3 DEF Discards, IsPending
  <2>4. ASSUME NEW e \in running, SaveReachesDisk(e) \/ SaveSucceeds(e) \/ SaveFails(e) PROVE FALSE
    BY <2>3, <2>4 DEF SaveReachesDisk, SaveSucceeds, SaveFails, ExecutionSucceeds, ExecutionFails,
         Finish, vars
  <2>5. ASSUME \/ \E n \in Notebooks : EnqueueReload(n)
               \/ LoopContinues \/ Release
        PROVE  FALSE
    BY <2>3, <2>5 DEF EnqueueReload, LoopContinues, ReloadBegins, PauseNotebook, Release,
         ResumeNotebook, vars, fileVars
  <2>6. ASSUME \/ \E j \in Reloadable : ReadFile(j)
               \/ \E j \in Keys, c \in Contents : ExternalEdit(j, c)
               \/ Settle \/ ReadFails \/ Compare \/ AnswerKeep \/ AskAgain \/ AcceptStale
               \/ Idle \/ UNCHANGED allVars
        PROVE  FALSE
    BY <2>3, <2>6 DEF ReadFile, ExternalEdit, Settle, ReadFails, Compare, AnswerKeep, AskAgain,
         AcceptStale, Idle, allVars, vars, syncVars, fileVars
  <2>7. AcceptReload
    BY <2>1, <2>2, <2>4, <2>5, <2>6 DEF SyncNext, LoopNext
  <2>8. k \in FilesOf(current)
    <3>1. CASE pending'[k] = NoTask
      BY <2>7, <3>1 DEF AcceptReload, CancelPendingWritesForNotebook, Discards, IsPending, PendingOf,
           FilesOf, vars
    <3>2. CASE memory'[k] # memory[k]
      BY <2>7, <3>2 DEF AcceptReload
    <3>3. QED
      BY <3>1, <3>2 DEF Discards
  <2>9. Destructive
    <3>1. k \in ReloadPending
      BY <2>8 DEF Discards, ReloadPending, PendingOf, PendingKeys, FilesOf
    <3>2. QED
      BY <2>7, <3>1 DEF AcceptReload, Accepted
  <2>10. pending[k] <= promptGen
    <3>1. pending[k] = keyGen[k]
      BY DEF Discards, NewestInv, NewestIsPending
    <3>2. WriteGeneration = promptGen
      BY <2>7 DEF AcceptReload
    <3>3. QED
      BY <2>8, <3>1, <3>2, WriteGenerationIsMax
  <2>11. QED
    BY <2>8, <2>9, <2>10
<1>2. QED
  BY <1>1, SyncImplementsWriter, TypeCorrect, OwnersAreTracked, PTL DEF SyncSpec, NoSilentDiscard

-----------------------------------------------------------------------------
(* Types of the files and of the loop *)

\* The files, the snapshot and the state of the loop keep their types.
THEOREM SyncTypeCorrect == SyncSpec => []SyncTypeOK
<1>1. SyncInit => FilesTypeOK /\ LoopTypeOK
  BY ContentsAssumption, ExternalAssumption
     DEF SyncInit, Init, FilesTypeOK, LoopTypeOK, Phases
<1>2. TypeOK /\ QueueTypeOK' /\ FilesTypeOK /\ LoopTypeOK /\ [SyncNext]_allVars
        => FilesTypeOK' /\ LoopTypeOK'
  <2> SUFFICES ASSUME TypeOK, QueueTypeOK', FilesTypeOK, LoopTypeOK, [SyncNext]_allVars
               PROVE  FilesTypeOK' /\ LoopTypeOK'
    OBVIOUS
  <2>1. \A n : FilesOf(n) \subseteq Reloadable /\ FilesOf(n) \subseteq Keys
    BY KeysAssumption DEF FilesOf
  <2>2. WriteGeneration \in Gens \cup {NoTask}
    BY <2>1, WriteGenerationIsMax DEF TypeOK, WriterTypeOK
  <2>3. ASSUME NEW k \in Keys, NEW c \in Contents, EditScript(k, c)
        PROVE  FilesTypeOK' /\ LoopTypeOK'
    BY <2>3 DEF EditScript, Write, FilesTypeOK, LoopTypeOK, QueueTypeOK, loopVars
  <2>4. ASSUME NEW k \in Keys, NEW c \in Contents, ExternalEdit(k, c)
        PROVE  FilesTypeOK' /\ LoopTypeOK'
    BY <2>4, ExternalAssumption DEF ExternalEdit, FilesTypeOK, LoopTypeOK, QueueTypeOK, loopVars, vars
  <2>5. ASSUME NEW k \in Keys, SyncTimerFires(k) PROVE FilesTypeOK' /\ LoopTypeOK'
    <3>1. running \subseteq running'
      BY <2>5 DEF SyncTimerFires, TimerFires, StrayTimerFires, ProcessTask, StartTask
    <3>2. QED
      BY <2>5, <3>1 DEF SyncTimerFires, FilesTypeOK, LoopTypeOK, syncVars, fileVars, loopVars
  <2>6. ASSUME NEW e \in running, SaveReachesDisk(e) \/ SaveSucceeds(e) \/ SaveFails(e)
        PROVE  FilesTypeOK' /\ LoopTypeOK'
    <3>1. e.key \in Keys /\ e.gen \in Gens
      BY DEF TypeOK, WriterTypeOK, Executions
    <3>2. LoopTypeOK'
      BY <2>6 DEF SaveReachesDisk, SaveSucceeds, SaveFails, LoopTypeOK, QueueTypeOK, loopVars
    <3>3. CASE SaveReachesDisk(e)
      BY <3>1, <3>2, <3>3 DEF SaveReachesDisk, FilesTypeOK, vars
    <3>4. CASE SaveSucceeds(e)
      BY <3>1, <3>2, <3>4 DEF SaveSucceeds, ExecutionSucceeds, Finish, FilesTypeOK
    <3>5. CASE SaveFails(e)
      BY <3>1, <3>2, <3>5 DEF SaveFails, ExecutionFails, Finish, FilesTypeOK
    <3>6. QED
      BY <2>6, <3>3, <3>4, <3>5
  <2>7. ASSUME NEW n \in Notebooks, EnqueueReload(n) PROVE FilesTypeOK' /\ LoopTypeOK'
    BY <2>7 DEF EnqueueReload, ReloadBegins, PauseNotebook, FilesTypeOK, LoopTypeOK, QueueTypeOK,
         Phases, fileVars, vars
  <2>8. CASE LoopContinues
    BY <2>8 DEF LoopContinues, ReloadBegins, PauseNotebook, FilesTypeOK, LoopTypeOK, QueueTypeOK,
         Phases, fileVars, vars
  <2>9. CASE Settle \/ ReadFails
    BY <2>1, <2>9 DEF Settle, ReadFails, FilesTypeOK, LoopTypeOK, Phases, fileVars, vars
  <2>10. ASSUME NEW k \in Reloadable, ReadFile(k) PROVE FilesTypeOK' /\ LoopTypeOK'
    BY <2>10, KeysAssumption DEF ReadFile, FilesTypeOK, LoopTypeOK, fileVars, vars
  <2>11. CASE Compare
    BY <2>2, <2>11 DEF Compare, FilesTypeOK, LoopTypeOK, Phases, fileVars, vars
  <2>12. CASE AnswerKeep \/ AskAgain \/ AcceptStale
    BY <2>1, <2>12 DEF AnswerKeep, AskAgain, AcceptStale, Diverging, FilesTypeOK, LoopTypeOK, Phases,
         fileVars, vars
  <2>13. CASE AcceptReload
    <3>1. running' = running
      BY <2>13 DEF AcceptReload, CancelPendingWritesForNotebook, vars
    <3>2. QED
      BY <2>13, <3>1 DEF AcceptReload, FilesTypeOK, LoopTypeOK, Phases
  <2>14. CASE Release
    BY <2>14 DEF Release, ResumeNotebook, FilesTypeOK, LoopTypeOK, Phases, fileVars
  <2>15. CASE Idle \/ UNCHANGED allVars
    BY <2>15 DEF Idle, allVars, vars, syncVars, fileVars, loopVars, FilesTypeOK, LoopTypeOK
  <2>16. QED
    BY <2>3, <2>4, <2>5, <2>6, <2>7, <2>8, <2>9, <2>10, <2>11, <2>12, <2>13, <2>14, <2>15
       DEF SyncNext, LoopNext
<1>3. QED
  BY <1>1, <1>2, SyncImplementsWriter, TypeCorrect, QueueType, PTL DEF SyncSpec, SyncTypeOK

-----------------------------------------------------------------------------
(* A difference between the notebook and the disk is always accounted for *)

\* A reload of n that has not yet read its files is due or under way.
Handled(n) ==
    \/ n \in events \cup queued
    \/ current = n /\ phase = "settling"

Working(n) == current = n /\ phase \in {"settling", "reading", "asking", "warning", "confirming"}
NewestRuns(k) == \E e \in running : e.key = k /\ e.gen = keyGen[k]

Covered(k) ==
    \/ memory[k] = disk[k]
    \/ completed[k] = disk[k]
    \/ Handled(NotebookOf[k])
    \/ Working(NotebookOf[k])
    \/ IsPending(k)
    \/ NewestRuns(k)

\* What was read is what is on disk, unless another reload is due.
SnapInv ==
    \A k \in FilesOf(current) :
        (phase = "reading" /\ k \notin unread) \/ Asking
            => snapshot[k] = disk[k] \/ Handled(current)

\* A save that has reached the disk has caused an event that is not handled
\* before its execution is over.
SavedInv == \A e \in saved : e.key \in Reloadable => Handled(NotebookOf[e.key])

CoverInv == \A k \in Reloadable \ excused : Covered(k)

DivergenceInv ==
    /\ CoverInv
    /\ SavedInv
    /\ SnapInv
    /\ phase = "idle" => queued = {}

\* The steps of the editor, the other programs and the executions.
LEMMA DivergenceFileStep ==
    ASSUME TypeOK, OwnerInv, NewestInv, SyncTypeOK, DivergenceInv, Free,
           \/ \E k \in Keys, c \in Contents : EditScript(k, c) \/ ExternalEdit(k, c)
           \/ \E k \in Keys : SyncTimerFires(k)
           \/ \E e \in running : SaveReachesDisk(e) \/ SaveSucceeds(e) \/ SaveFails(e)
    PROVE  DivergenceInv'
<1>1. UNCHANGED <<queued, phase, current, unread, snapshot>>
  BY DEF EditScript, ExternalEdit, SyncTimerFires, SaveReachesDisk, SaveSucceeds, SaveFails,
       syncVars, loopVars
<1>2. events \subseteq events'
  BY DEF EditScript, ExternalEdit, SyncTimerFires, SaveReachesDisk, SaveSucceeds, SaveFails,
       syncVars, Notify
<1>3. \A n : (Handled(n) => Handled(n)') /\ (Working(n) => Working(n)')
  BY <1>1, <1>2 DEF Handled, Working
<1>4. phase' = "idle" => queued' = {}
  BY <1>1 DEF DivergenceInv
<1>5. \A k \in Reloadable : disk'[k] = disk[k] \/ Handled(NotebookOf[k])'
  BY <1>1, KeysAssumption
     DEF EditScript, ExternalEdit, SyncTimerFires, SaveReachesDisk, SaveSucceeds, SaveFails,
         syncVars, fileVars, Notify, Handled, SyncTypeOK, FilesTypeOK
<1>6. SnapInv'
  BY <1>1, <1>3, <1>5 DEF DivergenceInv, SnapInv, FilesOf, Asking
<1>7. SavedInv'
  <2>1. ASSUME NEW e \in saved', e \notin saved, e.key \in Reloadable
        PROVE  Handled(NotebookOf[e.key])'
    BY <2>1 DEF EditScript, ExternalEdit, SyncTimerFires, SaveReachesDisk, SaveSucceeds, SaveFails,
         syncVars, fileVars, Notify, Handled
  <2>2. QED
    BY <1>3, <2>1 DEF DivergenceInv, SavedInv
<1>8. CoverInv'
  <2> SUFFICES ASSUME NEW k \in Reloadable, k \notin excused' PROVE Covered(k)'
    BY DEF CoverInv
  <2>1. k \in Keys
    BY KeysAssumption
  <2>2. ASSUME NEW j \in Keys, NEW c \in Contents, EditScript(j, c) PROVE Covered(k)'
    <3>1. CASE k = j
      <4>1. pending'[k] # NoTask
        BY <2>2, <3>1, BoundsAssumption DEF EditScript, Write, TypeOK, WriterTypeOK, NoTask
      <4>2. QED
        BY <4>1 DEF Covered, IsPending
    <3>2. CASE k # j
      <4>1. /\ UNCHANGED <<memory[k], disk, completed, running, pending[k], keyGen[k]>>
            /\ k \notin excused
        BY <2>1, <2>2, <3>2 DEF EditScript, Write, TypeOK, WriterTypeOK, SyncTypeOK, FilesTypeOK
      <4>2. QED
        BY <1>3, <4>1 DEF DivergenceInv, CoverInv, Covered, IsPending, NewestRuns
    <3>3. QED
      BY <3>1, <3>2
  <2>3. ASSUME NEW j \in Keys, NEW c \in Contents, ExternalEdit(j, c) PROVE Covered(k)'
    <3>1. CASE k = j
      BY <2>3, <3>1 DEF ExternalEdit, Notify, Covered, Handled
    <3>2. CASE k # j
      <4>1. /\ UNCHANGED <<memory, disk[k], completed, running, pending, keyGen>>
            /\ k \notin excused
        BY <2>1, <2>3, <3>2 DEF ExternalEdit, vars, SyncTypeOK, FilesTypeOK
      <4>2. QED
        BY <1>3, <4>1 DEF DivergenceInv, CoverInv, Covered, IsPending, NewestRuns
    <3>3. QED
      BY <3>1, <3>2
  <2>4. ASSUME NEW j \in Keys, SyncTimerFires(j) PROVE Covered(k)'
    <3>1. UNCHANGED <<memory, disk, completed, keyGen, excused>> /\ running \subseteq running'
      BY <2>4 DEF SyncTimerFires, TimerFires, StrayTimerFires, ProcessTask, StartTask, genVars,
           syncVars, fileVars
    <3>2. IsPending(k) => IsPending(k)' \/ NewestRuns(k)'
      <4> SUFFICES ASSUME IsPending(k), pending'[k] # pending[k] PROVE NewestRuns(k)'
        BY DEF IsPending
      <4>1. [key |-> k, gen |-> pending[k]] \in running'
        BY <2>1, <2>4 DEF SyncTimerFires, TimerFires, StrayTimerFires, ProcessTask, StartTask,
             TypeOK, WriterTypeOK
      <4>2. pending[k] = keyGen[k]
        BY <2>1 DEF NewestInv, NewestIsPending
      <4>3. QED
        BY <3>1, <4>1, <4>2 DEF NewestRuns
    <3>3. NewestRuns(k) => NewestRuns(k)'
      BY <3>1 DEF NewestRuns
    <3>4. QED
      BY <1>3, <3>1, <3>2, <3>3 DEF DivergenceInv, CoverInv, Covered
  <2>5. ASSUME NEW e \in running, SaveReachesDisk(e) PROVE Covered(k)'
    <3>1. CASE k = e.key
      BY <2>5, <3>1 DEF SaveReachesDisk, Notify, Covered, Handled
    <3>2. CASE k # e.key
      <4>1. UNCHANGED <<memory, disk[k], completed, running, pending, keyGen, excused>>
        BY <2>1, <2>5, <3>2 DEF SaveReachesDisk, vars, SyncTypeOK, FilesTypeOK
      <4>2. QED
        BY <1>3, <4>1 DEF DivergenceInv, CoverInv, Covered, IsPending, NewestRuns
    <3>3. QED
      BY <3>1, <3>2
  <2>6. ASSUME NEW e \in running, SaveSucceeds(e) PROVE Covered(k)'
    <3>1. CASE k = e.key
      <4>1. Handled(NotebookOf[k])
        BY <2>6, <3>1 DEF SaveSucceeds, DivergenceInv, SavedInv
      <4>2. QED
        BY <1>3, <4>1 DEF Covered
    <3>2. CASE k # e.key
      <4>1. /\ UNCHANGED <<memory, disk, completed[k], pending, keyGen, excused>>
            /\ running' = running \ {e}
        BY <2>1, <2>6, <3>2 DEF SaveSucceeds, ExecutionSucceeds, Finish, genVars, SyncTypeOK, FilesTypeOK
      <4>2. NewestRuns(k) => NewestRuns(k)'
        BY <3>2, <4>1 DEF NewestRuns
      <4>3. QED
        BY <1>3, <4>1, <4>2 DEF DivergenceInv, CoverInv, Covered, IsPending
    <3>3. QED
      BY <3>1, <3>2
  <2>7. ASSUME NEW e \in running, SaveFails(e) PROVE Covered(k)'
    <3>1. /\ UNCHANGED <<memory, disk, completed, pending, keyGen>>
          /\ running' = running \ {e}
          /\ k \notin excused
          /\ ~(e.key = k /\ e.gen = keyGen[k])
      BY <2>7 DEF SaveFails, ExecutionFails, Finish, genVars
    <3>2. NewestRuns(k) => NewestRuns(k)'
      BY <3>1 DEF NewestRuns
    <3>3. QED
      BY <1>3, <3>1, <3>2 DEF DivergenceInv, CoverInv, Covered, IsPending
  <2>8. QED
    BY <2>2, <2>3, <2>4, <2>5, <2>6, <2>7
<1>9. QED
  BY <1>4, <1>6, <1>7, <1>8 DEF DivergenceInv

\* The steps of the reload loop that leave the files and the writer's tasks alone.
LEMMA DivergenceLoopStep ==
    ASSUME SyncTypeOK, DivergenceInv,
           \/ \E n \in Notebooks : EnqueueReload(n)
           \/ LoopContinues \/ Settle \/ ReadFails \/ Compare
           \/ \E k \in Reloadable : ReadFile(k)
           \/ AnswerKeep \/ AskAgain \/ AcceptStale \/ Release
    PROVE  DivergenceInv'
<1>1. UNCHANGED <<memory, disk, completed, saved, running, pending, keyGen>>
  BY DEF EnqueueReload, LoopContinues, ReloadBegins, PauseNotebook, Settle, ReadFails, Compare,
       ReadFile, AnswerKeep, AskAgain, AcceptStale, Release, ResumeNotebook, fileVars, genVars, vars
<1>2. \A k \in Reloadable : k \in Keys
  BY KeysAssumption
<1>3. ASSUME NEW k \in Reloadable,
             (Handled(NotebookOf[k]) \/ Working(NotebookOf[k]))
                => \/ (Handled(NotebookOf[k]) \/ Working(NotebookOf[k]))'
                   \/ memory[k] = disk[k] \/ completed[k] = disk[k] \/ k \in excused',
             k \notin excused, k \notin excused'
      PROVE  Covered(k)'
  <2>1. (IsPending(k) => IsPending(k)') /\ (NewestRuns(k) => NewestRuns(k)')
    BY <1>1 DEF IsPending, NewestRuns
  <2>2. QED
    BY <1>1, <1>3, <2>1 DEF DivergenceInv, CoverInv, Covered
<1>4. excused \subseteq excused'
  BY DEF EnqueueReload, LoopContinues, ReloadBegins, Settle, ReadFails, Compare,
       ReadFile, AnswerKeep, AskAgain, AcceptStale, Release
<1>5. ASSUME NEW n, EnqueueReload(n) PROVE DivergenceInv'
  <2>1. \A m : (Handled(m) => Handled(m)') /\ (Working(m) => Working(m)' \/ Handled(m)')
    BY <1>5 DEF EnqueueReload, ReloadBegins, Free, Handled, Working, DivergenceInv
  <2>2. SavedInv' /\ CoverInv'
    BY <1>1, <1>3, <1>4, <2>1 DEF DivergenceInv, SavedInv, CoverInv
  <2>3. SnapInv'
    BY <1>1, <1>5, <2>1 DEF EnqueueReload, ReloadBegins, DivergenceInv, SnapInv, Asking, FilesOf
  <2>4. phase' = "idle" => queued' = {}
    BY <1>5 DEF EnqueueReload, ReloadBegins
  <2>5. QED
    BY <2>2, <2>3, <2>4 DEF DivergenceInv
<1>6. CASE LoopContinues
  <2>1. \A m : (Handled(m) => Handled(m)') /\ ~Working(m)
    BY <1>6 DEF LoopContinues, ReloadBegins, Handled, Working
  <2>2. SavedInv' /\ CoverInv'
    BY <1>1, <1>3, <1>4, <2>1 DEF DivergenceInv, SavedInv, CoverInv
  <2>3. SnapInv' /\ (phase' = "idle" => queued' = {})
    BY <1>6 DEF LoopContinues, ReloadBegins, SnapInv, Asking
  <2>4. QED
    BY <2>2, <2>3 DEF DivergenceInv
<1>7. CASE Settle
  <2>1. \A m : Handled(m) \/ Working(m) => Handled(m)' \/ Working(m)'
    BY <1>7 DEF Settle, Handled, Working
  <2>2. saved' = {}
    BY <1>1, <1>7 DEF Settle, SyncTypeOK, FilesTypeOK
  <2>3. SavedInv' /\ CoverInv'
    BY <1>3, <1>4, <2>1, <2>2 DEF SavedInv, CoverInv
  <2>4. SnapInv' /\ phase' # "idle"
    BY <1>7 DEF Settle, SnapInv, Asking, FilesOf
  <2>5. QED
    BY <2>3, <2>4 DEF DivergenceInv
<1>8. ASSUME NEW k \in Reloadable, ReadFile(k) PROVE DivergenceInv'
  <2>1. \A m : (Handled(m) => Handled(m)') /\ (Working(m) => Working(m)')
    BY <1>8 DEF ReadFile, Handled, Working
  <2>2. SavedInv' /\ CoverInv'
    BY <1>1, <1>3, <1>4, <2>1 DEF DivergenceInv, SavedInv, CoverInv
  <2>3. SnapInv' /\ phase' # "idle"
    BY <1>1, <1>2, <1>8, <2>1 DEF ReadFile, DivergenceInv, SnapInv, Asking, FilesOf, SyncTypeOK, LoopTypeOK
  <2>4. QED
    BY <2>2, <2>3 DEF DivergenceInv
\* The reload of the current notebook ends: each of its files shows the disk, is
\* explained, or is reloaded again.
<1>9. ASSUME phase \notin {"settling", "idle"}, phase' = "releasing", current' = current,
             events' = events, queued \subseteq queued',
             \A k \in FilesOf(current) :
                 \/ memory[k] = disk[k] \/ completed[k] = disk[k] \/ k \in excused'
                 \/ current \in events' \cup queued'
      PROVE  DivergenceInv'
  <2>1. \A m : (Handled(m) => Handled(m)')
    BY <1>9 DEF Handled
  <2>2. \A k \in Reloadable : Working(NotebookOf[k]) => k \in FilesOf(current)
    BY DEF Working, FilesOf
  <2>3. current \in events' \cup queued' => Handled(current)'
    BY <1>9 DEF Handled
  <2>4. SavedInv' /\ CoverInv'
    BY <1>1, <1>3, <1>4, <1>9, <2>1, <2>2, <2>3 DEF DivergenceInv, SavedInv, CoverInv, Working
  <2>5. SnapInv' /\ phase' # "idle"
    BY <1>9 DEF SnapInv, Asking
  <2>6. QED
    BY <2>4, <2>5 DEF DivergenceInv
<1>10. CASE ReadFails
  BY <1>9, <1>10 DEF ReadFails
<1>11. CASE Compare
  <2>1. CASE Diverging = {} \/ OwnWrite
    BY <1>9, <1>11, <2>1 DEF Compare, Diverging, OwnWrite, DivergenceInv, SnapInv, Handled
  <2>2. CASE ~(Diverging = {} \/ OwnWrite)
    <3>1. phase = "reading" /\ unread = {} /\ phase' \in {"asking", "warning"}
          /\ UNCHANGED <<current, events, queued, snapshot>>
      BY <1>11, <2>2 DEF Compare
    <3>2. \A m : (Handled(m) => Handled(m)') /\ (Working(m) => Working(m)')
      BY <3>1 DEF Handled, Working
    <3>3. SavedInv' /\ CoverInv'
      BY <1>1, <1>3, <1>4, <3>2 DEF DivergenceInv, SavedInv, CoverInv
    <3>4. SnapInv'
      BY <1>1, <3>1, <3>2 DEF DivergenceInv, SnapInv, FilesOf
    <3>5. QED
      BY <3>1, <3>3, <3>4 DEF DivergenceInv
  <2>3. QED
    BY <2>1, <2>2
<1>12. CASE AnswerKeep
  BY <1>9, <1>12 DEF AnswerKeep, Diverging, DivergenceInv, SnapInv, Asking, Handled
<1>13. CASE AcceptStale
  BY <1>9, <1>13 DEF AcceptStale, Accepted, Destructive
<1>14. CASE AskAgain
  <2>1. phase = "asking" /\ phase' = "confirming" /\ UNCHANGED <<current, events, queued, snapshot>>
    BY <1>14 DEF AskAgain
  <2>2. \A m : (Handled(m) => Handled(m)') /\ (Working(m) => Working(m)')
    BY <2>1 DEF Handled, Working
  <2>3. SavedInv' /\ CoverInv'
    BY <1>1, <1>3, <1>4, <2>2 DEF DivergenceInv, SavedInv, CoverInv
  <2>4. SnapInv'
    BY <1>1, <2>1, <2>2 DEF DivergenceInv, SnapInv, FilesOf, Asking
  <2>5. QED
    BY <2>1, <2>3, <2>4 DEF DivergenceInv
<1>15. CASE Release
  <2>1. phase = "releasing" /\ phase' = "looping" /\ UNCHANGED <<current, events, queued>>
    BY <1>15 DEF Release
  <2>2. \A m : (Handled(m) => Handled(m)') /\ ~Working(m)
    BY <2>1 DEF Handled, Working
  <2>3. SavedInv' /\ CoverInv'
    BY <1>1, <1>3, <1>4, <2>2 DEF DivergenceInv, SavedInv, CoverInv
  <2>4. SnapInv'
    BY <2>1 DEF SnapInv, Asking
  <2>5. QED
    BY <2>1, <2>3, <2>4 DEF DivergenceInv
<1>16. QED
  BY <1>5, <1>6, <1>7, <1>8, <1>10, <1>11, <1>12, <1>13, <1>14, <1>15

\* When everything has settled, a file of the live notebook differs from the disk
\* only if that is accounted for (DivergenceIsExplained).
THEOREM DivergencesAreExplained == SyncSpec => []DivergenceIsExplained
<1>1. SyncInit => DivergenceInv
  BY DEF SyncInit, DivergenceInv, CoverInv, Covered, SavedInv, SnapInv, Asking
<1>2. TypeOK /\ OwnerInv /\ NewestInv /\ SyncTypeOK /\ DivergenceInv /\ [SyncNext]_allVars
        => DivergenceInv'
  <2> SUFFICES ASSUME TypeOK, OwnerInv, NewestInv, SyncTypeOK, DivergenceInv, [SyncNext]_allVars
               PROVE  DivergenceInv'
    OBVIOUS
  <2>1. CASE AcceptReload
    <3>1. UNCHANGED <<current, disk, completed, saved, events, queued, excused, running, keyGen>>
      BY <2>1 DEF AcceptReload, CancelPendingWritesForNotebook, vars, genVars
    <3>2. phase' = "releasing" /\ Asking
      BY <2>1 DEF AcceptReload, Accepted, Destructive, Asking
    <3>3. \A m : Handled(m) => Handled(m)'
      BY <3>1, <3>2 DEF Handled, Asking
    <3>4. SavedInv'
      BY <3>1, <3>3 DEF DivergenceInv, SavedInv
    <3>5. SnapInv' /\ phase' # "idle"
      BY <3>2 DEF SnapInv, Asking
    <3>6. ASSUME NEW k \in Reloadable, k \notin excused' PROVE Covered(k)'
      <4>1. k \in Keys
        BY KeysAssumption
      <4>2. CASE k \in FilesOf(current)
        <5>1. memory'[k] = snapshot[k]
          BY <2>1, <4>1, <4>2 DEF AcceptReload
        <5>2. NotebookOf[k] = current
          BY <4>2 DEF FilesOf
        <5>3. snapshot[k] = disk[k] \/ Handled(current)
          BY <3>2, <4>2 DEF DivergenceInv, SnapInv
        <5>4. QED
          BY <3>1, <3>3, <5>1, <5>2, <5>3 DEF Covered
      <4>3. CASE k \notin FilesOf(current)
        <5>1. memory'[k] = memory[k] /\ pending'[k] = pending[k]
          BY <2>1, <4>1, <4>3 DEF AcceptReload, CancelPendingWritesForNotebook, PendingOf, FilesOf, vars
        <5>2. ~Working(NotebookOf[k])
          BY <4>3 DEF Working, FilesOf
        <5>3. QED
          BY <3>1, <3>3, <3>6, <5>1, <5>2 DEF DivergenceInv, CoverInv, Covered, IsPending, NewestRuns
      <4>4. QED
        BY <4>2, <4>3
    <3>7. QED
      BY <3>4, <3>5, <3>6 DEF DivergenceInv, CoverInv
  <2>2. CASE Idle \/ UNCHANGED allVars
    BY <2>2 DEF Idle, allVars, vars, syncVars, fileVars, loopVars, DivergenceInv, CoverInv, Covered,
         SavedInv, SnapInv, Handled, Working, NewestRuns, IsPending, Asking, FilesOf
  <2>3. ASSUME \/ \E k \in Keys, c \in Contents : EditScript(k, c) \/ ExternalEdit(k, c)
               \/ \E k \in Keys : SyncTimerFires(k)
               \/ \E e \in running : SaveReachesDisk(e) \/ SaveSucceeds(e) \/ SaveFails(e)
        PROVE  DivergenceInv'
    <3>1. Free
      BY <2>3 DEF EditScript, ExternalEdit, SyncTimerFires, SaveReachesDisk, SaveSucceeds, SaveFails
    <3>2. QED
      BY <2>3, <3>1, DivergenceFileStep
  <2>4. QED
    BY <2>1, <2>2, <2>3, DivergenceLoopStep DEF SyncNext, LoopNext
<1>3. DivergenceInv => DivergenceIsExplained
  BY KeysAssumption DEF DivergenceInv, CoverInv, Covered, Handled, Working, NewestRuns,
       DivergenceIsExplained, Quiet
<1>4. QED
  BY <1>1, <1>2, <1>3, SyncImplementsWriter, TypeCorrect, OwnersAreTracked, SyncTypeCorrect, PTL
     DEF SyncSpec
=============================================================================
