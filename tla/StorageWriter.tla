--------------------------- MODULE StorageWriter ---------------------------
(***************************************************************************)
(* The debounced writer of the app (platform/storage/storage_writer.ts)    *)
(* and its two clients that hold writes back: the relocation of a notebook *)
(* (storage_migration_flow.ts: pause, flush, copy, then resume or reload)  *)
(* and the reload of an externally edited notebook (pauseNotebook,         *)
(* cancelPendingWritesForNotebook, resumeNotebook).                        *)
(*                                                                         *)
(* A write() call is identified by its write generation.  JavaScript is    *)
(* single threaded, so an action is everything that runs up to the next    *)
(* await; timers, executions and callers interleave between actions.       *)
(***************************************************************************)
EXTENDS Integers

CONSTANTS
    Keys,        \* write keys: one coalescing slot each (group* helpers)
    Notebooks,   \* notebook ids
    NotebookOf,  \* the notebook a key is rooted at
    Reloadable,  \* the keys a notebook reload may cancel (not the manifest)
    Relocators,  \* concurrent calls of relocateNotebookToNative
    MaxWrites,   \* bound: number of write() calls
    MaxHolds     \* bound: number of pauseNotebook() calls

ASSUME KeysAssumption ==
    /\ NotebookOf \in [Keys -> Notebooks]
    /\ Reloadable \subseteq Keys
ASSUME BoundsAssumption ==
    /\ MaxWrites \in Nat
    /\ MaxHolds \in Nat

NoTask == 0
Gens == 1 .. MaxWrites

VARIABLES
    pending,    \* pendingTasks: key -> generation of its latest task
    armed,      \* keys whose pending entry refers to an armed timer
    stray,      \* how many armed timers of a key no pending entry refers to
    paused,     \* paused
    held,       \* pausedNotebooks
    running,    \* inFlight: the executions that have not finished
    promise,    \* what the write() call of a generation was answered
    keyGen,     \* writeKeyGenerations
    nextGen,    \* nextWriteGeneration
    pc,         \* where each relocation stands
    wasPaused,  \* the relocations whose flush() found the writer paused
    flushKeys,  \* the keys its flush() has still to visit
    awaited,    \* the execution its flush() is waiting for
    begun,      \* history: nextGen when the relocation began
    disturbed,  \* history: the relocations another one has disturbed since their flush
    holds       \* number of pauseNotebook() calls so far

writerVars == <<pending, armed, stray, running, promise>>
genVars == <<keyGen, nextGen>>
flushVars == <<pc, wasPaused, flushKeys, awaited, begun, disturbed>>
vars == <<pending, armed, stray, paused, held, running, promise, keyGen,
          nextGen, pc, wasPaused, flushKeys, awaited, begun, disturbed, holds>>

Executions == [key : Keys, gen : Gens]
NoExecution == [key |-> "none", gen |-> NoTask]

WriterTypeOK ==
    /\ pending \in [Keys -> Gens \cup {NoTask}]
    /\ armed \subseteq Keys
    /\ stray \in [Keys -> Nat]
    /\ paused \in BOOLEAN
    /\ held \subseteq Notebooks
    /\ running \subseteq Executions
    /\ promise \in [Gens -> {"none", "open", "true", "false"}]
    /\ keyGen \in [Keys -> Gens \cup {NoTask}]
    /\ nextGen \in 1 .. (MaxWrites + 1)

RelocationTypeOK ==
    /\ pc \in [Relocators -> {"idle", "flushing", "draining", "copying", "reloaded"}]
    /\ wasPaused \subseteq Relocators
    /\ flushKeys \in [Relocators -> SUBSET Keys]
    /\ awaited \in [Relocators -> Executions \cup {NoExecution}]
    /\ begun \in [Relocators -> 1 .. (MaxWrites + 1)]
    /\ disturbed \subseteq Relocators

TypeOK ==
    /\ WriterTypeOK
    /\ RelocationTypeOK
    /\ holds \in 0 .. MaxHolds

Init ==
    /\ pending = [k \in Keys |-> NoTask]
    /\ armed = {}
    /\ stray = [k \in Keys |-> 0]
    /\ paused = FALSE
    /\ held = {}
    /\ running = {}
    /\ promise = [g \in Gens |-> "none"]
    /\ keyGen = [k \in Keys |-> NoTask]
    /\ nextGen = 1
    /\ pc = [r \in Relocators |-> "idle"]
    /\ wasPaused = {}
    /\ flushKeys = [r \in Relocators |-> {}]
    /\ awaited = [r \in Relocators |-> NoExecution]
    /\ begun = [r \in Relocators |-> 1]
    /\ disturbed = {}
    /\ holds = 0

\* The page lives until a successful relocation reloads it; the writer of the
\* new page starts again in Init.
Alive == \A r \in Relocators : pc[r] # "reloaded"

IsPending(k) == pending[k] # NoTask
Held(k) == NotebookOf[k] \in held
PendingKeys == {k \in Keys : IsPending(k)}
PendingOf(n) == {k \in PendingKeys : NotebookOf[k] = n}

-----------------------------------------------------------------------------
(* write() *)

\* A second write of a key takes over the slot, and the timer, of the first,
\* which is answered false: it was not executed.
Write(k) ==
    /\ Alive
    /\ nextGen <= MaxWrites
    /\ pending' = [pending EXCEPT ![k] = nextGen]
    /\ armed' = IF IsPending(k) THEN armed ELSE armed \cup {k}
    /\ promise' = [g \in Gens |-> CASE g = nextGen -> "open"
                                    [] g = pending[k] -> "false"
                                    [] OTHER -> promise[g]]
    /\ keyGen' = [keyGen EXCEPT ![k] = nextGen]
    /\ nextGen' = nextGen + 1
    /\ UNCHANGED <<stray, paused, held, running, flushVars, holds>>

-----------------------------------------------------------------------------
(* processTask() and the executions it starts *)

\* Start the pending task of k.  tm and st are the armed timers at that moment:
\* one the deleted entry still referred to fires later, for whatever task the
\* key has by then.
StartTask(k, tm, st) ==
    /\ pending' = [pending EXCEPT ![k] = NoTask]
    /\ running' = running \cup {[key |-> k, gen |-> pending[k]]}
    /\ armed' = tm \ {k}
    /\ stray' = IF k \in tm THEN [st EXCEPT ![k] = @ + 1] ELSE st

\* processTask(key) from a timer: a task that is held back stays pending.
ProcessTask(k, tm, st) ==
    IF IsPending(k) /\ ~paused /\ ~Held(k)
    THEN StartTask(k, tm, st)
    ELSE armed' = tm /\ stray' = st /\ UNCHANGED <<pending, running>>

TimerFires(k) ==
    /\ Alive
    /\ k \in armed
    /\ ProcessTask(k, armed \ {k}, stray)
    /\ UNCHANGED <<paused, held, promise, genVars, flushVars, holds>>

StrayTimerFires(k) ==
    /\ Alive
    /\ stray[k] > 0
    /\ ProcessTask(k, armed, [stray EXCEPT ![k] = @ - 1])
    /\ UNCHANGED <<paused, held, promise, genVars, flushVars, holds>>

\* executeTask() returned, or threw: the caller of write() is told, and the
\* execution leaves inFlight.
Finish(e, answer) ==
    /\ Alive
    /\ running' = running \ {e}
    /\ promise' = [promise EXCEPT ![e.gen] = answer]
    /\ UNCHANGED <<pending, armed, stray, paused, held, genVars, flushVars, holds>>

ExecutionSucceeds(e) == Finish(e, "true")
ExecutionFails(e) == Finish(e, "false")

-----------------------------------------------------------------------------
(* Re-arming: setTimeout replaces the handle of the entry, it does not clear *)
(* the timer the entry had.                                                  *)

Rearm(ks) ==
    /\ armed' = armed \cup ks
    /\ stray' = [k \in Keys |-> IF k \in ks \cap armed THEN stray[k] + 1 ELSE stray[k]]

-----------------------------------------------------------------------------
(* relocateNotebookToNative(): pause(); await flush(); copy; resume or reload *)

\* The other relocations whose flush() has restored the pause: neither the writer
\* nor the storage overlay, which forgets a relocation when it is closed, keeps a
\* second one from lifting that pause, or from writing in spite of it.
PastFlush(r) == {q \in Relocators \ {r} : pc[q] \in {"draining", "copying"}}

\* The loop of flush() from one await to the next: keys that are no longer
\* pending are skipped, the next one has its timer cleared, is force-processed
\* and its execution awaited.  A Map yields its keys in insertion order; any
\* order is allowed here.
FlushVisits(r, keys, tm) ==
    \E k \in keys, skipped \in SUBSET keys :
        /\ IsPending(k)
        /\ \A j \in skipped : ~IsPending(j)
        /\ pc' = [pc EXCEPT ![r] = "flushing"]
        /\ flushKeys' = [flushKeys EXCEPT ![r] = keys \ (skipped \cup {k})]
        /\ awaited' = [awaited EXCEPT ![r] = [key |-> k, gen |-> pending[k]]]
        /\ disturbed' = (disturbed \cup PastFlush(r)) \ {r}
        /\ StartTask(k, tm \ {k}, stray)

\* Mutant: flush() leaves out the tasks of a notebook that is held.
FlushEndsEarly(r, keys, tm) ==
    /\ \A k \in keys : IsPending(k) => Held(k)
    /\ paused' = (r \in wasPaused')
    /\ pc' = [pc EXCEPT ![r] = "draining"]
    /\ flushKeys' = [flushKeys EXCEPT ![r] = {}]
    /\ awaited' = [awaited EXCEPT ![r] = NoExecution]
    /\ disturbed' = disturbed \ {r}
    /\ armed' = tm
    /\ UNCHANGED <<pending, stray, running>>

\* The end of that loop: the pause that flush() found is restored.
FlushEnds(r, keys, tm) ==
    /\ \A k \in keys : ~IsPending(k)
    /\ paused' = (r \in wasPaused')
    /\ pc' = [pc EXCEPT ![r] = "draining"]
    /\ flushKeys' = [flushKeys EXCEPT ![r] = {}]
    /\ awaited' = [awaited EXCEPT ![r] = NoExecution]
    /\ disturbed' = disturbed \ {r}
    /\ armed' = tm
    /\ UNCHANGED <<pending, stray, running>>

\* pause() clears the timer of every pending task.
PauseTimers == armed \ PendingKeys

\* pause() and flush() up to its first await: only there can anything else run.
RelocateBegins(r) ==
    /\ Alive
    /\ pc[r] = "idle"
    /\ wasPaused' = wasPaused \cup {r}
    /\ begun' = [begun EXCEPT ![r] = nextGen]
    /\ \/ FlushVisits(r, PendingKeys, PauseTimers) /\ paused' = FALSE
       \/ FlushEnds(r, PendingKeys, PauseTimers)
    /\ UNCHANGED <<held, promise, genVars, holds>>

\* The awaited execution is over: on to the next key.
FlushContinues(r) ==
    /\ Alive
    /\ pc[r] = "flushing"
    /\ awaited[r] \notin running
    /\ UNCHANGED <<held, promise, genVars, wasPaused, begun, holds>>
    /\ \/ FlushVisits(r, flushKeys[r], armed) /\ UNCHANGED paused
       \/ FlushEnds(r, flushKeys[r], armed)

\* Mutant: flush() does not wait for executions that timers had started.
FlushReturnsUndrained(r) ==
    /\ Alive
    /\ pc[r] = "draining"
    /\ pc' = [pc EXCEPT ![r] = "copying"]
    /\ UNCHANGED <<writerVars, paused, held, genVars, wasPaused, flushKeys, awaited, begun, disturbed, holds>>

\* flush() returns once nothing is in flight; the copy starts.
FlushReturns(r) ==
    /\ Alive
    /\ pc[r] = "draining"
    /\ running = {}
    /\ pc' = [pc EXCEPT ![r] = "copying"]
    /\ UNCHANGED <<writerVars, paused, held, genVars, wasPaused, flushKeys, awaited, begun, disturbed, holds>>

\* Mutant: resume() forgets to re-arm.
RelocateFailsUnarmed(r) ==
    /\ Alive
    /\ pc[r] = "copying"
    /\ pc' = [pc EXCEPT ![r] = "idle"]
    /\ paused' = FALSE
    /\ UNCHANGED <<writerVars, held, genVars, wasPaused, flushKeys, awaited, begun, disturbed, holds>>

\* The copy failed: resume() re-arms what accumulated, unless somebody else
\* resumed the writer first.
RelocateFails(r) ==
    /\ Alive
    /\ pc[r] = "copying"
    /\ pc' = [pc EXCEPT ![r] = "idle"]
    /\ paused' = FALSE
    /\ IF paused THEN Rearm({k \in PendingKeys : ~Held(k)})
                 ELSE UNCHANGED <<armed, stray>>
    /\ disturbed' = disturbed \cup PastFlush(r)
    /\ UNCHANGED <<pending, held, running, promise, genVars, wasPaused, flushKeys,
                   awaited, begun, holds>>

\* The copy succeeded: the page is reloaded.
RelocateSucceeds(r) ==
    /\ Alive
    /\ pc[r] = "copying"
    /\ pc' = [pc EXCEPT ![r] = "reloaded"]
    /\ UNCHANGED <<writerVars, paused, held, genVars, wasPaused, flushKeys, awaited, begun, disturbed, holds>>

-----------------------------------------------------------------------------
(* The reload of a notebook that was edited on disk *)

PauseNotebook(n) ==
    /\ Alive
    /\ holds < MaxHolds
    /\ holds' = holds + 1
    /\ held' = held \cup {n}
    /\ armed' = armed \ PendingOf(n)
    /\ UNCHANGED <<pending, stray, paused, running, promise, genVars, flushVars>>

\* Mutant: the tasks of the notebook are released but not re-armed.
ResumeNotebookUnarmed(n) ==
    /\ Alive
    /\ n \in held
    /\ held' = held \ {n}
    /\ UNCHANGED <<writerVars, paused, genVars, flushVars, holds>>

ResumeNotebook(n) ==
    /\ Alive
    /\ n \in held
    /\ held' = held \ {n}
    /\ IF paused THEN UNCHANGED <<armed, stray>> ELSE Rearm(PendingOf(n))
    /\ UNCHANGED <<pending, paused, running, promise, genVars, flushVars, holds>>

\* Mutant: the callers of the cancelled writes are not told.
CancelUnanswered(n) ==
    LET cancelled == PendingOf(n) \cap Reloadable IN
    /\ Alive
    /\ n \in held
    /\ armed' = armed \ cancelled
    /\ pending' = [k \in Keys |-> IF k \in cancelled THEN NoTask ELSE pending[k]]
    /\ UNCHANGED <<stray, paused, held, running, promise, genVars, flushVars, holds>>

\* Called between pauseNotebook() and resumeNotebook().
CancelPendingWritesForNotebook(n) ==
    LET cancelled == PendingOf(n) \cap Reloadable IN
    /\ Alive
    /\ n \in held
    /\ armed' = armed \ cancelled
    /\ pending' = [k \in Keys |-> IF k \in cancelled THEN NoTask ELSE pending[k]]
    /\ promise' = [g \in Gens |-> IF \E k \in cancelled : pending[k] = g
                                  THEN "false" ELSE promise[g]]
    /\ UNCHANGED <<stray, paused, held, running, genVars, flushVars, holds>>

-----------------------------------------------------------------------------

Reloaded == ~Alive /\ UNCHANGED vars

Next ==
    \/ \E k \in Keys : Write(k) \/ TimerFires(k) \/ StrayTimerFires(k)
    \/ \E e \in running : ExecutionSucceeds(e) \/ ExecutionFails(e)
    \/ \E r \in Relocators : \/ RelocateBegins(r) \/ FlushContinues(r) \/ FlushReturns(r)
                             \/ RelocateFails(r) \/ RelocateSucceeds(r)
    \/ \E n \in Notebooks : \/ PauseNotebook(n) \/ ResumeNotebook(n)
                            \/ CancelPendingWritesForNotebook(n)
    \/ Reloaded

Spec == Init /\ [][Next]_vars

\* Timers fire and promises settle; a relocation's copy ends one way or the
\* other, and the reload of a notebook resumes it in a finally block.
Fairness ==
    /\ \A k \in Keys : WF_vars(TimerFires(k)) /\ WF_vars(StrayTimerFires(k))
    /\ \A e \in Executions : WF_vars(e \in running /\ (ExecutionSucceeds(e) \/ ExecutionFails(e)))
    /\ \A r \in Relocators : /\ WF_vars(FlushContinues(r)) /\ WF_vars(FlushReturns(r))
                             /\ WF_vars(RelocateFails(r) \/ RelocateSucceeds(r))
    /\ \A n \in Notebooks : WF_vars(ResumeNotebook(n))

FairSpec == Spec /\ Fairness

-----------------------------------------------------------------------------
(* Properties *)

Flushing(k) == \E r \in Relocators : pc[r] = "flushing" /\ k \in flushKeys[r]

\* No accepted write is forgotten: a pending task that no pause holds back has
\* an armed timer, or the flush() in progress has it still to visit.  Every
\* method that cancels a timer must hand the task to one that re-arms it.
NoLostWrite ==
    \A k \in Keys : IsPending(k) /\ ~paused /\ ~Held(k)
                        => k \in armed \/ stray[k] > 0 \/ Flushing(k)

\* The global pause belongs to a relocation that is under way: whatever the
\* interleaving of several pause() / flush() / resume() calls, the writer is
\* not left paused once the last one is over.
PauseIsOwned ==
    paused => \E r \in Relocators : pc[r] # "idle"

\* Every write() call has one owner that will answer it: its promise is open
\* exactly while it is the pending task of one key or one execution in flight.
Owners(g) ==
    [at : {"slot"}, key : {k \in Keys : pending[k] = g}]
        \cup [at : {"flight"}, key : {e.key : e \in {x \in running : x.gen = g}}]
OneOwner ==
    \A g \in Gens :
        /\ promise[g] = "open" <=> Owners(g) # {}
        /\ \A o1, o2 \in Owners(g) : o1 = o2

\* The slot of a key holds its newest write: an older generation is never what
\* is executed last, and every execution in flight is older than the slot.
NewestIsPending ==
    \A k \in Keys : IsPending(k) =>
        /\ pending[k] = keyGen[k]
        /\ \A e \in running : e.key = k => e.gen < pending[k]

\* flush() is a hard drain: while the notebook is copied, and when the page is
\* then reloaded, every write that was accepted before the relocation began has
\* been executed, replaced or cancelled, whether its notebook was held or not.
DrainedBeforeCopy ==
    \A r \in Relocators, g \in Gens :
        pc[r] \in {"copying", "reloaded"} /\ g < begun[r] => promise[g] # "open"

\* The storage is not written while a notebook is being copied: the writer was
\* paused and drained "so OPFS isn't mutated mid-copy".  Timers, writes, holds and
\* their ends cannot change that; only another relocation can, whose flush() or
\* resume() comes after the flush() of the one that copies.
NoWriteDuringCopy ==
    \A r \in Relocators : pc[r] = "copying" /\ r \notin disturbed => running = {}

\* Every write() call is answered, unless the page is reloaded first.
EveryWriteAnswered ==
    \A g \in Gens : promise[g] = "open" ~> (promise[g] # "open" \/ ~Alive)

=============================================================================
