-------------------------- MODULE NotebookWatches --------------------------
(***************************************************************************)
(* The file system watchers of native notebooks (NativeNotebookSyncService *)
(* in platform/storage/native_notebook_sync.ts).  reconcile() is called    *)
(* whenever the set of notebooks changes and awaits the registration of    *)
(* every watcher, so that calls overlap; a generation counter decides      *)
(* which of them may still install what it has registered.                 *)
(***************************************************************************)
EXTENDS Integers

CONSTANTS
    Notebooks,
    Dirs,      \* the directories notebooks live in
    MaxCalls   \* bound: number of reconcile() calls

ASSUME MaxCallsAssumption == MaxCalls \in Nat

Calls == 1 .. MaxCalls
NoDir == "no directory"
NoNotebook == "no notebook"
NoHandle == [call |-> 0, notebook |-> NoNotebook, dir |-> NoDir]
Handles == [call : Calls, notebook : Notebooks, dir : Dirs]

ASSUME NoDirAssumption == NoDir \notin Dirs

VARIABLES
    generation,  \* generation
    closed,      \* close() has been called
    watches,     \* watches: the subscription of a notebook
    live,        \* the subscriptions the operating system keeps
    want,        \* desired of every call
    todo,        \* the notebooks a call has still to visit
    pc,          \* where a call stands
    item,        \* the notebook it is registering
    failed       \* history: notebooks whose registration failed, per call

vars == <<generation, closed, watches, live, want, todo, pc, item, failed>>

TypeOK ==
    /\ generation \in 0 .. (MaxCalls + 1)
    /\ closed \in {"open", "closed"}
    /\ watches \in [Notebooks -> Handles \cup {NoHandle}]
    /\ live \subseteq Handles
    /\ want \in [Calls -> [Notebooks -> Dirs \cup {NoDir}]]
    /\ todo \in [Calls -> SUBSET Notebooks]
    /\ pc \in [Calls -> {"unused", "visiting", "registering", "registered", "done"}]
    /\ item \in [Calls -> Notebooks \cup {NoNotebook}]
    /\ failed \in [Calls -> SUBSET Notebooks]

Init ==
    /\ generation = 0
    /\ closed = "open"
    /\ watches = [n \in Notebooks |-> NoHandle]
    /\ live = {}
    /\ want = [c \in Calls |-> [n \in Notebooks |-> NoDir]]
    /\ todo = [c \in Calls |-> {}]
    /\ pc = [c \in Calls |-> "unused"]
    /\ item = [c \in Calls |-> NoNotebook]
    /\ failed = [c \in Calls |-> {}]

Watched(n) == watches[n] # NoHandle

\* The subscriptions of the notebooks in ns are given back and forgotten.
Unwatch(ns) ==
    /\ live' = live \ {watches[n] : n \in ns}
    /\ watches' = [n \in Notebooks |-> IF n \in ns THEN NoHandle ELSE watches[n]]

-----------------------------------------------------------------------------

\* Mutant: a notebook that has moved keeps its watcher.
ReconcileKeepsMoved(desired) ==
    /\ closed = "open"
    /\ generation < MaxCalls
    /\ LET c == generation + 1 IN
       /\ generation' = c
       /\ Unwatch({n \in Notebooks : Watched(n) /\ desired[n] = NoDir})
       /\ want' = [want EXCEPT ![c] = desired]
       /\ todo' = [todo EXCEPT ![c] = {n \in Notebooks : desired[n] # NoDir}]
       /\ pc' = [pc EXCEPT ![c] = "visiting"]
    /\ UNCHANGED <<closed, item, failed>>

\* reconcile() up to its first await: watchers that are not wanted any more, or
\* not for this directory, are dropped.
Reconcile(desired) ==
    /\ closed = "open"
    /\ generation < MaxCalls
    /\ LET c == generation + 1 IN
       /\ generation' = c
       /\ Unwatch({n \in Notebooks : Watched(n) /\ watches[n].dir # desired[n]})
       /\ want' = [want EXCEPT ![c] = desired]
       /\ todo' = [todo EXCEPT ![c] = {n \in Notebooks : desired[n] # NoDir}]
       /\ pc' = [pc EXCEPT ![c] = "visiting"]
    /\ UNCHANGED <<closed, item, failed>>

\* A notebook is skipped when the call is outdated or the notebook is watched.
Skips(c, n) == generation # c \/ Watched(n)

SkipNotebook(c, n) ==
    /\ pc[c] = "visiting"
    /\ n \in todo[c]
    /\ Skips(c, n)
    /\ todo' = [todo EXCEPT ![c] = @ \ {n}]
    /\ UNCHANGED <<generation, closed, watches, live, want, pc, item, failed>>

\* await watch(...)
RegisterNotebook(c, n) ==
    /\ pc[c] = "visiting"
    /\ n \in todo[c]
    /\ ~Skips(c, n)
    /\ todo' = [todo EXCEPT ![c] = @ \ {n}]
    /\ item' = [item EXCEPT ![c] = n]
    /\ pc' = [pc EXCEPT ![c] = "registering"]
    /\ UNCHANGED <<generation, closed, watches, live, want, failed>>

HandleOf(c) == [call |-> c, notebook |-> item[c], dir |-> want[c][item[c]]]

\* The operating system has installed the watcher.
WatchRegistered(c) ==
    /\ pc[c] = "registering"
    /\ live' = live \cup {HandleOf(c)}
    /\ pc' = [pc EXCEPT ![c] = "registered"]
    /\ UNCHANGED <<generation, closed, watches, want, todo, item, failed>>

WatchFails(c) ==
    /\ pc[c] = "registering"
    /\ failed' = [failed EXCEPT ![c] = @ \cup {item[c]}]
    /\ pc' = [pc EXCEPT ![c] = "visiting"]
    /\ UNCHANGED <<generation, closed, watches, live, want, todo, item>>

\* Mutant: an outdated call drops the handle without unwatch().
InstallWatchLeaks(c) ==
    /\ pc[c] = "registered"
    /\ IF generation = c
       THEN watches' = [watches EXCEPT ![item[c]] = HandleOf(c)] /\ UNCHANGED live
       ELSE UNCHANGED <<live, watches>>
    /\ pc' = [pc EXCEPT ![c] = "visiting"]
    /\ UNCHANGED <<generation, closed, want, todo, item, failed>>

\* Mutant: the generation is not checked again after the await.
InstallWatchUnchecked(c) ==
    /\ pc[c] = "registered"
    /\ watches' = [watches EXCEPT ![item[c]] = HandleOf(c)]
    /\ pc' = [pc EXCEPT ![c] = "visiting"]
    /\ UNCHANGED <<generation, closed, live, want, todo, item, failed>>

\* After the await: an outdated call gives the subscription back.
InstallWatch(c) ==
    /\ pc[c] = "registered"
    /\ IF generation = c
       THEN watches' = [watches EXCEPT ![item[c]] = HandleOf(c)] /\ UNCHANGED live
       ELSE live' = live \ {HandleOf(c)} /\ UNCHANGED watches
    /\ pc' = [pc EXCEPT ![c] = "visiting"]
    /\ UNCHANGED <<generation, closed, want, todo, item, failed>>

\* Mutant: the loop stops at the first notebook that is already watched.
ReconcileEndsEarly(c) ==
    /\ pc[c] = "visiting"
    /\ todo[c] = {} \/ \E n \in todo[c] : Watched(n)
    /\ pc' = [pc EXCEPT ![c] = "done"]
    /\ UNCHANGED <<generation, closed, watches, live, want, todo, item, failed>>

ReconcileEnds(c) ==
    /\ pc[c] = "visiting"
    /\ todo[c] = {}
    /\ pc' = [pc EXCEPT ![c] = "done"]
    /\ UNCHANGED <<generation, closed, watches, live, want, todo, item, failed>>

\* close() when the coordinator unmounts.  Calls under way see the generation.
Close ==
    /\ closed = "open"
    /\ closed' = "closed"
    /\ generation' = generation + 1
    /\ Unwatch({n \in Notebooks : Watched(n)})
    /\ UNCHANGED <<want, todo, pc, item, failed>>

Step(c) ==
    \/ \E n \in Notebooks : SkipNotebook(c, n) \/ RegisterNotebook(c, n)
    \/ WatchRegistered(c) \/ WatchFails(c) \/ InstallWatch(c) \/ ReconcileEnds(c)

Finished == closed = "closed" /\ (\A c \in Calls : pc[c] \in {"unused", "done"}) /\ UNCHANGED vars

Next ==
    \/ \E desired \in [Notebooks -> Dirs \cup {NoDir}] : Reconcile(desired)
    \/ \E c \in Calls : Step(c)
    \/ Close
    \/ Finished

Spec == Init /\ [][Next]_vars

\* Every registration is answered, and every call goes on after it.
FairSpec == Spec /\ \A c \in Calls : WF_vars(Step(c))

-----------------------------------------------------------------------------
(* Properties *)

\* No subscription leaks: the operating system keeps exactly those that the
\* service knows, and those of calls that have not come back from their await.
NoLeakedWatch ==
    live = {watches[n] : n \in {m \in Notebooks : Watched(m)}}
             \cup {HandleOf(c) : c \in {d \in Calls : pc[d] = "registered"}}

\* An installed watcher observes the directory that the latest call asked for,
\* whichever call has installed it; after close() there is none.
WatchesAreCurrent ==
    \A n \in Notebooks : Watched(n) =>
        /\ closed = "open"
        /\ generation \in Calls
        /\ watches[n].notebook = n
        /\ watches[n].dir = want[generation][n]

\* When the latest call is over, every notebook it asked for is watched, unless
\* the registration failed: an outdated call never stands in its way.
DesiredAreWatched ==
    \A c \in Calls : generation = c /\ closed = "open" /\ pc[c] = "done" =>
        \A n \in Notebooks : want[c][n] # NoDir => Watched(n) \/ n \in failed[c]

\* Every call comes to its end, and then nothing is left after close().
ClosedServiceEnds == closed = "closed" ~> live = {}
=============================================================================
