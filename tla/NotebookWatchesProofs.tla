----------------------- MODULE NotebookWatchesProofs -----------------------
(***************************************************************************)
(* What the watcher service guarantees for every set of notebooks and any  *)
(* number of overlapping reconcile() calls.                                *)
(***************************************************************************)
EXTENDS NotebookWatches, TLAPS

Busy(c) == pc[c] \in {"registering", "registered"}

CallsInv ==
    /\ closed = "open" => generation <= MaxCalls
    /\ \A c \in Calls : pc[c] # "unused" =>
           c <= generation /\ (closed = "closed" => c < generation)
    /\ \A c \in Calls : \A n \in todo[c] : want[c][n] # NoDir
    /\ \A c \in Calls : Busy(c) => /\ item[c] \in Notebooks
                                   /\ want[c][item[c]] # NoDir
                                   /\ item[c] \notin todo[c]

\* The registrations that are under way are not installed yet.
InstallInv ==
    /\ \A n \in Notebooks : Watched(n) =>
           /\ watches[n] \in Handles
           /\ watches[n].notebook = n
           /\ n \notin todo[watches[n].call]
    /\ \A c \in Calls : Busy(c) =>
           \A n \in Notebooks : Watched(n) => watches[n].call # c \/ n # item[c]
    /\ \A c \in Calls : Busy(c) /\ generation = c /\ closed = "open" => ~Watched(item[c])
    /\ \A n \in Notebooks : Watched(n) => pc[watches[n].call] # "unused"

ProgressInv ==
    \A c \in Calls : generation = c /\ closed = "open" =>
        /\ pc[c] # "unused"
        /\ pc[c] = "done" => todo[c] = {}
        /\ \A n \in Notebooks : want[c][n] # NoDir =>
               \/ n \in todo[c] \/ Watched(n) \/ n \in failed[c]
               \/ Busy(c) /\ item[c] = n

\* The state of the service keeps its types.
THEOREM WatchTypes == Spec => [](TypeOK /\ CallsInv)
<1>1. Init => TypeOK /\ CallsInv
  BY MaxCallsAssumption, NoDirAssumption DEF Init, TypeOK, CallsInv, Calls, Busy
<1>2. TypeOK /\ CallsInv /\ [Next]_vars => TypeOK' /\ CallsInv'
  <2> SUFFICES ASSUME TypeOK, CallsInv, [Next]_vars PROVE TypeOK' /\ CallsInv'
    OBVIOUS
  <2>1. ASSUME NEW desired \in [Notebooks -> Dirs \cup {NoDir}], Reconcile(desired)
        PROVE  TypeOK' /\ CallsInv'
    <3>1. generation + 1 \in Calls /\ generation' = generation + 1
      BY <2>1, MaxCallsAssumption DEF Reconcile, TypeOK, Calls
    <3>2. TypeOK'
      BY <2>1, <3>1, MaxCallsAssumption DEF Reconcile, Unwatch, TypeOK, Calls
    <3>3. pc[generation + 1] = "unused"
      BY <3>1 DEF CallsInv, TypeOK, Calls
    <3>4. CallsInv'
      BY <2>1, <3>1, <3>3, MaxCallsAssumption DEF Reconcile, TypeOK, CallsInv, Calls, Busy
    <3>5. QED
      BY <3>2, <3>4
  <2>2. ASSUME NEW c \in Calls, Step(c) PROVE TypeOK' /\ CallsInv'
    <3>1. ASSUME NEW n \in Notebooks, SkipNotebook(c, n) PROVE TypeOK' /\ CallsInv'
      BY <3>1 DEF SkipNotebook, TypeOK, CallsInv, Busy
    <3>2. ASSUME NEW n \in Notebooks, RegisterNotebook(c, n) PROVE TypeOK' /\ CallsInv'
      BY <3>2 DEF RegisterNotebook, TypeOK, CallsInv, Busy
    <3>3. CASE WatchRegistered(c)
      <4>1. HandleOf(c) \in Handles
        BY <3>3 DEF WatchRegistered, HandleOf, Handles, TypeOK, CallsInv, Busy
      <4>2. QED
        BY <3>3, <4>1 DEF WatchRegistered, TypeOK, CallsInv, Busy
    <3>4. CASE WatchFails(c)
      BY <3>4 DEF WatchFails, TypeOK, CallsInv, Busy
    <3>5. CASE InstallWatch(c)
      <4>1. HandleOf(c) \in Handles /\ item[c] \in Notebooks
        BY <3>5 DEF InstallWatch, HandleOf, Handles, TypeOK, CallsInv, Busy
      <4>2. QED
        BY <3>5, <4>1 DEF InstallWatch, TypeOK, CallsInv, Busy
    <3>6. CASE ReconcileEnds(c)
      BY <3>6 DEF ReconcileEnds, TypeOK, CallsInv, Busy
    <3>7. QED
      BY <2>2, <3>1, <3>2, <3>3, <3>4, <3>5, <3>6 DEF Step
  <2>3. CASE Close
    <3>1. generation' \in 0 .. (MaxCalls + 1)
      BY <2>3, MaxCallsAssumption DEF Close, TypeOK, CallsInv
    <3>2. QED
      BY <2>3, <3>1, MaxCallsAssumption DEF Close, Unwatch, TypeOK, CallsInv, Calls, Busy
  <2>4. CASE Finished \/ UNCHANGED vars
    BY <2>4 DEF Finished, vars, TypeOK, CallsInv, Busy
  <2>5. QED
    BY <2>1, <2>2, <2>3, <2>4 DEF Next
<1>3. QED
  BY <1>1, <1>2, PTL DEF Spec

\* One step preserves what is known of the registry.
LEMMA RegistryStep ==
    ASSUME TypeOK, CallsInv, InstallInv, WatchesAreCurrent, [Next]_vars
    PROVE  InstallInv' /\ WatchesAreCurrent'
<1> USE DEF Watched
<1>1. ASSUME NEW desired \in [Notebooks -> Dirs \cup {NoDir}], Reconcile(desired)
      PROVE  InstallInv' /\ WatchesAreCurrent'
  <2> DEFINE c == generation + 1
  <2>1. c \in Calls /\ generation' = c /\ closed' = "open" /\ pc[c] = "unused"
    BY <1>1, MaxCallsAssumption DEF Reconcile, TypeOK, Calls, CallsInv
  <2>2. /\ want' = [want EXCEPT ![c] = desired]
        /\ todo' = [todo EXCEPT ![c] = {n \in Notebooks : desired[n] # NoDir}]
        /\ pc' = [pc EXCEPT ![c] = "visiting"]
        /\ item' = item
    BY <1>1 DEF Reconcile
  <2>3. ASSUME NEW n \in Notebooks, watches'[n] # NoHandle
        PROVE  watches[n] # NoHandle /\ watches'[n] = watches[n] /\ watches[n].dir = desired[n]
    BY <1>1, <2>3 DEF Reconcile, Unwatch
  <2>4. ASSUME NEW n \in Notebooks, watches'[n] # NoHandle PROVE watches[n].call # c
    BY <2>1, <2>3, <2>4 DEF InstallInv
  <2> HIDE DEF c
  <2>5. WatchesAreCurrent'
    BY <2>1, <2>2, <2>3 DEF WatchesAreCurrent, TypeOK
  <2>6. ASSUME NEW n \in Notebooks, watches'[n] # NoHandle
        PROVE  /\ watches'[n] \in Handles /\ watches'[n].notebook = n
               /\ n \notin todo'[watches'[n].call] /\ pc'[watches'[n].call] # "unused"
    <3>1. watches[n] \in Handles /\ watches[n].call \in Calls
      BY <2>3, <2>6 DEF InstallInv, Handles
    <3>2. QED
      BY <2>2, <2>3, <2>4, <2>6, <3>1 DEF InstallInv, TypeOK
  <2>7. ASSUME NEW d \in Calls, Busy(d)'
        PROVE  d # c /\ Busy(d)
    BY <2>1, <2>2, <2>7 DEF Busy, TypeOK
  <2>8. \A d \in Calls : Busy(d)' =>
            \A n \in Notebooks : watches'[n] # NoHandle => watches'[n].call # d \/ n # item'[d]
    BY <2>2, <2>3, <2>7 DEF InstallInv
  <2>9. QED
    BY <2>1, <2>5, <2>6, <2>7, <2>8 DEF InstallInv
<1>2. ASSUME NEW c \in Calls, NEW n \in Notebooks, SkipNotebook(c, n) \/ RegisterNotebook(c, n)
      PROVE  InstallInv' /\ WatchesAreCurrent'
  <2>1. /\ UNCHANGED <<generation, closed, watches, want>>
        /\ \A d \in Calls : todo'[d] \subseteq todo[d]
        /\ \A d \in Calls : pc[d] # "unused" => pc'[d] # "unused"
    BY <1>2 DEF SkipNotebook, RegisterNotebook, TypeOK
  <2>2. WatchesAreCurrent'
    BY <2>1 DEF WatchesAreCurrent
  <2>3. CASE SkipNotebook(c, n)
    BY <2>1, <2>2, <2>3 DEF SkipNotebook, InstallInv, Busy, Handles
  <2>4. CASE RegisterNotebook(c, n)
    <3>1. generation = c /\ watches[n] = NoHandle /\ n \in todo[c]
      BY <2>4 DEF RegisterNotebook, Skips
    <3>2. \A d \in Calls : Busy(d)' => d = c \/ (Busy(d) /\ item'[d] = item[d])
      BY <2>4 DEF RegisterNotebook, Busy, TypeOK
    <3>3. item'[c] = n
      BY <2>4 DEF RegisterNotebook, TypeOK
    <3>4. QED
      BY <2>1, <2>2, <3>1, <3>2, <3>3 DEF InstallInv, Handles
  <2>5. QED
    BY <1>2, <2>3, <2>4
<1>3. ASSUME NEW c \in Calls, WatchRegistered(c) \/ WatchFails(c) \/ ReconcileEnds(c)
      PROVE  InstallInv' /\ WatchesAreCurrent'
  <2>1. /\ UNCHANGED <<generation, closed, watches, want, todo, item>>
        /\ \A d \in Calls : Busy(d)' => Busy(d)
        /\ \A d \in Calls : pc[d] # "unused" => pc'[d] # "unused"
    BY <1>3 DEF WatchRegistered, WatchFails, ReconcileEnds, TypeOK, Busy
  <2>2. QED
    BY <2>1 DEF InstallInv, WatchesAreCurrent, Handles
<1>4. ASSUME NEW c \in Calls, InstallWatch(c) PROVE InstallInv' /\ WatchesAreCurrent'
  <2>1. /\ UNCHANGED <<generation, closed, want, todo, item>>
        /\ pc' = [pc EXCEPT ![c] = "visiting"] /\ pc[c] = "registered"
    BY <1>4 DEF InstallWatch
  <2>2. /\ \A d \in Calls : Busy(d)' => Busy(d) /\ d # c
        /\ \A d \in Calls : pc[d] # "unused" => pc'[d] # "unused"
    BY <2>1 DEF Busy, TypeOK
  <2>3. CASE generation # c
    BY <1>4, <2>1, <2>2, <2>3 DEF InstallWatch, InstallInv, WatchesAreCurrent, Handles
  <2>4. CASE generation = c
    <3>1. watches' = [watches EXCEPT ![item[c]] = HandleOf(c)]
      BY <1>4, <2>4 DEF InstallWatch
    <3>2. Busy(c) /\ item[c] \in Notebooks /\ item[c] \notin todo[c] /\ want[c][item[c]] \in Dirs
      BY <2>1 DEF Busy, CallsInv, TypeOK
    <3>3. HandleOf(c) \in Handles /\ HandleOf(c).call = c /\ HandleOf(c).notebook = item[c]
          /\ HandleOf(c).dir = want[c][item[c]]
      BY <3>2 DEF HandleOf, Handles
    <3>4. closed = "open"
      BY <2>1, <2>4 DEF CallsInv, TypeOK, Calls
    <3>5. QED
      BY <2>1, <2>2, <2>4, <3>1, <3>2, <3>3, <3>4 DEF InstallInv, WatchesAreCurrent, TypeOK
  <2>5. QED
    BY <2>3, <2>4
<1>5. CASE Close
  BY <1>5 DEF Close, Unwatch, InstallInv, WatchesAreCurrent, Busy
<1>6. CASE Finished \/ UNCHANGED vars
  BY <1>6 DEF Finished, vars, InstallInv, WatchesAreCurrent, Busy
<1>7. QED
  BY <1>1, <1>2, <1>3, <1>4, <1>5, <1>6 DEF Next, Step

\* What is known of the registry is invariant.
LEMMA RegistryIsTracked == Spec => [](InstallInv /\ WatchesAreCurrent)
<1>1. Init => InstallInv /\ WatchesAreCurrent
  BY DEF Init, InstallInv, WatchesAreCurrent, Watched, Busy
<1>2. TypeOK /\ CallsInv /\ InstallInv /\ WatchesAreCurrent /\ [Next]_vars
        => InstallInv' /\ WatchesAreCurrent'
  BY RegistryStep
<1>3. QED
  BY <1>1, <1>2, WatchTypes, PTL DEF Spec

\* The registry holds watchers of the latest call's directories only, and none
\* after close() (WatchesAreCurrent).
THEOREM RegistryIsCurrent == Spec => []WatchesAreCurrent
  BY RegistryIsTracked, PTL

-----------------------------------------------------------------------------
(* Subscriptions *)

Installed(h) == \E n \in Notebooks : watches[n] # NoHandle /\ h = watches[n]
Unclaimed(h) == \E c \in Calls : pc[c] = "registered" /\ h = HandleOf(c)
LiveInv == \A h : h \in live <=> Installed(h) \/ Unclaimed(h)

\* The operating system keeps no subscription that nobody will give back
\* (NoLeakedWatch).
THEOREM WatchesDoNotLeak == Spec => []NoLeakedWatch
<1>1. Init => LiveInv
  BY DEF Init, LiveInv, Installed, Unclaimed
<1>2. TypeOK /\ CallsInv /\ InstallInv /\ LiveInv /\ [Next]_vars => LiveInv'
  <2> SUFFICES ASSUME TypeOK, CallsInv, InstallInv, LiveInv, [Next]_vars PROVE LiveInv'
    OBVIOUS
  <2>1. \A c \in Calls, n \in Notebooks :
            pc[c] = "registered" /\ watches[n] # NoHandle => HandleOf(c) # watches[n]
    BY DEF InstallInv, HandleOf, Handles, Busy, Watched
  <2>2. \A m, n \in Notebooks : watches[m] # NoHandle /\ watches[m] = watches[n] => m = n
    BY DEF InstallInv, Watched
  <2>3. ASSUME NEW ns \in SUBSET Notebooks, \A n \in ns : Watched(n), Unwatch(ns),
               \A c \in Calls : /\ (pc'[c] = "registered" <=> pc[c] = "registered")
                                 /\ (pc[c] = "registered" => HandleOf(c)' = HandleOf(c))
        PROVE  LiveInv'
    <3> SUFFICES ASSUME NEW h PROVE h \in live' <=> Installed(h)' \/ Unclaimed(h)'
      BY DEF LiveInv
    <3>1. h \in live' <=> h \in live /\ \A n \in ns : h # watches[n]
      BY <2>3 DEF Unwatch
    <3>2. Unclaimed(h)' <=> Unclaimed(h)
      BY <2>3 DEF Unclaimed
    <3>3. Installed(h)' <=> Installed(h) /\ \A n \in ns : h # watches[n]
      BY <2>2, <2>3 DEF Unwatch, Installed, Watched
    <3>4. Unclaimed(h) => \A n \in ns : h # watches[n]
      BY <2>1, <2>3 DEF Unclaimed, Watched
    <3>5. QED
      BY <3>1, <3>2, <3>3, <3>4 DEF LiveInv
  <2>4. ASSUME NEW desired \in [Notebooks -> Dirs \cup {NoDir}], Reconcile(desired) PROVE LiveInv'
    <3>1. pc[generation + 1] = "unused" /\ generation + 1 \in Calls
      BY <2>4, MaxCallsAssumption DEF Reconcile, CallsInv, TypeOK, Calls
    <3>2. \A c \in Calls : /\ (pc'[c] = "registered" <=> pc[c] = "registered")
                            /\ (pc[c] = "registered" => HandleOf(c)' = HandleOf(c))
      BY <2>4, <3>1 DEF Reconcile, HandleOf, TypeOK
    <3>3. QED
      BY <2>3, <2>4, <3>2 DEF Reconcile
  <2>5. CASE Close
    <3>1. \A c \in Calls : /\ (pc'[c] = "registered" <=> pc[c] = "registered")
                            /\ (pc[c] = "registered" => HandleOf(c)' = HandleOf(c))
      BY <2>5 DEF Close, HandleOf
    <3>2. QED
      BY <2>3, <2>5, <3>1 DEF Close
  <2>6. ASSUME NEW c \in Calls, NEW n \in Notebooks, SkipNotebook(c, n) \/ RegisterNotebook(c, n)
        PROVE  LiveInv'
    <3>1. \A d \in Calls : /\ (pc'[d] = "registered" <=> pc[d] = "registered")
                            /\ (pc[d] = "registered" => HandleOf(d)' = HandleOf(d))
      BY <2>6 DEF SkipNotebook, RegisterNotebook, HandleOf, TypeOK
    <3>2. UNCHANGED <<live, watches>>
      BY <2>6 DEF SkipNotebook, RegisterNotebook
    <3>3. QED
      BY <3>1, <3>2 DEF LiveInv, Installed, Unclaimed
  <2>7. ASSUME NEW c \in Calls, WatchFails(c) \/ ReconcileEnds(c) PROVE LiveInv'
    <3>1. \A d \in Calls : /\ (pc'[d] = "registered" <=> pc[d] = "registered")
                            /\ HandleOf(d)' = HandleOf(d)
      BY <2>7 DEF WatchFails, ReconcileEnds, HandleOf, TypeOK
    <3>2. UNCHANGED <<live, watches>>
      BY <2>7 DEF WatchFails, ReconcileEnds
    <3>3. QED
      BY <3>1, <3>2 DEF LiveInv, Installed, Unclaimed
  <2>8. ASSUME NEW c \in Calls, WatchRegistered(c) PROVE LiveInv'
    <3>1. /\ \A d \in Calls : pc'[d] = "registered" <=> pc[d] = "registered" \/ d = c
          /\ \A d \in Calls : HandleOf(d)' = HandleOf(d)
          /\ live' = live \cup {HandleOf(c)} /\ watches' = watches
      BY <2>8 DEF WatchRegistered, HandleOf, TypeOK
    <3>2. QED
      BY <3>1 DEF LiveInv, Installed, Unclaimed
  <2>9. ASSUME NEW c \in Calls, InstallWatch(c) PROVE LiveInv'
    <3>1. /\ \A d \in Calls : pc'[d] = "registered" <=> pc[d] = "registered" /\ d # c
          /\ \A d \in Calls : HandleOf(d)' = HandleOf(d)
          /\ pc[c] = "registered"
      BY <2>9 DEF InstallWatch, HandleOf, TypeOK
    <3>2. \A d \in Calls : HandleOf(d) = HandleOf(c) => d = c
      BY DEF HandleOf
    <3>3. \A h : Unclaimed(h) <=> Unclaimed(h)' \/ h = HandleOf(c)
      BY <3>1 DEF Unclaimed
    <3>4. \A h : Unclaimed(h)' => h # HandleOf(c)
      BY <3>1, <3>2 DEF Unclaimed
    <3>5. \A h : Installed(h) => h # HandleOf(c)
      BY <2>1, <3>1 DEF Installed
    <3>6. CASE generation = c
      <4>1. UNCHANGED live /\ watches' = [watches EXCEPT ![item[c]] = HandleOf(c)]
        BY <2>9, <3>6 DEF InstallWatch
      <4>2. item[c] \in Notebooks /\ closed = "open" /\ watches[item[c]] = NoHandle
        BY <3>1, <3>6 DEF InstallInv, CallsInv, TypeOK, Calls, Busy, Watched
      <4>3. HandleOf(c) # NoHandle
        BY DEF HandleOf, NoHandle, Calls
      <4>4. \A h : Installed(h)' <=> Installed(h) \/ h = HandleOf(c)
        BY <4>1, <4>2, <4>3 DEF Installed, TypeOK
      <4>5. QED
        BY <3>3, <4>1, <4>4 DEF LiveInv
    <3>7. CASE generation # c
      <4>1. live' = live \ {HandleOf(c)} /\ UNCHANGED watches
        BY <2>9, <3>7 DEF InstallWatch
      <4>2. \A h : Installed(h)' <=> Installed(h)
        BY <4>1 DEF Installed
      <4>3. QED
        <5> SUFFICES ASSUME NEW h PROVE h \in live' <=> Installed(h)' \/ Unclaimed(h)'
          BY DEF LiveInv
        <5>1. h \in live' <=> h \in live /\ h # HandleOf(c)
          BY <4>1
        <5>2. h \in live <=> Installed(h) \/ Unclaimed(h)
          BY DEF LiveInv
        <5>3. QED
          BY <3>3, <3>4, <3>5, <4>2, <5>1, <5>2
    <3>8. QED
      BY <3>6, <3>7
  <2>10. CASE Finished \/ UNCHANGED vars
    BY <2>10 DEF Finished, vars, LiveInv, Installed, Unclaimed, HandleOf
  <2>11. QED
    BY <2>4, <2>5, <2>6, <2>7, <2>8, <2>9, <2>10 DEF Next, Step
<1>3. LiveInv => NoLeakedWatch
  BY DEF LiveInv, NoLeakedWatch, Installed, Unclaimed, Watched
<1>4. QED
  BY <1>1, <1>2, <1>3, WatchTypes, RegistryIsTracked, PTL DEF Spec

-----------------------------------------------------------------------------
(* Progress of the latest call *)

\* When the latest call is over, what it asked for is watched or has failed
\* (DesiredAreWatched).
THEOREM LatestCallPrevails == Spec => []DesiredAreWatched
<1>1. Init => ProgressInv
  BY DEF Init, ProgressInv, Calls
<1>2. TypeOK /\ CallsInv /\ ProgressInv /\ [Next]_vars => ProgressInv'
  <2> SUFFICES ASSUME TypeOK, CallsInv, ProgressInv, [Next]_vars,
                      NEW c \in Calls, generation' = c, closed' = "open"
               PROVE  /\ pc'[c] # "unused"
                      /\ pc'[c] = "done" => todo'[c] = {}
                      /\ \A n \in Notebooks : want'[c][n] # NoDir =>
                             \/ n \in todo'[c] \/ watches'[n] # NoHandle \/ n \in failed'[c]
                             \/ Busy(c)' /\ item'[c] = n
    BY DEF ProgressInv, Watched
  <2> USE DEF Watched
  <2>1. ASSUME NEW desired \in [Notebooks -> Dirs \cup {NoDir}], Reconcile(desired)
        PROVE  /\ pc'[c] = "visiting"
               /\ \A n \in Notebooks : want'[c][n] # NoDir => n \in todo'[c]
    BY <2>1 DEF Reconcile, TypeOK
  <2>2. ASSUME NEW d \in Calls, d # c, Step(d)
        PROVE  /\ UNCHANGED <<generation, closed, watches, want, pc[c], todo[c], item[c], failed[c]>>
    BY <2>2 DEF Step, SkipNotebook, RegisterNotebook, WatchRegistered, WatchFails, InstallWatch,
         ReconcileEnds, TypeOK
  <2>3. ASSUME Step(c)
        PROVE  /\ pc'[c] # "unused"
               /\ pc'[c] = "done" => todo'[c] = {}
               /\ \A n \in Notebooks : want'[c][n] # NoDir =>
                      \/ n \in todo'[c] \/ watches'[n] # NoHandle \/ n \in failed'[c]
                      \/ Busy(c)' /\ item'[c] = n
    <3>1. generation = c /\ closed = "open" /\ UNCHANGED want
      BY <2>3 DEF Step, SkipNotebook, RegisterNotebook, WatchRegistered, WatchFails, InstallWatch,
           ReconcileEnds
    <3>2. ASSUME NEW n \in Notebooks, want[c][n] # NoDir
          PROVE  \/ n \in todo[c] \/ watches[n] # NoHandle \/ n \in failed[c]
                 \/ Busy(c) /\ item[c] = n
      BY <3>1, <3>2 DEF ProgressInv
    <3>3. ASSUME NEW m \in Notebooks, SkipNotebook(c, m) \/ RegisterNotebook(c, m)
          PROVE  /\ pc'[c] # "unused" /\ pc'[c] # "done"
                 /\ \A n \in Notebooks : want'[c][n] # NoDir =>
                      \/ n \in todo'[c] \/ watches'[n] # NoHandle \/ n \in failed'[c]
                      \/ Busy(c)' /\ item'[c] = n
      BY <3>1, <3>2, <3>3 DEF SkipNotebook, RegisterNotebook, Skips, Busy, TypeOK
    <3>4. ASSUME WatchRegistered(c) \/ WatchFails(c)
          PROVE  /\ pc'[c] # "unused" /\ pc'[c] # "done"
                 /\ \A n \in Notebooks : want'[c][n] # NoDir =>
                      \/ n \in todo'[c] \/ watches'[n] # NoHandle \/ n \in failed'[c]
                      \/ Busy(c)' /\ item'[c] = n
      BY <3>1, <3>2, <3>4 DEF WatchRegistered, WatchFails, Busy, TypeOK
    <3>5. ASSUME InstallWatch(c)
          PROVE  /\ pc'[c] # "unused" /\ pc'[c] # "done"
                 /\ \A n \in Notebooks : want'[c][n] # NoDir =>
                      \/ n \in todo'[c] \/ watches'[n] # NoHandle \/ n \in failed'[c]
                      \/ Busy(c)' /\ item'[c] = n
      <4>1. HandleOf(c) # NoHandle
        BY DEF HandleOf, NoHandle, Calls
      <4>2. QED
        BY <3>1, <3>2, <3>5, <4>1 DEF InstallWatch, Busy, TypeOK
    <3>6. ASSUME ReconcileEnds(c)
          PROVE  /\ pc'[c] # "unused" /\ todo'[c] = {}
                 /\ \A n \in Notebooks : want'[c][n] # NoDir =>
                      \/ n \in todo'[c] \/ watches'[n] # NoHandle \/ n \in failed'[c]
                      \/ Busy(c)' /\ item'[c] = n
      BY <3>1, <3>2, <3>6 DEF ReconcileEnds, Busy, TypeOK
    <3>7. QED
      BY <2>3, <3>3, <3>4, <3>5, <3>6 DEF Step
  <2>4. CASE Close
    BY <2>4 DEF Close
  <2>5. CASE Finished \/ UNCHANGED vars
    BY <2>5 DEF Finished, vars, ProgressInv, Busy
  <2>6. ASSUME NEW d \in Calls, d # c, Step(d)
        PROVE  /\ pc'[c] # "unused"
               /\ pc'[c] = "done" => todo'[c] = {}
               /\ \A n \in Notebooks : want'[c][n] # NoDir =>
                      \/ n \in todo'[c] \/ watches'[n] # NoHandle \/ n \in failed'[c]
                      \/ Busy(c)' /\ item'[c] = n
    BY <2>2, <2>6 DEF ProgressInv, Busy
  <2>7. QED
    BY <2>1, <2>3, <2>4, <2>5, <2>6 DEF Next
<1>3. ProgressInv => DesiredAreWatched
  BY DEF ProgressInv, DesiredAreWatched, Busy
<1>4. QED
  BY <1>1, <1>2, <1>3, WatchTypes, PTL DEF Spec
=============================================================================
