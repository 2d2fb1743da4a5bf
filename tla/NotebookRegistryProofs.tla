----------------------- MODULE NotebookRegistryProofs -----------------------
(* Proofs about NotebookRegistry, for any notebooks, folders and operations   *)
(* in flight: the copies of a notebook outlive every crash and failure, and   *)
(* only an update based on an old copy of the registry loses its entry.       *)
EXTENDS NotebookRegistry, TLAPS

InFlight(s, kinds) == ops[s] # Idle /\ ops[s].kind \in kinds

\* what an operation works on
TargetKnown(s) ==
    /\ InFlight(s, Kinds \ {"reorder", "clear"}) => ops[s].notebook \in Notebooks
    /\ InFlight(s, {"relocate", "load"}) => ops[s].at \in Dirs
    /\ InFlight(s, {"import"}) => ops[s].at = Opfs

\* what the app shows of the notebook an operation works on
TargetShown(s) ==
    /\ InFlight(s, {"import", "rollback"}) => view[ops[s].notebook] = "hidden"
    /\ InFlight(s, {"save", "delete", "relocate"}) => view[ops[s].notebook] \in {"open", "closed"}
    /\ InFlight(s, {"load"}) => view[ops[s].notebook] # "fresh"

\* a notebook that is being imported exists nowhere else
ImportIsNew(s) ==
    /\ InFlight(s, {"import", "rollback"}) =>
          /\ ops[s].notebook \notin kept
          /\ \A d \in Dirs : files[d][ops[s].notebook] = {}
    /\ At(s, {"import"}, "scripts") =>
          ops[s].notebook \in overwritten \/ manifest[ops[s].notebook] = Opfs

\* once verified, the copy in the folder has whatever is left of the original
CopyCovers(s) ==
    InFlight(s, {"relocate"}) /\ ops[s].pc \in {"read", "write", "drop"} =>
        files[Opfs][ops[s].notebook] \subseteq files[ops[s].at][ops[s].notebook]

\* the old files go only of a notebook that is deleted, or lives in a folder
OldFilesUnused(s) ==
    /\ At(s, {"delete"}, "files") /\ ops[s].notebook \in kept =>
          \E d \in Dirs : Complete(ops[s].notebook, d)
    /\ At(s, {"delete"}, "files") \/ At(s, {"relocate"}, "drop") =>
          (ops[s].notebook \in kept \ overwritten => manifest[ops[s].notebook] \in Dirs)

\* a folder that is being added keeps its notebook
LoadIsReadable(s) ==
    InFlight(s, {"load"}) => "metadata" \in files[ops[s].at][ops[s].notebook]

\* a notebook is imported once, and a relocation has the writer for itself
Exclusive ==
    \A s, t \in Slots : s # t =>
        /\ InFlight(s, {"import", "rollback"}) /\ InFlight(t, {"import", "rollback"})
              => ops[s].notebook # ops[t].notebook
        /\ InFlight(s, {"relocate"}) => ~InFlight(t, {"save", "relocate"})

\* a UUID that was not drawn yet names nothing
FreshIsNew ==
    \A n \in Notebooks : view[n] = "fresh" => n \notin kept /\ \A l \in Locations : files[l][n] = {}

SlotOK(s) ==
    /\ TargetKnown(s) /\ TargetShown(s) /\ ImportIsNew(s)
    /\ CopyCovers(s) /\ OldFilesUnused(s) /\ LoadIsReadable(s)

Inv ==
    /\ RegistryTypeOK
    /\ \A s \in Slots : SlotOK(s)
    /\ Exclusive
    /\ FreshIsNew
    /\ CopyIsKept
    /\ EntryFindsFiles

-----------------------------------------------------------------------------
\* How the operation of a slot changes.

\* An operation in flight is a record with the fields of an operation.
LEMMA OpType ==
    ASSUME RegistryTypeOK, NEW s \in Slots, ops[s] # Idle
    PROVE  /\ ops[s] \in Operation
           /\ ops[s].kind \in Kinds /\ ops[s].pc \in Steps /\ ops[s].at \in Locations
           /\ ops[s].notebook \in Notebooks \cup {Nobody} /\ ops[s].seen \in Registry
  BY DEF RegistryTypeOK, Operation

\* An operation differs from the idle slot.
LEMMA OperationIsNotIdle ==
    ASSUME NEW op \in Operation
    PROVE  op # Idle
  <1>1. op.pc \in Steps
    BY DEF Operation
  <1> QED
    BY DEF Operation, Idle

\* Starting an operation fills one idle slot.
LEMMA BeginStep ==
    ASSUME RegistryTypeOK, NEW s \in Slots, NEW kind \in Kinds, NEW n \in Notebooks \cup {Nobody},
           NEW l \in Locations, NEW pc \in Steps, Begin(s, kind, n, l, pc)
    PROVE  /\ ops' \in [Slots -> Operation \cup {Idle}]
           /\ ops[s] = Idle /\ ops'[s] # Idle
           /\ ops'[s].kind = kind /\ ops'[s].notebook = n /\ ops'[s].at = l /\ ops'[s].pc = pc
           /\ \A t \in Slots : t # s => ops'[t] = ops[t]
  <1> DEFINE op == [kind |-> kind, notebook |-> n, at |-> l, pc |-> pc, seen |-> NoEntries]
  <1>1. NoEntries \in Registry
    BY DEF NoEntries, Registry
  <1>2. op \in Operation
    BY <1>1 DEF Operation
  <1>3. op # Idle
    BY <1>2, OperationIsNotIdle
  <1>4. op.kind = kind /\ op.notebook = n /\ op.at = l /\ op.pc = pc
    OBVIOUS
  <1>5. ops' = [ops EXCEPT ![s] = op] /\ ops[s] = Idle
    BY DEF Begin
  <1> HIDE DEF op
  <1> QED
    BY <1>2, <1>3, <1>4, <1>5 DEF RegistryTypeOK

\* A step of an operation moves its own slot on.
LEMMA GotoStep ==
    ASSUME RegistryTypeOK, NEW s \in Slots, ops[s] # Idle, NEW pc \in Steps, Goto(s, pc)
    PROVE  /\ ops' \in [Slots -> Operation \cup {Idle}]
           /\ ops'[s] # Idle
           /\ ops'[s].kind = ops[s].kind /\ ops'[s].notebook = ops[s].notebook
           /\ ops'[s].at = ops[s].at /\ ops'[s].pc = pc
           /\ \A t \in Slots : t # s => ops'[t] = ops[t]
  <1> DEFINE op == [ops[s] EXCEPT !.pc = pc, !.seen = NoEntries]
  <1>1. NoEntries \in Registry
    BY DEF NoEntries, Registry
  <1>2. ops[s] \in Operation
    BY OpType
  <1>3. op \in Operation
    BY <1>1, <1>2 DEF Operation
  <1>4. op # Idle
    BY <1>3, OperationIsNotIdle
  <1>5. op.kind = ops[s].kind /\ op.notebook = ops[s].notebook /\ op.at = ops[s].at /\ op.pc = pc
    BY <1>2 DEF Operation
  <1>6. ops' = [ops EXCEPT ![s] = op]
    BY <1>2 DEF Goto, RegistryTypeOK, Operation
  <1> HIDE DEF op
  <1> QED
    BY <1>3, <1>4, <1>5, <1>6 DEF RegistryTypeOK

\* The end of an operation frees its slot.
LEMMA FinishStep ==
    ASSUME RegistryTypeOK, NEW s \in Slots, Finish(s)
    PROVE  /\ ops' \in [Slots -> Operation \cup {Idle}]
           /\ ops'[s] = Idle
           /\ \A t \in Slots : t # s => ops'[t] = ops[t]
  BY DEF Finish, RegistryTypeOK

-----------------------------------------------------------------------------
\* Every step preserves the invariant.

\* Growing files stay complete.
LEMMA CompleteStays ==
    ASSUME RegistryTypeOK, RegistryTypeOK', NEW n \in Notebooks, NEW l \in Locations,
           files[l][n] \subseteq files'[l][n], Complete(n, l)
    PROVE  Complete(n, l)'
  BY DEF RegistryTypeOK, Complete

\* What the invariant says of an operation in flight.
Means(s) ==
    LET op == ops[s]  n == op.notebook IN
    /\ op.kind \in Kinds /\ op.pc \in Steps /\ op.at \in Locations
    /\ op.kind \notin {"reorder", "clear"} => n \in Notebooks
    /\ op.kind \in {"relocate", "load"} => op.at \in Dirs
    /\ op.kind = "import" => op.at = Opfs
    /\ op.kind \in {"import", "rollback"} =>
          view[n] = "hidden" /\ n \notin kept /\ \A d \in Dirs : files[d][n] = {}
    /\ op.kind \in {"save", "delete", "relocate"} => view[n] \in {"open", "closed"}
    /\ op.kind = "load" => view[n] # "fresh" /\ "metadata" \in files[op.at][n]

LEMMA SlotMeans ==
    ASSUME Inv
    PROVE  \A s \in Slots : ops[s] # Idle => Means(s)
  BY OpType DEF Inv, Means, SlotOK, TargetKnown, TargetShown, ImportIsNew, LoadIsReadable, InFlight

\* An import has its notebook for itself, and a relocation excludes the writer.
LEMMA Apart ==
    ASSUME Inv, NEW s \in Slots, NEW t \in Slots, s # t, ops[s] # Idle, ops[t] # Idle
    PROVE  /\ /\ ops[s].kind \in {"import", "rollback"}
              /\ ops[t].kind \notin {"reorder", "clear"}
              => ops[s].notebook # ops[t].notebook
           /\ ops[s].kind = "relocate" => ops[t].kind \notin {"save", "relocate"}
  <1>1. Means(s) /\ Means(t)
    BY SlotMeans
  <1>2. ops[t].kind \in Kinds
    BY <1>1 DEF Means
  <1>3. ASSUME ops[s].kind \in {"import", "rollback"}, ops[s].notebook = ops[t].notebook
        PROVE  ops[t].kind \notin Kinds \ {"reorder", "clear"}
    <2>1. ops[t].kind \notin {"import", "rollback"}
      BY <1>3 DEF Inv, Exclusive, InFlight
    <2>2. view[ops[t].notebook] = "hidden"
      BY <1>1, <1>3 DEF Means
    <2>3. ops[t].kind \notin {"save", "delete", "relocate"}
      BY <1>1, <2>2 DEF Means
    <2>4. ops[t].kind # "load"
      BY <1>1, <1>3 DEF Means
    <2> QED
      BY <2>1, <2>3, <2>4 DEF Kinds
  <1>4. ops[s].kind = "relocate" => ops[t].kind \notin {"save", "relocate"}
    BY DEF Inv, Exclusive, InFlight
  <1> QED
    BY <1>2, <1>3, <1>4


-----------------------------------------------------------------------------
\* What each kind of step means for the operations of the other slots.

\* One that touches neither the files nor the registry.
LEMMA QuietSlot ==
    ASSUME Inv, NEW t \in Slots, ops'[t] = ops[t],
           UNCHANGED <<manifest, files, overwritten>>, kept' \subseteq kept,
           ops[t] # Idle => view'[ops[t].notebook] = view[ops[t].notebook]
    PROVE  SlotOK(t)'
  <1>1. SlotOK(t)
    BY DEF Inv
  <1>2. TargetKnown(t)' /\ TargetShown(t)' /\ LoadIsReadable(t)'
    BY <1>1 DEF SlotOK, TargetKnown, TargetShown, LoadIsReadable, InFlight
  <1>3. ImportIsNew(t)'
    BY <1>1 DEF SlotOK, ImportIsNew, InFlight, At
  <1>4. CopyCovers(t)'
    BY <1>1 DEF SlotOK, CopyCovers, InFlight
  <1>5. OldFilesUnused(t)'
    BY <1>1 DEF SlotOK, OldFilesUnused, At, Complete
  <1> QED
    BY <1>2, <1>3, <1>4, <1>5 DEF SlotOK

\* One that only removes files from OPFS.
LEMMA ShrinkSlot ==
    ASSUME Inv, NEW t \in Slots, ops'[t] = ops[t],
           UNCHANGED <<manifest, overwritten, view>>, kept' \subseteq kept,
           \A m \in Notebooks : files'[Opfs][m] \subseteq files[Opfs][m],
           \A d \in Dirs, m \in Notebooks : files'[d][m] = files[d][m]
    PROVE  SlotOK(t)'
  <1>1. SlotOK(t)
    BY DEF Inv
  <1>2. ops[t] # Idle => Means(t)
    BY SlotMeans
  <1>3. TargetKnown(t)' /\ TargetShown(t)'
    BY <1>1 DEF SlotOK, TargetKnown, TargetShown, InFlight
  <1>4. LoadIsReadable(t)'
    BY <1>1, <1>2 DEF SlotOK, LoadIsReadable, InFlight, Means
  <1>5. ImportIsNew(t)'
    BY <1>1, <1>2 DEF SlotOK, ImportIsNew, InFlight, At, Means
  <1>6. CopyCovers(t)'
    BY <1>1, <1>2 DEF SlotOK, CopyCovers, InFlight, Means
  <1>7. OldFilesUnused(t)'
    BY <1>1, <1>2 DEF SlotOK, OldFilesUnused, At, Complete, Means
  <1> QED
    BY <1>3, <1>4, <1>5, <1>6, <1>7 DEF SlotOK

\* One that stores files of notebook n at location l.
LEMMA GrowSlot ==
    ASSUME Inv, RegistryTypeOK', NEW t \in Slots, ops'[t] = ops[t],
           NEW n \in Notebooks, NEW l \in Locations,
           UNCHANGED <<manifest, overwritten>>,
           files[l][n] \subseteq files'[l][n],
           \A k \in Locations, m \in Notebooks : k # l \/ m # n => files'[k][m] = files[k][m],
           \A m \in Notebooks \ {n} : view'[m] = view[m] /\ (m \in kept' <=> m \in kept),
           ops[t] # Idle /\ ops[t].notebook = n =>
               /\ ops[t].kind \notin {"import", "rollback", "relocate"}
               /\ view' = view /\ kept' = kept
    PROVE  SlotOK(t)'
  <1>1. SlotOK(t) /\ RegistryTypeOK
    BY DEF Inv
  <1>2. CASE ops[t] = Idle
    BY <1>2 DEF SlotOK, TargetKnown, TargetShown, ImportIsNew, CopyCovers, OldFilesUnused,
                LoadIsReadable, InFlight, At
  <1>3. CASE ops[t] # Idle /\ ops[t].kind \in {"reorder", "clear"}
    BY <1>3 DEF SlotOK, TargetKnown, TargetShown, ImportIsNew, CopyCovers, OldFilesUnused,
                LoadIsReadable, InFlight, At
  <1>4. CASE ops[t] # Idle /\ ops[t].kind \notin {"reorder", "clear"}
    <2> DEFINE m == ops[t].notebook
    <2>1. Means(t)
      BY <1>4, SlotMeans
    <2>2. m \in Notebooks /\ view'[m] = view[m] /\ (m \in kept' <=> m \in kept)
      BY <1>4, <2>1 DEF Means
    <2>3. \A k \in Locations : files[k][m] \subseteq files'[k][m]
      BY <2>2
    <2>4. \A k \in Locations : Complete(m, k) => Complete(m, k)'
      BY <1>1, <2>2, <2>3, CompleteStays
    <2>5. TargetKnown(t)' /\ TargetShown(t)'
      BY <1>1, <1>4, <2>2 DEF SlotOK, TargetKnown, TargetShown, InFlight
    <2>6. LoadIsReadable(t)'
      BY <1>1, <1>4, <2>1, <2>3 DEF SlotOK, LoadIsReadable, InFlight, Means
    <2>7. ImportIsNew(t)'
      BY <1>1, <1>4, <2>2 DEF SlotOK, ImportIsNew, InFlight, At, Locations
    <2>8. CopyCovers(t)'
      BY <1>1, <1>4, <2>1, <2>2 DEF SlotOK, CopyCovers, InFlight, Means, Locations
    <2>9. OldFilesUnused(t)'
      BY <1>1, <1>4, <2>2, <2>4 DEF SlotOK, OldFilesUnused, At, Locations
    <2> QED
      BY <2>5, <2>6, <2>7, <2>8, <2>9 DEF SlotOK
  <1> QED
    BY <1>2, <1>3, <1>4

\* One that writes the registry: an entry that was not overwritten stays, or
\* comes to name a folder.
LEMMA RegistrySlot ==
    ASSUME Inv, NEW t \in Slots, ops'[t] = ops[t], UNCHANGED files,
           overwritten \subseteq overwritten',
           \A m \in Notebooks : m \in kept' \ overwritten' =>
               (m \in kept /\ manifest'[m] = manifest[m]) \/ manifest'[m] \in Dirs,
           \A m \in kept' : m \in kept \/ \E d \in Dirs : Complete(m, d),
           ops[t] # Idle /\ ops[t].kind \notin {"reorder", "clear"} =>
               LET m == ops[t].notebook IN
               /\ view'[m] = view[m] \/ (view[m] # "hidden" /\ view'[m] \in {"open", "closed"})
               /\ ops[t].kind \in {"import", "rollback"} =>
                     /\ m \in kept' => m \in kept
                     /\ m \in overwritten' \/ manifest'[m] = manifest[m]
    PROVE  SlotOK(t)'
  <1>1. SlotOK(t) /\ RegistryTypeOK
    BY DEF Inv
  <1>2. CASE ops[t] = Idle
    BY <1>2 DEF SlotOK, TargetKnown, TargetShown, ImportIsNew, CopyCovers, OldFilesUnused,
                LoadIsReadable, InFlight, At
  <1>3. CASE ops[t] # Idle /\ ops[t].kind \in {"reorder", "clear"}
    BY <1>3 DEF SlotOK, TargetKnown, TargetShown, ImportIsNew, CopyCovers, OldFilesUnused,
                LoadIsReadable, InFlight, At
  <1>4. CASE ops[t] # Idle /\ ops[t].kind \notin {"reorder", "clear"}
    <2> DEFINE m == ops[t].notebook
    <2>1. Means(t) /\ m \in Notebooks
      BY <1>4, SlotMeans DEF Means
    <2>2. TargetKnown(t)' /\ LoadIsReadable(t)' /\ CopyCovers(t)'
      BY <1>1 DEF SlotOK, TargetKnown, LoadIsReadable, CopyCovers, InFlight
    <2>3. TargetShown(t)'
      BY <1>4, <2>1 DEF TargetShown, InFlight, Means
    <2>4. ImportIsNew(t)'
      BY <1>1, <1>4, <2>1 DEF SlotOK, ImportIsNew, InFlight, At
    <2>5. OldFilesUnused(t)'
      BY <1>1, <1>4, <2>1 DEF SlotOK, OldFilesUnused, At, Complete
    <2> QED
      BY <2>2, <2>3, <2>4, <2>5 DEF SlotOK
  <1> QED
    BY <1>2, <1>3, <1>4

\* An idle slot claims nothing.
LEMMA IdleSlot ==
    ASSUME NEW s \in Slots, ops'[s] = Idle
    PROVE  SlotOK(s)'
  BY DEF SlotOK, TargetKnown, TargetShown, ImportIsNew, CopyCovers, OldFilesUnused,
         LoadIsReadable, InFlight, At

\* Operations stay apart as long as a slot keeps its operation or gives it up.
LEMMA ExclusiveStays ==
    ASSUME Exclusive, NEW s \in Slots,
           \A t \in Slots : t # s => ops'[t] = ops[t],
           \/ ops'[s] = Idle
           \/ /\ ops[s] # Idle /\ ops'[s].notebook = ops[s].notebook
              /\ \/ ops'[s].kind = ops[s].kind
                 \/ (ops[s].kind = "import" /\ ops'[s].kind = "rollback")
    PROVE  Exclusive'
  BY DEF Exclusive, InFlight

-----------------------------------------------------------------------------
\* Steps that store files.

\* Saving the metadata of a notebook.
LEMMA WritesMetadataKeeps ==
    ASSUME Inv, NEW s \in Slots, WritesMetadata(s)
    PROVE  Inv'
  <1>1. RegistryTypeOK /\ (\A t \in Slots : SlotOK(t)) /\ Exclusive /\ FreshIsNew
        /\ CopyIsKept /\ EntryFindsFiles
    BY DEF Inv
  <1> DEFINE n == ops[s].notebook  l == ops[s].at
  <1>2. /\ ops' \in [Slots -> Operation \cup {Idle}]
        /\ ops[s] # Idle /\ ops'[s] # Idle
        /\ ops'[s].kind = ops[s].kind /\ ops'[s].notebook = ops[s].notebook
        /\ ops'[s].at = ops[s].at /\ ops'[s].pc = "read"
        /\ \A t \in Slots : t # s => ops'[t] = ops[t]
    BY <1>1, GotoStep DEF WritesMetadata, At, Steps
  <1>3. n \in Notebooks /\ l \in Locations /\ l \in Locations /\ ops[s].kind \in {"import", "save"}
        /\ ops[s].notebook = n /\ ops[s].at = l /\ Means(s) /\ view[n] # "fresh"
    BY <1>2, SlotMeans DEF WritesMetadata, At, Means
  <1>4. /\ files' \in [Locations -> [Notebooks -> SUBSET Parts]]
        /\ files'[l][n] = files[l][n] \cup {"metadata"}
        /\ files[l][n] \subseteq files'[l][n]
        /\ \A k \in Locations, m \in Notebooks : k # l \/ m # n => files'[k][m] = files[k][m]
        /\ \A k \in Locations, m \in Notebooks : files[k][m] \subseteq files'[k][m]
    BY <1>1, <1>3 DEF WritesMetadata, Stored, RegistryTypeOK, Parts
  <1>5. manifest' = manifest /\ locations' = locations /\ view' = view /\ kept' = kept
        /\ overwritten' = overwritten
    BY DEF WritesMetadata
  <1> HIDE DEF n, l
  <1>6. RegistryTypeOK'
    BY <1>1, <1>2, <1>3, <1>4, <1>5 DEF RegistryTypeOK
  <1>7. \A k \in Locations, m \in Notebooks : Complete(m, k) => Complete(m, k)'
    BY <1>1, <1>4, <1>6, CompleteStays
  <1>8. ASSUME NEW t \in Slots PROVE SlotOK(t)'
    <2>1. CASE t # s
      <3>1. ops[t] # Idle /\ ops[t].notebook = n =>
               ops[t].kind \notin {"import", "rollback", "relocate"}
        BY <1>2, <1>3, <2>1, Apart, SlotMeans DEF Means
      <3> QED
        BY <1>2, <1>3, <1>4, <1>5, <1>6, <2>1, <3>1, GrowSlot
    <2>2. CASE t = s
      <3>1. TargetKnown(s)' /\ TargetShown(s)' /\ LoadIsReadable(s)' /\ CopyCovers(s)' /\ OldFilesUnused(s)'
        BY <1>2, <1>3, <1>5 DEF Means, TargetKnown, TargetShown, LoadIsReadable, CopyCovers,
                               OldFilesUnused, InFlight, At
      <3>2. ImportIsNew(s)'
        BY <1>2, <1>3, <1>4, <1>5, LocationsDiffer DEF Means, ImportIsNew, InFlight, At, Locations
      <3> QED
        BY <2>2, <3>1, <3>2 DEF SlotOK
    <2> QED
      BY <2>1, <2>2
  <1>9. Exclusive'
    BY <1>1, <1>2, ExclusiveStays
  <1>10. FreshIsNew'
    BY <1>1, <1>3, <1>4, <1>5 DEF FreshIsNew
  <1>11. CopyIsKept'
    BY <1>1, <1>5, <1>7 DEF CopyIsKept, RegistryTypeOK
  <1>12. EntryFindsFiles'
    BY <1>1, <1>5, <1>7 DEF EntryFindsFiles, RegistryTypeOK, Registry
  <1> QED
    BY <1>6, <1>8, <1>9, <1>10, <1>11, <1>12 DEF Inv

\* Truncating the metadata of a notebook in a folder, at the start of a write.
LEMMA TruncatesMetadataKeeps ==
    ASSUME Inv, NEW s \in Slots, TruncatesMetadata(s)
    PROVE  Inv'
  <1>1. RegistryTypeOK /\ (\A t \in Slots : SlotOK(t)) /\ Exclusive /\ FreshIsNew
        /\ CopyIsKept /\ EntryFindsFiles
    BY DEF Inv
  <1> DEFINE n == ops[s].notebook  l == ops[s].at
  <1>2. ops' = ops /\ ops[s] # Idle
    BY DEF TruncatesMetadata, At
  <1>3. n \in Notebooks /\ l \in Locations /\ l \in Dirs /\ ops[s].kind \in {"save", "relocate"}
        /\ ops[s].notebook = n /\ ops[s].at = l /\ ops[s].pc = "metadata" /\ Means(s) /\ view[n] # "fresh"
    BY <1>2, SlotMeans DEF TruncatesMetadata, At, Means
  <1>4. /\ files' \in [Locations -> [Notebooks -> SUBSET Parts]]
        /\ files'[l][n] = files[l][n] \cup {"metadata"}
        /\ files[l][n] \subseteq files'[l][n]
        /\ \A k \in Locations, m \in Notebooks : k # l \/ m # n => files'[k][m] = files[k][m]
        /\ \A k \in Locations, m \in Notebooks : files[k][m] \subseteq files'[k][m]
    BY <1>1, <1>3 DEF TruncatesMetadata, Stored, RegistryTypeOK, Parts
  <1>5. manifest' = manifest /\ locations' = locations /\ view' = view /\ kept' = kept
        /\ overwritten' = overwritten
    BY DEF TruncatesMetadata
  <1> HIDE DEF n, l
  <1>6. RegistryTypeOK'
    BY <1>1, <1>2, <1>3, <1>4, <1>5 DEF RegistryTypeOK
  <1>7. \A k \in Locations, m \in Notebooks : Complete(m, k) => Complete(m, k)'
    BY <1>1, <1>4, <1>6, CompleteStays
  <1>8. ASSUME NEW t \in Slots PROVE SlotOK(t)'
    <2>1. CASE t # s
      <3>1. ops[t] # Idle /\ ops[t].notebook = n =>
               ops[t].kind \notin {"import", "rollback", "relocate"}
        BY <1>2, <1>3, <2>1, Apart, SlotMeans DEF Means
      <3> QED
        BY <1>2, <1>3, <1>4, <1>5, <1>6, <2>1, <3>1, GrowSlot
    <2>2. CASE t = s
      <3>1. TargetKnown(s)' /\ TargetShown(s)' /\ LoadIsReadable(s)' /\ CopyCovers(s)' /\ OldFilesUnused(s)'
        BY <1>2, <1>3, <1>5 DEF Means, TargetKnown, TargetShown, LoadIsReadable, CopyCovers,
                               OldFilesUnused, InFlight, At
      <3>2. ImportIsNew(s)'
        BY <1>2, <1>3 DEF ImportIsNew, InFlight, At
      <3> QED
        BY <2>2, <3>1, <3>2 DEF SlotOK
    <2> QED
      BY <2>1, <2>2
  <1>9. Exclusive'
    BY <1>1, <1>2 DEF Exclusive, InFlight
  <1>10. FreshIsNew'
    BY <1>1, <1>3, <1>4, <1>5 DEF FreshIsNew
  <1>11. CopyIsKept'
    BY <1>1, <1>5, <1>7 DEF CopyIsKept, RegistryTypeOK
  <1>12. EntryFindsFiles'
    BY <1>1, <1>5, <1>7 DEF EntryFindsFiles, RegistryTypeOK, Registry
  <1> QED
    BY <1>6, <1>8, <1>9, <1>10, <1>11, <1>12 DEF Inv

\* Copying the metadata of a notebook that is relocated.
LEMMA CopiesMetadataKeeps ==
    ASSUME Inv, NEW s \in Slots, CopiesMetadata(s)
    PROVE  Inv'
  <1>1. RegistryTypeOK /\ (\A t \in Slots : SlotOK(t)) /\ Exclusive /\ FreshIsNew
        /\ CopyIsKept /\ EntryFindsFiles
    BY DEF Inv
  <1> DEFINE n == ops[s].notebook  l == ops[s].at
  <1>2. /\ ops' \in [Slots -> Operation \cup {Idle}]
        /\ ops[s] # Idle /\ ops'[s] # Idle
        /\ ops'[s].kind = ops[s].kind /\ ops'[s].notebook = ops[s].notebook
        /\ ops'[s].at = ops[s].at /\ ops'[s].pc = "scripts"
        /\ \A t \in Slots : t # s => ops'[t] = ops[t]
    BY <1>1, GotoStep DEF CopiesMetadata, At, Steps
  <1>3. n \in Notebooks /\ l \in Dirs /\ l \in Locations /\ ops[s].kind \in {"relocate"}
        /\ ops[s].notebook = n /\ ops[s].at = l /\ Means(s) /\ view[n] # "fresh"
    BY <1>2, SlotMeans DEF CopiesMetadata, At, Means
  <1>4. /\ files' \in [Locations -> [Notebooks -> SUBSET Parts]]
        /\ files'[l][n] = files[l][n] \cup {"metadata"}
        /\ files[l][n] \subseteq files'[l][n]
        /\ \A k \in Locations, m \in Notebooks : k # l \/ m # n => files'[k][m] = files[k][m]
        /\ \A k \in Locations, m \in Notebooks : files[k][m] \subseteq files'[k][m]
    BY <1>1, <1>3 DEF CopiesMetadata, Stored, RegistryTypeOK, Parts
  <1>5. manifest' = manifest /\ locations' = locations /\ view' = view /\ kept' = kept
        /\ overwritten' = overwritten
    BY DEF CopiesMetadata
  <1> HIDE DEF n, l
  <1>6. RegistryTypeOK'
    BY <1>1, <1>2, <1>3, <1>4, <1>5 DEF RegistryTypeOK
  <1>7. \A k \in Locations, m \in Notebooks : Complete(m, k) => Complete(m, k)'
    BY <1>1, <1>4, <1>6, CompleteStays
  <1>8. ASSUME NEW t \in Slots PROVE SlotOK(t)'
    <2>1. CASE t # s
      <3>1. ops[t] # Idle /\ ops[t].notebook = n =>
               ops[t].kind \notin {"import", "rollback", "relocate"}
        BY <1>2, <1>3, <2>1, Apart, SlotMeans DEF Means
      <3> QED
        BY <1>2, <1>3, <1>4, <1>5, <1>6, <2>1, <3>1, GrowSlot
    <2>2. CASE t = s
      BY <1>2, <1>3, <1>5, <2>2 DEF Means, SlotOK, TargetKnown, TargetShown, ImportIsNew, CopyCovers, OldFilesUnused,
              LoadIsReadable, InFlight, At
    <2> QED
      BY <2>1, <2>2
  <1>9. Exclusive'
    BY <1>1, <1>2, ExclusiveStays
  <1>10. FreshIsNew'
    BY <1>1, <1>3, <1>4, <1>5 DEF FreshIsNew
  <1>11. CopyIsKept'
    BY <1>1, <1>5, <1>7 DEF CopyIsKept, RegistryTypeOK
  <1>12. EntryFindsFiles'
    BY <1>1, <1>5, <1>7 DEF EntryFindsFiles, RegistryTypeOK, Registry
  <1> QED
    BY <1>6, <1>8, <1>9, <1>10, <1>11, <1>12 DEF Inv

\* Copying its scripts.
LEMMA CopiesScriptsKeeps ==
    ASSUME Inv, NEW s \in Slots, CopiesScripts(s)
    PROVE  Inv'
  <1>1. RegistryTypeOK /\ (\A t \in Slots : SlotOK(t)) /\ Exclusive /\ FreshIsNew
        /\ CopyIsKept /\ EntryFindsFiles
    BY DEF Inv
  <1> DEFINE n == ops[s].notebook  l == ops[s].at
  <1>2. /\ ops' \in [Slots -> Operation \cup {Idle}]
        /\ ops[s] # Idle /\ ops'[s] # Idle
        /\ ops'[s].kind = ops[s].kind /\ ops'[s].notebook = ops[s].notebook
        /\ ops'[s].at = ops[s].at /\ ops'[s].pc = "verify"
        /\ \A t \in Slots : t # s => ops'[t] = ops[t]
    BY <1>1, GotoStep DEF CopiesScripts, At, Steps
  <1>3. n \in Notebooks /\ l \in Dirs /\ l \in Locations /\ ops[s].kind \in {"relocate"}
        /\ ops[s].notebook = n /\ ops[s].at = l /\ Means(s) /\ view[n] # "fresh"
    BY <1>2, SlotMeans DEF CopiesScripts, At, Means
  <1>4. /\ files' \in [Locations -> [Notebooks -> SUBSET Parts]]
        /\ files'[l][n] = files[l][n] \cup (files[Opfs][n] \cap {"scripts"})
        /\ files[l][n] \subseteq files'[l][n]
        /\ \A k \in Locations, m \in Notebooks : k # l \/ m # n => files'[k][m] = files[k][m]
        /\ \A k \in Locations, m \in Notebooks : files[k][m] \subseteq files'[k][m]
    BY <1>1, <1>3 DEF CopiesScripts, Stored, RegistryTypeOK, Parts
  <1>5. manifest' = manifest /\ locations' = locations /\ view' = view /\ kept' = kept
        /\ overwritten' = overwritten
    BY DEF CopiesScripts
  <1> HIDE DEF n, l
  <1>6. RegistryTypeOK'
    BY <1>1, <1>2, <1>3, <1>4, <1>5 DEF RegistryTypeOK
  <1>7. \A k \in Locations, m \in Notebooks : Complete(m, k) => Complete(m, k)'
    BY <1>1, <1>4, <1>6, CompleteStays
  <1>8. ASSUME NEW t \in Slots PROVE SlotOK(t)'
    <2>1. CASE t # s
      <3>1. ops[t] # Idle /\ ops[t].notebook = n =>
               ops[t].kind \notin {"import", "rollback", "relocate"}
        BY <1>2, <1>3, <2>1, Apart, SlotMeans DEF Means
      <3> QED
        BY <1>2, <1>3, <1>4, <1>5, <1>6, <2>1, <3>1, GrowSlot
    <2>2. CASE t = s
      BY <1>2, <1>3, <1>5, <2>2 DEF Means, SlotOK, TargetKnown, TargetShown, ImportIsNew, CopyCovers, OldFilesUnused,
              LoadIsReadable, InFlight, At
    <2> QED
      BY <2>1, <2>2
  <1>9. Exclusive'
    BY <1>1, <1>2, ExclusiveStays
  <1>10. FreshIsNew'
    BY <1>1, <1>3, <1>4, <1>5 DEF FreshIsNew
  <1>11. CopyIsKept'
    BY <1>1, <1>5, <1>7 DEF CopyIsKept, RegistryTypeOK
  <1>12. EntryFindsFiles'
    BY <1>1, <1>5, <1>7 DEF EntryFindsFiles, RegistryTypeOK, Registry
  <1> QED
    BY <1>6, <1>8, <1>9, <1>10, <1>11, <1>12 DEF Inv

\* Storing the scripts of an import, which finishes it.
LEMMA ImportScriptsKeeps ==
    ASSUME Inv, NEW s \in Slots, ImportScripts(s)
    PROVE  Inv'
  <1>1. RegistryTypeOK /\ (\A t \in Slots : SlotOK(t)) /\ Exclusive /\ FreshIsNew
        /\ CopyIsKept /\ EntryFindsFiles
    BY DEF Inv
  <1> DEFINE n == ops[s].notebook  l == Opfs
  <1>2. /\ ops' \in [Slots -> Operation \cup {Idle}]
        /\ ops'[s] = Idle /\ \A t \in Slots : t # s => ops'[t] = ops[t]
    BY <1>1, FinishStep DEF ImportScripts
  <1>3. n \in Notebooks /\ l \in Locations /\ ops[s] # Idle /\ ops[s].kind = "import"
        /\ ops[s].notebook = n /\ l = Opfs /\ (n \in overwritten \/ manifest[n] = Opfs)
    <2>1. ops[s] # Idle /\ ops[s].kind = "import" /\ ops[s].pc = "scripts"
      BY DEF ImportScripts, At
    <2> QED
      BY <1>1, <2>1, SlotMeans DEF SlotOK, ImportIsNew, Means, At, Locations
  <1>4. /\ files' \in [Locations -> [Notebooks -> SUBSET Parts]]
        /\ files[l][n] \subseteq files'[l][n]
        /\ \A k \in Locations, m \in Notebooks : k # l \/ m # n => files'[k][m] = files[k][m]
        /\ \A k \in Locations, m \in Notebooks : files[k][m] \subseteq files'[k][m]
    BY <1>1, <1>3 DEF ImportScripts, Stored, RegistryTypeOK, Parts
  <1>5. /\ manifest' = manifest /\ locations' = locations /\ overwritten' = overwritten
        /\ view' = [view EXCEPT ![n] = "open"]
        /\ kept' = IF files'[Opfs][n] = Parts THEN kept \cup {n} ELSE kept
    BY DEF ImportScripts
  <1> HIDE DEF n, l
  <1>6. RegistryTypeOK'
    BY <1>1, <1>2, <1>3, <1>4, <1>5 DEF RegistryTypeOK
  <1>7. \A k \in Locations, m \in Notebooks : Complete(m, k) => Complete(m, k)'
    BY <1>1, <1>4, <1>6, CompleteStays
  <1>8. ASSUME NEW t \in Slots PROVE SlotOK(t)'
    <2>1. CASE t # s
      <3>1. ops[t] # Idle /\ ops[t].kind \notin {"reorder", "clear"} => ops[t].notebook # n
        BY <1>3, <2>1, Apart
      <3>2. CASE ops[t] # Idle /\ ops[t].kind \in {"reorder", "clear"}
        BY <1>2, <2>1, <3>2 DEF SlotOK, TargetKnown, TargetShown, ImportIsNew, CopyCovers,
                                OldFilesUnused, LoadIsReadable, InFlight, At
      <3>3. CASE ops[t] = Idle
        BY <1>2, <2>1, <3>3, IdleSlot
      <3>4. \A m \in Notebooks \ {n} : view'[m] = view[m] /\ (m \in kept' <=> m \in kept)
        BY <1>1, <1>5 DEF RegistryTypeOK
      <3>5. CASE ops[t] # Idle /\ ops[t].notebook # n
        BY <1>2, <1>3, <1>4, <1>5, <1>6, <2>1, <3>4, <3>5, GrowSlot
      <3> QED
        BY <3>1, <3>2, <3>3, <3>5
    <2>2. CASE t = s
      BY <1>2, <2>2, IdleSlot
    <2> QED
      BY <2>1, <2>2
  <1>9. Exclusive'
    BY <1>1, <1>2, ExclusiveStays
  <1>10. FreshIsNew'
    BY <1>1, <1>3, <1>4, <1>5 DEF FreshIsNew, RegistryTypeOK
  <1>11. CopyIsKept'
    <2>1. n \in kept' => n \in kept \/ files'[Opfs][n] = Parts
      BY <1>5
    <2>2. ASSUME NEW m \in kept' PROVE \E k \in Locations : files'[k][m] = Parts
      <3>1. CASE m \in kept
        BY <1>1, <1>7, <3>1 DEF CopyIsKept, RegistryTypeOK, Complete
      <3>2. CASE m \notin kept
        BY <1>3, <1>5, <2>1, <2>2, <3>2
      <3> QED
        BY <3>1, <3>2
    <2> QED
      BY <2>2 DEF CopyIsKept, Complete
  <1>12. EntryFindsFiles'
    <2>1. n \in kept' => n \in kept \/ files'[Opfs][n] = Parts
      BY <1>5
    <2>2. ASSUME NEW m \in kept' \ overwritten'
          PROVE  manifest'[m] # Nowhere /\ files'[manifest'[m]][m] = Parts
      <3>1. CASE m \in kept
        BY <1>1, <1>5, <1>7, <2>2, <3>1 DEF EntryFindsFiles, RegistryTypeOK, Registry, Complete
      <3>2. CASE m \notin kept
        BY <1>3, <1>5, <2>1, <2>2, <3>2, LocationsDiffer
      <3> QED
        BY <3>1, <3>2
    <2> QED
      BY <2>2 DEF EntryFindsFiles, Complete
  <1> QED
    BY <1>6, <1>8, <1>9, <1>10, <1>11, <1>12 DEF Inv

-----------------------------------------------------------------------------
\* Steps that remove files from OPFS.

\* When the files of a notebook may go, none that is needed is lost.
LEMMA RemovalIsSafe ==
    ASSUME Inv, RegistryTypeOK', NEW n \in Notebooks, UNCHANGED <<manifest, kept, overwritten, view>>,
           files'[Opfs][n] \subseteq files[Opfs][n],
           \A k \in Locations, m \in Notebooks : k # Opfs \/ m # n => files'[k][m] = files[k][m],
           n \in kept => \E d \in Dirs : Complete(n, d),
           n \in kept \ overwritten => manifest[n] \in Dirs
    PROVE  FreshIsNew' /\ CopyIsKept' /\ EntryFindsFiles'
  <1>1. RegistryTypeOK /\ FreshIsNew /\ CopyIsKept /\ EntryFindsFiles
    BY DEF Inv
  <1>2. \A k \in Locations, m \in Notebooks :
            Complete(m, k) /\ (k # Opfs \/ m # n) => Complete(m, k)'
    BY DEF Complete
  <1>3. FreshIsNew'
    BY <1>1 DEF FreshIsNew
  <1>4. CopyIsKept'
    BY <1>1, <1>2, LocationsDiffer DEF CopyIsKept, RegistryTypeOK, Locations
  <1>5. EntryFindsFiles'
    BY <1>1, <1>2, LocationsDiffer DEF EntryFindsFiles, RegistryTypeOK, Registry, Locations
  <1> QED
    BY <1>3, <1>4, <1>5

\* A notebook whose OPFS files are about to be removed has no need of them.
LEMMA RemovalIsAllowed ==
    ASSUME Inv, NEW s \in Slots,
           At(s, {"delete", "rollback"}, "files") \/ At(s, {"relocate"}, "drop")
    PROVE  LET n == ops[s].notebook IN
           /\ n \in Notebooks
           /\ n \in kept => \E d \in Dirs : Complete(n, d)
           /\ n \in kept \ overwritten => manifest[n] \in Dirs
  <1>1. ops[s] # Idle /\ Means(s) /\ SlotOK(s) /\ RegistryTypeOK /\ CopyIsKept
    BY SlotMeans DEF At, Inv
  <1>2. CASE At(s, {"delete"}, "files")
    BY <1>1, <1>2 DEF SlotOK, OldFilesUnused, Means, At
  <1>3. CASE At(s, {"rollback"}, "files")
    BY <1>1, <1>3 DEF Means, At
  <1>4. CASE At(s, {"relocate"}, "drop")
    <2> DEFINE n == ops[s].notebook
    <2>1. n \in Notebooks /\ ops[s].at \in Dirs
      BY <1>1, <1>4 DEF Means, At
    <2>2. n \in kept \ overwritten => manifest[n] \in Dirs
      BY <1>1, <1>4 DEF SlotOK, OldFilesUnused
    <2>3. files[Opfs][n] \subseteq files[ops[s].at][n]
      BY <1>1, <1>4 DEF SlotOK, CopyCovers, InFlight, At
    <2>4. files[ops[s].at][n] \subseteq Parts
      BY <1>1, <2>1 DEF RegistryTypeOK, Locations
    <2>5. Complete(n, Opfs) => Complete(n, ops[s].at)
      BY <2>3, <2>4 DEF Complete
    <2>6. n \in kept => \E d \in Dirs : Complete(n, d)
      BY <1>1, <2>1, <2>5 DEF CopyIsKept, Locations
    <2> QED
      BY <2>1, <2>2, <2>6
  <1> QED
    BY <1>2, <1>3, <1>4 DEF At

\* Deleting the files of a notebook.
LEMMA DeletesFilesKeeps ==
    ASSUME Inv, NEW s \in Slots, DeletesFiles(s)
    PROVE  Inv'
  <1>1. RegistryTypeOK /\ (\A t \in Slots : SlotOK(t)) /\ Exclusive /\ FreshIsNew
        /\ CopyIsKept /\ EntryFindsFiles
    BY DEF Inv
  <1> DEFINE n == ops[s].notebook
  <1>2. /\ ops' \in [Slots -> Operation \cup {Idle}]
        /\ ops[s] # Idle /\ ops'[s] # Idle
        /\ ops'[s].kind = ops[s].kind /\ ops'[s].notebook = ops[s].notebook
        /\ ops'[s].at = ops[s].at /\ ops'[s].pc = "read"
        /\ \A t \in Slots : t # s => ops'[t] = ops[t]
    BY <1>1, GotoStep DEF DeletesFiles, At, Steps
  <1>3. /\ n \in Notebooks
        /\ n \in kept => \E d \in Dirs : Complete(n, d)
        /\ n \in kept \ overwritten => manifest[n] \in Dirs
    BY RemovalIsAllowed DEF DeletesFiles, At
  <1>4. /\ files' \in [Locations -> [Notebooks -> SUBSET Parts]]
        /\ files'[Opfs][n] \subseteq files[Opfs][n]
        /\ \A k \in Locations, m \in Notebooks : k # Opfs \/ m # n => files'[k][m] = files[k][m]
    BY <1>1, <1>3 DEF DeletesFiles, RegistryTypeOK, Locations
  <1>5. manifest' = manifest /\ locations' = locations /\ view' = view /\ kept' = kept
        /\ overwritten' = overwritten
    BY DEF DeletesFiles
  <1> HIDE DEF n
  <1>6. RegistryTypeOK'
    BY <1>1, <1>2, <1>4, <1>5 DEF RegistryTypeOK
  <1>7. /\ \A m \in Notebooks : files'[Opfs][m] \subseteq files[Opfs][m]
        /\ \A d \in Dirs, m \in Notebooks : files'[d][m] = files[d][m]
    BY <1>4, LocationsDiffer DEF Locations
  <1>8. ASSUME NEW t \in Slots PROVE SlotOK(t)'
    <2>1. CASE t # s
      BY <1>2, <1>5, <1>7, <2>1, ShrinkSlot
    <2>2. CASE t = s
      <3>1. Means(s) /\ ops[s].kind \in {"delete", "rollback"}
        BY <1>2, SlotMeans DEF DeletesFiles, At
      <3>2. TargetKnown(s)' /\ TargetShown(s)' /\ LoadIsReadable(s)' /\ OldFilesUnused(s)'
        BY <1>2, <1>5, <3>1 DEF Means, TargetKnown, TargetShown, LoadIsReadable, OldFilesUnused,
                               InFlight, At
      <3>3. ImportIsNew(s)' /\ CopyCovers(s)'
        BY <1>2, <1>5, <1>7, <3>1 DEF Means, ImportIsNew, CopyCovers, InFlight, At
      <3> QED
        BY <2>2, <3>2, <3>3 DEF SlotOK
    <2> QED
      BY <2>1, <2>2
  <1>9. Exclusive'
    BY <1>1, <1>2, ExclusiveStays
  <1>10. FreshIsNew' /\ CopyIsKept' /\ EntryFindsFiles'
    BY <1>3, <1>4, <1>5, <1>6, RemovalIsSafe
  <1> QED
    BY <1>6, <1>8, <1>9, <1>10 DEF Inv

\* Dropping the original of a relocated notebook.
LEMMA DropsOpfsCopyKeeps ==
    ASSUME Inv, NEW s \in Slots, DropsOpfsCopy(s)
    PROVE  Inv'
  <1>1. RegistryTypeOK /\ (\A t \in Slots : SlotOK(t)) /\ Exclusive /\ FreshIsNew
        /\ CopyIsKept /\ EntryFindsFiles
    BY DEF Inv
  <1> DEFINE n == ops[s].notebook
  <1>2. /\ ops' \in [Slots -> Operation \cup {Idle}]
        /\ ops[s] # Idle /\ ops'[s] # Idle
        /\ ops'[s].kind = ops[s].kind /\ ops'[s].notebook = ops[s].notebook
        /\ ops'[s].at = ops[s].at /\ ops'[s].pc = "reload"
        /\ \A t \in Slots : t # s => ops'[t] = ops[t]
    BY <1>1, GotoStep DEF DropsOpfsCopy, At, Steps
  <1>3. /\ n \in Notebooks
        /\ n \in kept => \E d \in Dirs : Complete(n, d)
        /\ n \in kept \ overwritten => manifest[n] \in Dirs
    BY RemovalIsAllowed DEF DropsOpfsCopy, At
  <1>4. /\ files' \in [Locations -> [Notebooks -> SUBSET Parts]]
        /\ files'[Opfs][n] \subseteq files[Opfs][n]
        /\ \A k \in Locations, m \in Notebooks : k # Opfs \/ m # n => files'[k][m] = files[k][m]
    BY <1>1, <1>3 DEF DropsOpfsCopy, RegistryTypeOK, Locations
  <1>5. manifest' = manifest /\ locations' = locations /\ view' = view /\ kept' = kept
        /\ overwritten' = overwritten
    BY DEF DropsOpfsCopy
  <1> HIDE DEF n
  <1>6. RegistryTypeOK'
    BY <1>1, <1>2, <1>4, <1>5 DEF RegistryTypeOK
  <1>7. /\ \A m \in Notebooks : files'[Opfs][m] \subseteq files[Opfs][m]
        /\ \A d \in Dirs, m \in Notebooks : files'[d][m] = files[d][m]
    BY <1>4, LocationsDiffer DEF Locations
  <1>8. ASSUME NEW t \in Slots PROVE SlotOK(t)'
    <2>1. CASE t # s
      BY <1>2, <1>5, <1>7, <2>1, ShrinkSlot
    <2>2. CASE t = s
      <3>1. Means(s) /\ ops[s].kind \in {"relocate"}
        BY <1>2, SlotMeans DEF DropsOpfsCopy, At
      <3>2. TargetKnown(s)' /\ TargetShown(s)' /\ LoadIsReadable(s)' /\ OldFilesUnused(s)'
        BY <1>2, <1>5, <3>1 DEF Means, TargetKnown, TargetShown, LoadIsReadable, OldFilesUnused,
                               InFlight, At
      <3>3. ImportIsNew(s)' /\ CopyCovers(s)'
        BY <1>2, <1>5, <1>7, <3>1 DEF Means, ImportIsNew, CopyCovers, InFlight, At
      <3> QED
        BY <2>2, <3>2, <3>3 DEF SlotOK
    <2> QED
      BY <2>1, <2>2
  <1>9. Exclusive'
    BY <1>1, <1>2, ExclusiveStays
  <1>10. FreshIsNew' /\ CopyIsKept' /\ EntryFindsFiles'
    BY <1>3, <1>4, <1>5, <1>6, RemovalIsSafe
  <1> QED
    BY <1>6, <1>8, <1>9, <1>10 DEF Inv

\* A removal that stops half way.
LEMMA RemovesPartKeeps ==
    ASSUME Inv, NEW s \in Slots, RemovesPart(s)
    PROVE  Inv'
  <1>1. RegistryTypeOK /\ (\A t \in Slots : SlotOK(t)) /\ Exclusive /\ FreshIsNew
        /\ CopyIsKept /\ EntryFindsFiles
    BY DEF Inv
  <1> DEFINE n == ops[s].notebook
  <1>2. ops' \in [Slots -> Operation \cup {Idle}] /\ ops' = ops /\ ops[s] # Idle
    BY <1>1 DEF RemovesPart, At, RegistryTypeOK
  <1>3. /\ n \in Notebooks
        /\ n \in kept => \E d \in Dirs : Complete(n, d)
        /\ n \in kept \ overwritten => manifest[n] \in Dirs
    BY RemovalIsAllowed DEF RemovesPart, At
  <1>4. /\ files' \in [Locations -> [Notebooks -> SUBSET Parts]]
        /\ files'[Opfs][n] \subseteq files[Opfs][n]
        /\ \A k \in Locations, m \in Notebooks : k # Opfs \/ m # n => files'[k][m] = files[k][m]
    BY <1>1, <1>3 DEF RemovesPart, RegistryTypeOK, Locations
  <1>5. manifest' = manifest /\ locations' = locations /\ view' = view /\ kept' = kept
        /\ overwritten' = overwritten
    BY DEF RemovesPart
  <1> HIDE DEF n
  <1>6. RegistryTypeOK'
    BY <1>1, <1>2, <1>4, <1>5 DEF RegistryTypeOK
  <1>7. /\ \A m \in Notebooks : files'[Opfs][m] \subseteq files[Opfs][m]
        /\ \A d \in Dirs, m \in Notebooks : files'[d][m] = files[d][m]
    BY <1>4, LocationsDiffer DEF Locations
  <1>8. ASSUME NEW t \in Slots PROVE SlotOK(t)'
    BY <1>2, <1>5, <1>7, ShrinkSlot
  <1>9. Exclusive'
    BY <1>1, <1>2, ExclusiveStays
  <1>10. FreshIsNew' /\ CopyIsKept' /\ EntryFindsFiles'
    BY <1>3, <1>4, <1>5, <1>6, RemovalIsSafe
  <1> QED
    BY <1>6, <1>8, <1>9, <1>10 DEF Inv

-----------------------------------------------------------------------------
\* Steps that write the registry.

\* An entry is put; every other entry stays or was overwritten.
LEMMA PutMeans ==
    ASSUME Inv, NEW s \in Slots, ops[s] # Idle, ops[s].notebook \in Notebooks, PutEntry(s)
    PROVE  LET n == ops[s].notebook  l == ops[s].at IN
           /\ manifest' \in Registry /\ manifest'[n] = l
           /\ overwritten' \in SUBSET Notebooks /\ overwritten \subseteq overwritten'
           /\ \A m \in Notebooks : m \notin overwritten' /\ m # n => manifest'[m] = manifest[m]
           /\ n \notin overwritten' =>
                 \/ manifest[n] \in {Nowhere, l}
                 \/ ops[s].kind = "relocate" /\ manifest[n] = Opfs
  <1>1. RegistryTypeOK /\ ops[s].seen \in Registry /\ ops[s].at \in Locations
    BY OpType DEF Inv
  <1> DEFINE n == ops[s].notebook  l == ops[s].at
  <1>2. manifest' = [ops[s].seen EXCEPT ![n] = l]
    BY DEF PutEntry, WriteRegistry
  <1>3. /\ overwritten \subseteq overwritten'
        /\ \A m \in Notebooks : manifest[m] # ops[s].seen[m] => m \in overwritten'
        /\ manifest[n] \notin {Nowhere, l} \cup (IF ops[s].kind = "relocate" THEN {Opfs} ELSE {})
              => n \in overwritten'
        /\ overwritten' \in SUBSET Notebooks
    BY <1>1 DEF PutEntry, WriteRegistry, RegistryTypeOK
  <1> HIDE DEF n, l
  <1>4. n \in Notebooks /\ l \in Locations
    BY <1>1 DEF n, l
  <1>5. manifest' \in Registry /\ manifest'[n] = l
    BY <1>1, <1>2, <1>4 DEF Registry
  <1>6. \A m \in Notebooks : m \notin overwritten' /\ m # n => manifest'[m] = manifest[m]
    BY <1>1, <1>2, <1>3 DEF Registry
  <1> QED
    BY <1>3, <1>5, <1>6 DEF n, l

\* An entry is removed; every other entry stays or was overwritten.
LEMMA RemoveMeans ==
    ASSUME Inv, NEW s \in Slots, ops[s] # Idle, ops[s].notebook \in Notebooks, RemoveEntry(s)
    PROVE  LET n == ops[s].notebook IN
           /\ manifest' \in Registry
           /\ overwritten' \in SUBSET Notebooks /\ overwritten \subseteq overwritten'
           /\ \A m \in Notebooks : m \notin overwritten' /\ m # n => manifest'[m] = manifest[m]
  <1>1. RegistryTypeOK /\ ops[s].seen \in Registry
    BY OpType DEF Inv
  <1>2. manifest' = [ops[s].seen EXCEPT ![ops[s].notebook] = Nowhere]
    BY DEF RemoveEntry, WriteRegistry
  <1>3. /\ overwritten \subseteq overwritten' /\ overwritten' \in SUBSET Notebooks
        /\ \A m \in Notebooks : manifest[m] # ops[s].seen[m] => m \in overwritten'
    BY <1>1 DEF RemoveEntry, WriteRegistry, RegistryTypeOK
  <1> QED
    BY <1>1, <1>2, <1>3 DEF Registry

\* Putting the entry of a notebook that lives where the entry says: what holds of
\* the entries that were not overwritten.
LEMMA PutIsSafe ==
    ASSUME Inv, NEW s \in Slots, ops[s] # Idle, ops[s].notebook \in Notebooks, PutEntry(s),
           ops[s].kind # "relocate", UNCHANGED <<files, kept>>
    PROVE  /\ \A m \in kept \ overwritten' : manifest'[m] = manifest[m]
           /\ EntryFindsFiles'
  <1>1. RegistryTypeOK /\ EntryFindsFiles
    BY DEF Inv
  <1>2. ASSUME NEW m \in kept \ overwritten' PROVE manifest'[m] = manifest[m]
    <2>1. m \in Notebooks /\ m \in kept \ overwritten /\ manifest[m] # Nowhere
      BY <1>1, PutMeans DEF EntryFindsFiles, RegistryTypeOK
    <2> QED
      BY <2>1, PutMeans
  <1>3. EntryFindsFiles'
    BY <1>1, <1>2, PutMeans DEF EntryFindsFiles, Complete
  <1> QED
    BY <1>2, <1>3

\* Registering a notebook that was saved.
LEMMA SaveEntryKeeps ==
    ASSUME Inv, NEW s \in Slots, SaveEntry(s)
    PROVE  Inv'
  <1>1. RegistryTypeOK /\ (\A t \in Slots : SlotOK(t)) /\ Exclusive /\ FreshIsNew
        /\ CopyIsKept /\ EntryFindsFiles
    BY DEF Inv
  <1>2. /\ ops' \in [Slots -> Operation \cup {Idle}]
        /\ ops'[s] = Idle /\ \A t \in Slots : t # s => ops'[t] = ops[t]
    BY <1>1, FinishStep DEF SaveEntry
  <1>3. ops[s] # Idle /\ ops[s].kind = "save" /\ Means(s) /\ ops[s].notebook \in Notebooks
        /\ PutEntry(s)
    BY SlotMeans DEF SaveEntry, At, Means
  <1>4. /\ manifest' \in Registry /\ manifest'[ops[s].notebook] = ops[s].at
        /\ overwritten' \in SUBSET Notebooks /\ overwritten \subseteq overwritten'
        /\ \A m \in Notebooks : m \notin overwritten' /\ m # ops[s].notebook => manifest'[m] = manifest[m]
    BY <1>3, PutMeans
  <1>5. files' = files /\ locations' = locations /\ view' = view /\ kept' = kept
    BY DEF SaveEntry
  <1>6. RegistryTypeOK'
    BY <1>1, <1>2, <1>3, <1>4, <1>5 DEF RegistryTypeOK
  <1>7. \A t \in Slots : t # s => SlotOK(t)'
    <2> SUFFICES ASSUME NEW t \in Slots, t # s PROVE SlotOK(t)'
      OBVIOUS
    <2>1. ops[t] # Idle /\ ops[t].kind \in {"import", "rollback"} => ops[t].notebook # ops[s].notebook
      BY <1>3, Apart
    <2>2. ops[t] # Idle /\ ops[t].kind \in {"import", "rollback"} => ops[t].notebook \in Notebooks
      BY SlotMeans DEF Means
    <2>3. \A m \in kept \ overwritten' : manifest'[m] = manifest[m]
      BY <1>3, <1>5, PutIsSafe
    <2> QED
      BY <1>2, <1>4, <1>5, <2>1, <2>2, <2>3, RegistrySlot
  <1>8. SlotOK(s)'
    BY <1>2, IdleSlot
  <1>9. Exclusive'
    BY <1>1, <1>2, ExclusiveStays
  <1>10. FreshIsNew' /\ CopyIsKept' /\ EntryFindsFiles'
    <2>1. EntryFindsFiles'
      BY <1>3, <1>5, PutIsSafe
    <2> QED
      BY <1>1, <1>5, <2>1 DEF FreshIsNew, CopyIsKept, Complete
  <1> QED
    BY <1>6, <1>7, <1>8, <1>9, <1>10 DEF Inv

\* Registering a notebook that is imported.
LEMMA ImportEntryKeeps ==
    ASSUME Inv, NEW s \in Slots, ImportEntry(s)
    PROVE  Inv'
  <1>1. RegistryTypeOK /\ (\A t \in Slots : SlotOK(t)) /\ Exclusive /\ FreshIsNew
        /\ CopyIsKept /\ EntryFindsFiles
    BY DEF Inv
  <1>2. /\ ops' \in [Slots -> Operation \cup {Idle}]
        /\ ops[s] # Idle /\ ops'[s] # Idle
        /\ ops'[s].kind = ops[s].kind /\ ops'[s].notebook = ops[s].notebook
        /\ ops'[s].at = ops[s].at /\ ops'[s].pc = "scripts"
        /\ \A t \in Slots : t # s => ops'[t] = ops[t]
    BY <1>1, GotoStep DEF ImportEntry, At, Steps
  <1>3. ops[s] # Idle /\ ops[s].kind = "import" /\ Means(s) /\ ops[s].notebook \in Notebooks
        /\ PutEntry(s)
    BY SlotMeans DEF ImportEntry, At, Means
  <1>4. /\ manifest' \in Registry /\ manifest'[ops[s].notebook] = ops[s].at
        /\ overwritten' \in SUBSET Notebooks /\ overwritten \subseteq overwritten'
        /\ \A m \in Notebooks : m \notin overwritten' /\ m # ops[s].notebook => manifest'[m] = manifest[m]
    BY <1>3, PutMeans
  <1>5. files' = files /\ locations' = locations /\ view' = view /\ kept' = kept
    BY DEF ImportEntry
  <1>6. RegistryTypeOK'
    BY <1>1, <1>2, <1>3, <1>4, <1>5 DEF RegistryTypeOK
  <1>7. \A t \in Slots : t # s => SlotOK(t)'
    <2> SUFFICES ASSUME NEW t \in Slots, t # s PROVE SlotOK(t)'
      OBVIOUS
    <2>1. ops[t] # Idle /\ ops[t].kind \in {"import", "rollback"} => ops[t].notebook # ops[s].notebook
      BY <1>3, Apart
    <2>2. ops[t] # Idle /\ ops[t].kind \in {"import", "rollback"} => ops[t].notebook \in Notebooks
      BY SlotMeans DEF Means
    <2>3. \A m \in kept \ overwritten' : manifest'[m] = manifest[m]
      BY <1>3, <1>5, PutIsSafe
    <2> QED
      BY <1>2, <1>4, <1>5, <2>1, <2>2, <2>3, RegistrySlot
  <1>8. SlotOK(s)'
    <2>1. manifest'[ops[s].notebook] = Opfs
      BY <1>2, <1>3, <1>4 DEF Means
    <2> QED
      BY <1>2, <1>3, <1>5, <2>1 DEF Means, SlotOK, TargetKnown, TargetShown, ImportIsNew, CopyCovers, OldFilesUnused,
              LoadIsReadable, InFlight, At
  <1>9. Exclusive'
    BY <1>1, <1>2, ExclusiveStays
  <1>10. FreshIsNew' /\ CopyIsKept' /\ EntryFindsFiles'
    <2>1. EntryFindsFiles'
      BY <1>3, <1>5, PutIsSafe
    <2> QED
      BY <1>1, <1>5, <2>1 DEF FreshIsNew, CopyIsKept, Complete
  <1> QED
    BY <1>6, <1>7, <1>8, <1>9, <1>10 DEF Inv

\* Flipping the entry of a relocated notebook.
LEMMA FlipsEntryKeeps ==
    ASSUME Inv, NEW s \in Slots, FlipsEntry(s)
    PROVE  Inv'
  <1>1. RegistryTypeOK /\ (\A t \in Slots : SlotOK(t)) /\ Exclusive /\ FreshIsNew
        /\ CopyIsKept /\ EntryFindsFiles
    BY DEF Inv
  <1>2. /\ ops' \in [Slots -> Operation \cup {Idle}]
        /\ ops[s] # Idle /\ ops'[s] # Idle
        /\ ops'[s].kind = ops[s].kind /\ ops'[s].notebook = ops[s].notebook
        /\ ops'[s].at = ops[s].at /\ ops'[s].pc = "drop"
        /\ \A t \in Slots : t # s => ops'[t] = ops[t]
    BY <1>1, GotoStep DEF FlipsEntry, At, Steps
  <1> DEFINE n == ops[s].notebook  l == ops[s].at
  <1>3. /\ ops[s] # Idle /\ ops[s].kind = "relocate" /\ Means(s) /\ PutEntry(s)
        /\ n \in Notebooks /\ l \in Dirs /\ l \in Locations
        /\ ops[s].notebook = n /\ ops[s].at = l
        /\ files[Opfs][n] \subseteq files[l][n]
    <2>1. ops[s] # Idle /\ ops[s].kind = "relocate" /\ ops[s].pc = "write" /\ PutEntry(s)
      BY DEF FlipsEntry, At
    <2>2. files[Opfs][n] \subseteq files[l][n]
      BY <1>1, <2>1 DEF SlotOK, CopyCovers, InFlight
    <2> QED
      BY <2>1, <2>2, SlotMeans DEF Means, Locations
  <1>4. /\ manifest' \in Registry /\ manifest'[n] = l
        /\ overwritten' \in SUBSET Notebooks /\ overwritten \subseteq overwritten'
        /\ \A m \in Notebooks : m \notin overwritten' /\ m # n => manifest'[m] = manifest[m]
        /\ n \notin overwritten' => manifest[n] \in {Nowhere, l, Opfs}
    BY <1>3, PutMeans
  <1>5. files' = files /\ view' = view /\ kept' = kept /\ locations' = [locations EXCEPT ![n] = l]
    BY DEF FlipsEntry
  <1> HIDE DEF n, l
  <1>6. RegistryTypeOK'
    BY <1>1, <1>2, <1>3, <1>4, <1>5 DEF RegistryTypeOK, Registry
  <1>7. \A t \in Slots : t # s => SlotOK(t)'
    <2> SUFFICES ASSUME NEW t \in Slots, t # s PROVE SlotOK(t)'
      OBVIOUS
    <2>1. ops[t] # Idle /\ ops[t].kind \in {"import", "rollback"} => ops[t].notebook # n
      BY <1>3, Apart
    <2>2. ops[t] # Idle /\ ops[t].kind \in {"import", "rollback"} => ops[t].notebook \in Notebooks
      BY SlotMeans DEF Means
    <2>3. \A m \in Notebooks : m \in kept' \ overwritten' =>
             (m \in kept /\ manifest'[m] = manifest[m]) \/ manifest'[m] \in Dirs
      BY <1>3, <1>4, <1>5
    <2> QED
      BY <1>2, <1>4, <1>5, <2>1, <2>2, <2>3, RegistrySlot
  <1>8. SlotOK(s)'
    <2>1. TargetKnown(s)' /\ TargetShown(s)' /\ LoadIsReadable(s)' /\ OldFilesUnused(s)' /\ ImportIsNew(s)'
      BY <1>2, <1>3, <1>4, <1>5 DEF Means, TargetKnown, TargetShown, LoadIsReadable, OldFilesUnused,
                                   ImportIsNew, InFlight, At
    <2>2. CopyCovers(s)'
      BY <1>2, <1>3, <1>5 DEF CopyCovers, InFlight
    <2> QED
      BY <2>1, <2>2 DEF SlotOK
  <1>9. Exclusive'
    BY <1>1, <1>2, ExclusiveStays
  <1>10. FreshIsNew' /\ CopyIsKept' /\ EntryFindsFiles'
    <2>1. ASSUME NEW m \in kept \ overwritten'
          PROVE  manifest'[m] # Nowhere /\ files[manifest'[m]][m] = Parts
      <3>1. m \in Notebooks /\ m \in kept \ overwritten
        BY <1>1, <1>4, <2>1 DEF RegistryTypeOK
      <3>2. manifest[m] # Nowhere /\ files[manifest[m]][m] = Parts
        BY <1>1, <3>1 DEF EntryFindsFiles, Complete
      <3>3. CASE m = n
        <4>1. files[l][n] \subseteq Parts
          BY <1>1, <1>3 DEF RegistryTypeOK
        <4>2. manifest[n] = l \/ manifest[n] = Opfs
          BY <1>4, <2>1, <3>2, <3>3
        <4>3. files[l][n] = Parts
          BY <1>3, <3>2, <3>3, <4>1, <4>2
        <4>4. manifest'[n] = l /\ l # Nowhere
          BY <1>3, <1>4, LocationsDiffer
        <4> QED
          BY <3>3, <4>3, <4>4
      <3>4. CASE m # n
        BY <1>4, <2>1, <3>1, <3>2, <3>4
      <3> QED
        BY <3>3, <3>4
    <2> QED
      BY <1>1, <1>5, <2>1 DEF FreshIsNew, CopyIsKept, EntryFindsFiles, Complete
  <1> QED
    BY <1>6, <1>7, <1>8, <1>9, <1>10 DEF Inv

\* Registering a folder that was added.
LEMMA LoadEntryKeeps ==
    ASSUME Inv, NEW s \in Slots, LoadEntry(s)
    PROVE  Inv'
  <1>1. RegistryTypeOK /\ (\A t \in Slots : SlotOK(t)) /\ Exclusive /\ FreshIsNew
        /\ CopyIsKept /\ EntryFindsFiles
    BY DEF Inv
  <1>2. /\ ops' \in [Slots -> Operation \cup {Idle}]
        /\ ops[s] # Idle /\ ops'[s] # Idle
        /\ ops'[s].kind = ops[s].kind /\ ops'[s].notebook = ops[s].notebook
        /\ ops'[s].at = ops[s].at /\ ops'[s].pc = "reload"
        /\ \A t \in Slots : t # s => ops'[t] = ops[t]
    BY <1>1, GotoStep DEF LoadEntry, At, Steps
  <1> DEFINE n == ops[s].notebook  l == ops[s].at
  <1>3. /\ ops[s] # Idle /\ ops[s].kind = "load" /\ Means(s) /\ PutEntry(s)
        /\ n \in Notebooks /\ l \in Dirs /\ l \in Locations
        /\ ops[s].notebook = n /\ ops[s].at = l /\ view[n] # "fresh"
    BY SlotMeans DEF LoadEntry, At, Means, Locations
  <1>4. /\ manifest' \in Registry /\ manifest'[n] = l
        /\ overwritten' \in SUBSET Notebooks /\ overwritten \subseteq overwritten'
        /\ \A m \in Notebooks : m \notin overwritten' /\ m # n => manifest'[m] = manifest[m]
        /\ n \notin overwritten' => manifest[n] \in {Nowhere, l}
    BY <1>3, PutMeans
  <1>5. /\ files' = files /\ view' = view /\ locations' = [locations EXCEPT ![n] = l]
        /\ kept' = IF Complete(n, l) THEN kept \cup {n} ELSE kept
    BY DEF LoadEntry
  <1> HIDE DEF n, l
  <1>6. RegistryTypeOK'
    BY <1>1, <1>2, <1>3, <1>4, <1>5 DEF RegistryTypeOK, Registry
  <1>7. \A t \in Slots : t # s => SlotOK(t)'
    <2> SUFFICES ASSUME NEW t \in Slots, t # s PROVE SlotOK(t)'
      OBVIOUS
    <2>1. ops[t] # Idle /\ ops[t].kind \in {"import", "rollback"} => ops[t].notebook # n
      BY <1>3, Apart
    <2>2. ops[t] # Idle /\ ops[t].kind \in {"import", "rollback"} => ops[t].notebook \in Notebooks
      BY SlotMeans DEF Means
    <2>3. \A m \in Notebooks : m \in kept' \ overwritten' =>
             (m \in kept /\ manifest'[m] = manifest[m]) \/ manifest'[m] \in Dirs
      BY <1>3, <1>4, <1>5
    <2>4. \A m \in kept' : m \in kept \/ \E d \in Dirs : Complete(m, d)
      BY <1>3, <1>5
    <2> QED
      BY <1>2, <1>4, <1>5, <2>1, <2>2, <2>3, <2>4, RegistrySlot
  <1>8. SlotOK(s)'
    BY <1>2, <1>3, <1>5 DEF Means, SlotOK, TargetKnown, TargetShown, ImportIsNew, CopyCovers, OldFilesUnused,
              LoadIsReadable, InFlight, At
  <1>9. Exclusive'
    BY <1>1, <1>2, ExclusiveStays
  <1>10. FreshIsNew' /\ CopyIsKept' /\ EntryFindsFiles'
    <2>1. ASSUME NEW m \in kept' \ overwritten'
          PROVE  manifest'[m] # Nowhere /\ files[manifest'[m]][m] = Parts
      <3>1. CASE m \in kept
        <4>1. m \in Notebooks /\ manifest[m] # Nowhere /\ files[manifest[m]][m] = Parts
          BY <1>1, <1>4, <2>1, <3>1 DEF EntryFindsFiles, Complete, RegistryTypeOK
        <4> QED
          BY <1>4, <2>1, <4>1
      <3>2. CASE m \notin kept
        BY <1>3, <1>4, <1>5, <2>1, <3>2, LocationsDiffer DEF Complete
      <3> QED
        BY <3>1, <3>2
    <2>2. CopyIsKept'
      BY <1>1, <1>3, <1>5 DEF CopyIsKept, Complete
    <2>3. FreshIsNew'
      BY <1>1, <1>3, <1>5 DEF FreshIsNew
    <2> QED
      BY <1>5, <2>1, <2>2, <2>3 DEF EntryFindsFiles, Complete
  <1> QED
    BY <1>6, <1>7, <1>8, <1>9, <1>10 DEF Inv

\* Removing the entry of a deleted notebook.
LEMMA DeleteEntryKeeps ==
    ASSUME Inv, NEW s \in Slots, DeleteEntry(s)
    PROVE  Inv'
  <1>1. RegistryTypeOK /\ (\A t \in Slots : SlotOK(t)) /\ Exclusive /\ FreshIsNew
        /\ CopyIsKept /\ EntryFindsFiles
    BY DEF Inv
  <1>2. /\ ops' \in [Slots -> Operation \cup {Idle}]
        /\ ops'[s] = Idle /\ \A t \in Slots : t # s => ops'[t] = ops[t]
    BY <1>1, FinishStep DEF DeleteEntry
  <1> DEFINE n == ops[s].notebook
  <1>3. /\ ops[s] # Idle /\ ops[s].kind \in {"delete", "rollback"} /\ Means(s) /\ RemoveEntry(s)
        /\ n \in Notebooks /\ ops[s].notebook = n /\ view[n] # "fresh"
    BY SlotMeans DEF DeleteEntry, At, Means
  <1>4. /\ manifest' \in Registry
        /\ overwritten' \in SUBSET Notebooks /\ overwritten \subseteq overwritten'
        /\ \A m \in Notebooks : m \notin overwritten' /\ m # n => manifest'[m] = manifest[m]
    BY <1>3, RemoveMeans
  <1>5. /\ files' = files /\ kept' = kept \ {n}
        /\ locations' = [locations EXCEPT ![n] = Nowhere]
        /\ view' = [view EXCEPT ![n] = IF ops[s].kind = "delete" THEN "closed" ELSE @]
    BY DEF DeleteEntry
  <1> HIDE DEF n
  <1>6. RegistryTypeOK'
    BY <1>1, <1>2, <1>3, <1>4, <1>5 DEF RegistryTypeOK, Registry
  <1>7. \A t \in Slots : t # s => SlotOK(t)'
    <2> SUFFICES ASSUME NEW t \in Slots, t # s PROVE SlotOK(t)'
      OBVIOUS
    <2>1. ops[t] # Idle /\ ops[t].kind \in {"import", "rollback"} => ops[t].notebook # n
      BY <1>3, Apart
    <2>2. ops[t] # Idle /\ ops[t].kind \notin {"reorder", "clear"} => ops[t].notebook \in Notebooks
      BY SlotMeans DEF Means
    <2>3. \A m \in Notebooks : m \in kept' \ overwritten' =>
             (m \in kept /\ manifest'[m] = manifest[m]) \/ manifest'[m] \in Dirs
      BY <1>3, <1>4, <1>5
    <2>4. \A m \in Notebooks : view'[m] = view[m] \/ (view[m] # "hidden" /\ view'[m] \in {"open", "closed"})
      BY <1>1, <1>3, <1>5 DEF Means, RegistryTypeOK
    <2>5. ops[t] # Idle /\ ops[t].kind \in {"import", "rollback"} =>
             ops[t].notebook \in overwritten' \/ manifest'[ops[t].notebook] = manifest[ops[t].notebook]
      BY <1>4, <2>1, <2>2
    <2> QED
      BY <1>2, <1>4, <1>5, <2>2, <2>3, <2>4, <2>5, RegistrySlot
  <1>8. SlotOK(s)'
    BY <1>2, IdleSlot
  <1>9. Exclusive'
    BY <1>1, <1>2, ExclusiveStays
  <1>10. FreshIsNew' /\ CopyIsKept' /\ EntryFindsFiles'
    <2>1. EntryFindsFiles'
      BY <1>1, <1>4, <1>5 DEF EntryFindsFiles, Complete, RegistryTypeOK
    <2>2. CopyIsKept'
      BY <1>1, <1>5 DEF CopyIsKept, Complete
    <2>3. FreshIsNew'
      BY <1>1, <1>3, <1>5 DEF FreshIsNew, RegistryTypeOK
    <2> QED
      BY <2>1, <2>2, <2>3
  <1> QED
    BY <1>6, <1>7, <1>8, <1>9, <1>10 DEF Inv

\* Writing the reordered registry.
LEMMA ReorderWritesKeeps ==
    ASSUME Inv, NEW s \in Slots, ReorderWrites(s)
    PROVE  Inv'
  <1>1. RegistryTypeOK /\ (\A t \in Slots : SlotOK(t)) /\ Exclusive /\ FreshIsNew
        /\ CopyIsKept /\ EntryFindsFiles
    BY DEF Inv
  <1>2. /\ ops' \in [Slots -> Operation \cup {Idle}]
        /\ ops'[s] = Idle /\ \A t \in Slots : t # s => ops'[t] = ops[t]
    BY <1>1, FinishStep DEF ReorderWrites
  <1>3. ops[s].seen \in Registry
    BY <1>1, OpType DEF ReorderWrites, At
  <1>4. /\ manifest' \in Registry
        /\ overwritten' \in SUBSET Notebooks /\ overwritten \subseteq overwritten'
        /\ \A m \in Notebooks : m \notin overwritten' => manifest'[m] = manifest[m]
    BY <1>1, <1>3 DEF ReorderWrites, WriteRegistry, RegistryTypeOK
  <1>5. files' = files /\ locations' = locations /\ view' = view /\ kept' = kept
    BY DEF ReorderWrites
  <1>6. RegistryTypeOK'
    BY <1>1, <1>2, <1>3, <1>4, <1>5 DEF RegistryTypeOK
  <1>7. \A t \in Slots : t # s => SlotOK(t)'
    BY <1>2, <1>4, <1>5, SlotMeans, RegistrySlot DEF Means
  <1>8. SlotOK(s)'
    BY <1>2, IdleSlot
  <1>9. Exclusive'
    BY <1>1, <1>2, ExclusiveStays
  <1>10. FreshIsNew' /\ CopyIsKept' /\ EntryFindsFiles'
    BY <1>1, <1>4, <1>5 DEF FreshIsNew, CopyIsKept, EntryFindsFiles, Complete, RegistryTypeOK
  <1> QED
    BY <1>6, <1>7, <1>8, <1>9, <1>10 DEF Inv

-----------------------------------------------------------------------------
\* Steps that leave the files and the registry alone.

\* Reading the registry to update it.
LEMMA ReadsRegistryKeeps ==
    ASSUME Inv, NEW s \in Slots, ReadsRegistry(s)
    PROVE  Inv'
  <1>1. RegistryTypeOK /\ (\A t \in Slots : SlotOK(t)) /\ Exclusive /\ FreshIsNew
        /\ CopyIsKept /\ EntryFindsFiles
    BY DEF Inv
  <1>2. /\ ops' \in [Slots -> Operation \cup {Idle}]
        /\ ops[s] # Idle /\ ops'[s] # Idle
        /\ ops'[s].kind = ops[s].kind /\ ops'[s].notebook = ops[s].notebook
        /\ ops'[s].at = ops[s].at /\ ops'[s].pc = "write"
        /\ \A t \in Slots : t # s => ops'[t] = ops[t]
    <2> DEFINE op == [ops[s] EXCEPT !.pc = "write", !.seen = manifest]
    <2>1. ops[s] # Idle /\ ops[s] \in Operation /\ manifest \in Registry
      BY <1>1, OpType DEF ReadsRegistry, At, RegistryTypeOK
    <2>2. op \in Operation
      BY <2>1 DEF Operation, Steps
    <2>3. op # Idle
      BY <2>2, OperationIsNotIdle
    <2>4. op.kind = ops[s].kind /\ op.notebook = ops[s].notebook /\ op.at = ops[s].at /\ op.pc = "write"
      BY <2>1 DEF Operation
    <2>5. ops' = [ops EXCEPT ![s] = op]
      BY <1>1, <2>1 DEF ReadsRegistry, RegistryTypeOK, Operation
    <2> HIDE DEF op
    <2> QED
      BY <1>1, <2>1, <2>2, <2>3, <2>4, <2>5 DEF RegistryTypeOK
  <1>3. ops[s].pc = "read" /\ Means(s) /\ SlotOK(s)
    BY <1>1, <1>2, SlotMeans DEF ReadsRegistry, At
  <1>5. files' = files /\ view' = view /\ kept' = kept /\ manifest' = manifest
        /\ overwritten' = overwritten /\ locations' = locations
    BY DEF ReadsRegistry
  <1>6. RegistryTypeOK'
    BY <1>1, <1>2, <1>5 DEF RegistryTypeOK
  <1>7. \A t \in Slots : t # s => SlotOK(t)'
    BY <1>2, <1>5, QuietSlot
  <1>8. SlotOK(s)'
    BY <1>2, <1>3, <1>5 DEF SlotOK, TargetKnown, TargetShown, ImportIsNew, CopyCovers, OldFilesUnused,
              LoadIsReadable, InFlight, At
  <1>9. Exclusive'
    BY <1>1, <1>2, ExclusiveStays
  <1>10. FreshIsNew' /\ CopyIsKept' /\ EntryFindsFiles'
    BY <1>1, <1>5 DEF FreshIsNew, CopyIsKept, EntryFindsFiles, Complete
  <1> QED
    BY <1>6, <1>7, <1>8, <1>9, <1>10 DEF Inv

\* Verifying the copy of a notebook.
LEMMA VerifiesKeeps ==
    ASSUME Inv, NEW s \in Slots, Verifies(s)
    PROVE  Inv'
  <1>1. RegistryTypeOK /\ (\A t \in Slots : SlotOK(t)) /\ Exclusive /\ FreshIsNew
        /\ CopyIsKept /\ EntryFindsFiles
    BY DEF Inv
  <1>2. /\ ops' \in [Slots -> Operation \cup {Idle}]
        /\ ops[s] # Idle /\ ops'[s] # Idle
        /\ ops'[s].kind = ops[s].kind /\ ops'[s].notebook = ops[s].notebook
        /\ ops'[s].at = ops[s].at /\ ops'[s].pc = "read"
        /\ \A t \in Slots : t # s => ops'[t] = ops[t]
    BY <1>1, GotoStep DEF Verifies, At, Steps
  <1>3. ops[s].kind = "relocate" /\ Means(s)
    BY <1>2, SlotMeans DEF Verifies, At
  <1>5. files' = files /\ view' = view /\ kept' = kept /\ manifest' = manifest
        /\ overwritten' = overwritten /\ locations' = locations
    BY DEF Verifies
  <1>6. RegistryTypeOK'
    BY <1>1, <1>2, <1>5 DEF RegistryTypeOK
  <1>7. \A t \in Slots : t # s => SlotOK(t)'
    BY <1>2, <1>5, QuietSlot
  <1>8. SlotOK(s)'
    <2>1. files[Opfs][ops[s].notebook] \subseteq files[ops[s].at][ops[s].notebook]
      <3>1. files[Opfs][ops[s].notebook] \subseteq Parts
        BY <1>1, <1>3 DEF Means, RegistryTypeOK, Locations
      <3> QED
        BY <3>1 DEF Verifies, Readable, Parts
    <2> QED
      BY <1>2, <1>3, <1>5, <2>1 DEF Means, SlotOK, TargetKnown, TargetShown, ImportIsNew, CopyCovers, OldFilesUnused,
              LoadIsReadable, InFlight, At
  <1>9. Exclusive'
    BY <1>1, <1>2, ExclusiveStays
  <1>10. FreshIsNew' /\ CopyIsKept' /\ EntryFindsFiles'
    BY <1>1, <1>5 DEF FreshIsNew, CopyIsKept, EntryFindsFiles, Complete
  <1> QED
    BY <1>6, <1>7, <1>8, <1>9, <1>10 DEF Inv

\* An import that fails and is rolled back.
LEMMA ImportFailsKeeps ==
    ASSUME Inv, NEW s \in Slots, ImportFails(s)
    PROVE  Inv'
  <1>1. RegistryTypeOK /\ (\A t \in Slots : SlotOK(t)) /\ Exclusive /\ FreshIsNew
        /\ CopyIsKept /\ EntryFindsFiles
    BY DEF Inv
  <1>2. /\ ops' \in [Slots -> Operation \cup {Idle}]
        /\ ops[s] # Idle /\ ops'[s] # Idle
        /\ ops[s].kind = "import" /\ ops'[s].kind = "rollback"
        /\ ops'[s].notebook = ops[s].notebook
        /\ ops'[s].at = ops[s].at /\ ops'[s].pc = "files"
        /\ \A t \in Slots : t # s => ops'[t] = ops[t]
    <2> DEFINE op == [ops[s] EXCEPT !.kind = "rollback", !.pc = "files", !.seen = NoEntries]
    <2>1. ops[s] # Idle /\ ops[s] \in Operation /\ ops[s].kind = "import"
      BY <1>1, OpType DEF ImportFails
    <2>2. op \in Operation
      BY <2>1 DEF Operation, Steps, Kinds, NoEntries, Registry
    <2>3. op # Idle
      BY <2>2, OperationIsNotIdle
    <2>4. op.kind = "rollback" /\ op.notebook = ops[s].notebook /\ op.at = ops[s].at /\ op.pc = "files"
      BY <2>1 DEF Operation
    <2>5. ops' = [ops EXCEPT ![s] = op]
      BY <1>1, <2>1 DEF ImportFails, RegistryTypeOK, Operation
    <2> HIDE DEF op
    <2> QED
      BY <1>1, <2>1, <2>2, <2>3, <2>4, <2>5 DEF RegistryTypeOK
  <1>3. Means(s)
    BY <1>2, SlotMeans
  <1>5. files' = files /\ view' = view /\ kept' = kept /\ manifest' = manifest
        /\ overwritten' = overwritten /\ locations' = locations
    BY DEF ImportFails
  <1>6. RegistryTypeOK'
    BY <1>1, <1>2, <1>5 DEF RegistryTypeOK
  <1>7. \A t \in Slots : t # s => SlotOK(t)'
    BY <1>2, <1>5, QuietSlot
  <1>8. SlotOK(s)'
    BY <1>2, <1>3, <1>5 DEF Means, SlotOK, TargetKnown, TargetShown, ImportIsNew, CopyCovers, OldFilesUnused,
              LoadIsReadable, InFlight, At
  <1>9. Exclusive'
    BY <1>1, <1>2, ExclusiveStays
  <1>10. FreshIsNew' /\ CopyIsKept' /\ EntryFindsFiles'
    BY <1>1, <1>5 DEF FreshIsNew, CopyIsKept, EntryFindsFiles, Complete
  <1> QED
    BY <1>6, <1>7, <1>8, <1>9, <1>10 DEF Inv

\* An operation that fails.
LEMMA FailsKeeps ==
    ASSUME Inv, NEW s \in Slots, Fails(s)
    PROVE  Inv'
  <1>1. RegistryTypeOK /\ (\A t \in Slots : SlotOK(t)) /\ Exclusive /\ FreshIsNew
        /\ CopyIsKept /\ EntryFindsFiles
    BY DEF Inv
  <1>2. /\ ops' \in [Slots -> Operation \cup {Idle}]
        /\ ops'[s] = Idle /\ \A t \in Slots : t # s => ops'[t] = ops[t]
    BY <1>1, FinishStep DEF Fails
  <1>3. ops[s] # Idle /\ Means(s) /\ ops[s].kind # "import"
    BY SlotMeans DEF Fails
  <1>5. files' = files /\ kept' = kept /\ manifest' = manifest
        /\ overwritten' = overwritten /\ locations' = locations
        /\ view' = IF ops[s].kind = "delete" THEN [view EXCEPT ![ops[s].notebook] = "closed"] ELSE view
    BY DEF Fails
  <1>6. RegistryTypeOK'
    BY <1>1, <1>2, <1>3, <1>5 DEF RegistryTypeOK, Means
  <1>4. \A m \in Notebooks :
            view'[m] = view[m] \/ (view[m] \notin {"hidden", "fresh"} /\ view'[m] \in {"open", "closed"})
    BY <1>1, <1>3, <1>5 DEF Means, RegistryTypeOK
  <1>7. \A t \in Slots : t # s => SlotOK(t)'
    <2> SUFFICES ASSUME NEW t \in Slots, t # s PROVE SlotOK(t)'
      OBVIOUS
    <2>1. ops[t] # Idle /\ ops[t].kind \notin {"reorder", "clear"} => ops[t].notebook \in Notebooks
      BY SlotMeans DEF Means
    <2> QED
      BY <1>2, <1>4, <1>5, <2>1, RegistrySlot
  <1>8. SlotOK(s)'
    BY <1>2, IdleSlot
  <1>9. Exclusive'
    BY <1>1, <1>2, ExclusiveStays
  <1>10. FreshIsNew' /\ CopyIsKept' /\ EntryFindsFiles'
    BY <1>1, <1>4, <1>5, <1>6 DEF FreshIsNew, CopyIsKept, EntryFindsFiles, Complete, RegistryTypeOK
  <1> QED
    BY <1>6, <1>7, <1>8, <1>9, <1>10 DEF Inv

-----------------------------------------------------------------------------
\* Operations that begin.

\* A new operation stays apart from those in flight.
LEMMA BeginsApart ==
    ASSUME Inv, NEW s \in Slots, ops[s] = Idle,
           \A t \in Slots : t # s => ops'[t] = ops[t],
           ops'[s].kind = "import" => view[ops'[s].notebook] = "fresh",
           ops'[s].kind # "rollback",
           ops'[s].kind \in {"save", "relocate"} => ~Relocating,
           ops'[s].kind = "relocate" => \A m \in Notebooks : ~Running("save", m)
    PROVE  Exclusive'
  <1>1. Exclusive /\ \A t \in Slots : ops[t] # Idle => Means(t)
    BY SlotMeans DEF Inv
  <1>2. ASSUME NEW t \in Slots, t # s, ops[t] # Idle
        PROVE  /\ ops'[s].kind = "import" /\ ops[t].kind \in {"import", "rollback"}
                     => ops'[s].notebook # ops[t].notebook
               /\ ops'[s].kind \in {"save", "relocate"} => ops[t].kind # "relocate"
               /\ ops'[s].kind = "relocate" => ops[t].kind # "save"
    BY <1>1, <1>2 DEF Means, Relocating, Running
  <1>3. ASSUME NEW t \in Slots, NEW u \in Slots, t # u
        PROVE  /\ InFlight(t, {"import", "rollback"})' /\ InFlight(u, {"import", "rollback"})'
                     => ops'[t].notebook # ops'[u].notebook
               /\ InFlight(t, {"relocate"})' => ~InFlight(u, {"save", "relocate"})'
    <2>1. CASE t = s
      BY <1>2, <1>3, <2>1 DEF InFlight
    <2>2. CASE u = s
      BY <1>2, <1>3, <2>2 DEF InFlight
    <2>3. CASE t # s /\ u # s
      BY <1>1, <1>3, <2>3 DEF InFlight, Exclusive
    <2> QED
      BY <2>1, <2>2, <2>3
  <1> QED
    BY <1>3 DEF Exclusive

\* The writer saves a notebook.
LEMMA SaveBeginsKeeps ==
    ASSUME Inv, NEW s \in Slots, NEW n \in Notebooks, SaveBegins(s, n)
    PROVE  Inv'
  <1>1. RegistryTypeOK /\ (\A t \in Slots : SlotOK(t)) /\ Exclusive /\ FreshIsNew
        /\ CopyIsKept /\ EntryFindsFiles
    BY DEF Inv
  <1>2. /\ ops' \in [Slots -> Operation \cup {Idle}]
        /\ ops[s] = Idle /\ ops'[s] # Idle
        /\ ops'[s].kind = "save" /\ ops'[s].notebook = n
        /\ ops'[s].at = LocationOf(n) /\ ops'[s].pc = "metadata"
        /\ \A t \in Slots : t # s => ops'[t] = ops[t]
    <2>1. LocationOf(n) \in Locations
      BY <1>1 DEF LocationOf, RegistryTypeOK, Registry, Locations
    <2> QED
      BY <1>1, <2>1, BeginStep DEF SaveBegins, Kinds, Steps
  <1>3. view[n] = "open" /\ ~Relocating
    BY DEF SaveBegins
  <1>5. files' = files /\ manifest' = manifest /\ overwritten' = overwritten /\ view' = view /\ kept' = kept /\ locations' = locations
    BY DEF SaveBegins
  <1>6. RegistryTypeOK'
    BY <1>1, <1>2, <1>5 DEF RegistryTypeOK
  <1>7. \A t \in Slots : t # s => SlotOK(t)'
    BY <1>1, <1>2, <1>5, QuietSlot
  <1>8. SlotOK(s)'
    BY <1>2, <1>3, <1>5 DEF SlotOK, TargetKnown, TargetShown, ImportIsNew, CopyCovers, OldFilesUnused,
              LoadIsReadable, InFlight, At
  <1>9. Exclusive'
    BY <1>2, <1>3, BeginsApart
  <1>10. FreshIsNew' /\ CopyIsKept' /\ EntryFindsFiles'
    BY <1>1, <1>5 DEF FreshIsNew, CopyIsKept, EntryFindsFiles, Complete, RegistryTypeOK
  <1> QED
    BY <1>6, <1>7, <1>8, <1>9, <1>10 DEF Inv

\* A relocation begins.
LEMMA RelocateBeginsKeeps ==
    ASSUME Inv, NEW s \in Slots, NEW n \in Notebooks, NEW d \in Dirs, RelocateBegins(s, n, d)
    PROVE  Inv'
  <1>1. RegistryTypeOK /\ (\A t \in Slots : SlotOK(t)) /\ Exclusive /\ FreshIsNew
        /\ CopyIsKept /\ EntryFindsFiles
    BY DEF Inv
  <1>2. /\ ops' \in [Slots -> Operation \cup {Idle}]
        /\ ops[s] = Idle /\ ops'[s] # Idle
        /\ ops'[s].kind = "relocate" /\ ops'[s].notebook = n
        /\ ops'[s].at = d /\ ops'[s].pc = "metadata"
        /\ \A t \in Slots : t # s => ops'[t] = ops[t]
    BY <1>1, BeginStep DEF RelocateBegins, Kinds, Steps, Locations
  <1>3. view[n] = "open" /\ ~Relocating /\ \A m \in Notebooks : ~Running("save", m)
    BY DEF RelocateBegins
  <1>5. files' = files /\ manifest' = manifest /\ overwritten' = overwritten /\ view' = view /\ kept' = kept /\ locations' = locations
    BY DEF RelocateBegins
  <1>6. RegistryTypeOK'
    BY <1>1, <1>2, <1>5 DEF RegistryTypeOK
  <1>7. \A t \in Slots : t # s => SlotOK(t)'
    BY <1>1, <1>2, <1>5, QuietSlot
  <1>8. SlotOK(s)'
    BY <1>2, <1>3, <1>5 DEF SlotOK, TargetKnown, TargetShown, ImportIsNew, CopyCovers, OldFilesUnused,
              LoadIsReadable, InFlight, At
  <1>9. Exclusive'
    BY <1>2, <1>3, BeginsApart
  <1>10. FreshIsNew' /\ CopyIsKept' /\ EntryFindsFiles'
    BY <1>1, <1>5 DEF FreshIsNew, CopyIsKept, EntryFindsFiles, Complete, RegistryTypeOK
  <1> QED
    BY <1>6, <1>7, <1>8, <1>9, <1>10 DEF Inv

\* A folder is added.
LEMMA LoadBeginsKeeps ==
    ASSUME Inv, NEW s \in Slots, NEW n \in Notebooks, NEW d \in Dirs, LoadBegins(s, n, d)
    PROVE  Inv'
  <1>1. RegistryTypeOK /\ (\A t \in Slots : SlotOK(t)) /\ Exclusive /\ FreshIsNew
        /\ CopyIsKept /\ EntryFindsFiles
    BY DEF Inv
  <1>2. /\ ops' \in [Slots -> Operation \cup {Idle}]
        /\ ops[s] = Idle /\ ops'[s] # Idle
        /\ ops'[s].kind = "load" /\ ops'[s].notebook = n
        /\ ops'[s].at = d /\ ops'[s].pc = "read"
        /\ \A t \in Slots : t # s => ops'[t] = ops[t]
    BY <1>1, BeginStep DEF LoadBegins, Kinds, Steps, Locations
  <1>3. "metadata" \in files[d][n] /\ view[n] # "fresh"
    BY <1>1 DEF LoadBegins, Readable, FreshIsNew, Locations
  <1>5. files' = files /\ manifest' = manifest /\ overwritten' = overwritten /\ view' = view /\ kept' = kept /\ locations' = locations
    BY DEF LoadBegins
  <1>6. RegistryTypeOK'
    BY <1>1, <1>2, <1>5 DEF RegistryTypeOK
  <1>7. \A t \in Slots : t # s => SlotOK(t)'
    BY <1>1, <1>2, <1>5, QuietSlot
  <1>8. SlotOK(s)'
    BY <1>2, <1>3, <1>5 DEF SlotOK, TargetKnown, TargetShown, ImportIsNew, CopyCovers, OldFilesUnused,
              LoadIsReadable, InFlight, At
  <1>9. Exclusive'
    BY <1>2, BeginsApart
  <1>10. FreshIsNew' /\ CopyIsKept' /\ EntryFindsFiles'
    BY <1>1, <1>5 DEF FreshIsNew, CopyIsKept, EntryFindsFiles, Complete, RegistryTypeOK
  <1> QED
    BY <1>6, <1>7, <1>8, <1>9, <1>10 DEF Inv

\* The notebooks are reordered.
LEMMA ReorderBeginsKeeps ==
    ASSUME Inv, NEW s \in Slots, ReorderBegins(s)
    PROVE  Inv'
  <1>1. RegistryTypeOK /\ (\A t \in Slots : SlotOK(t)) /\ Exclusive /\ FreshIsNew
        /\ CopyIsKept /\ EntryFindsFiles
    BY DEF Inv
  <1>2. /\ ops' \in [Slots -> Operation \cup {Idle}]
        /\ ops[s] = Idle /\ ops'[s] # Idle
        /\ ops'[s].kind = "reorder" /\ ops'[s].notebook = Nobody
        /\ ops'[s].at = Opfs /\ ops'[s].pc = "read"
        /\ \A t \in Slots : t # s => ops'[t] = ops[t]
    BY <1>1, BeginStep DEF ReorderBegins, Kinds, Steps, Locations
  <1>5. files' = files /\ manifest' = manifest /\ overwritten' = overwritten /\ view' = view /\ kept' = kept /\ locations' = locations
    BY DEF ReorderBegins
  <1>6. RegistryTypeOK'
    BY <1>1, <1>2, <1>5 DEF RegistryTypeOK
  <1>7. \A t \in Slots : t # s => SlotOK(t)'
    BY <1>1, <1>2, <1>5, QuietSlot
  <1>8. SlotOK(s)'
    BY <1>2, <1>5 DEF SlotOK, TargetKnown, TargetShown, ImportIsNew, CopyCovers, OldFilesUnused,
              LoadIsReadable, InFlight, At
  <1>9. Exclusive'
    BY <1>2, BeginsApart
  <1>10. FreshIsNew' /\ CopyIsKept' /\ EntryFindsFiles'
    BY <1>1, <1>5 DEF FreshIsNew, CopyIsKept, EntryFindsFiles, Complete, RegistryTypeOK
  <1> QED
    BY <1>6, <1>7, <1>8, <1>9, <1>10 DEF Inv

\* The user clears the storage.
LEMMA ClearBeginsKeeps ==
    ASSUME Inv, NEW s \in Slots, ClearBegins(s)
    PROVE  Inv'
  <1>1. RegistryTypeOK /\ (\A t \in Slots : SlotOK(t)) /\ Exclusive /\ FreshIsNew
        /\ CopyIsKept /\ EntryFindsFiles
    BY DEF Inv
  <1>2. /\ ops' \in [Slots -> Operation \cup {Idle}]
        /\ ops[s] = Idle /\ ops'[s] # Idle
        /\ ops'[s].kind = "clear" /\ ops'[s].notebook = Nobody
        /\ ops'[s].at = Opfs /\ ops'[s].pc = "manifest"
        /\ \A t \in Slots : t # s => ops'[t] = ops[t]
    BY <1>1, BeginStep DEF ClearBegins, Kinds, Steps, Locations
  <1>5. files' = files /\ manifest' = manifest /\ overwritten' = overwritten /\ view' = view /\ kept' = {} /\ locations' = NoEntries
    BY DEF ClearBegins
  <1>6. RegistryTypeOK'
    BY <1>1, <1>2, <1>5 DEF RegistryTypeOK, NoEntries, Registry
  <1>7. \A t \in Slots : t # s => SlotOK(t)'
    BY <1>1, <1>2, <1>5, QuietSlot
  <1>8. SlotOK(s)'
    BY <1>2, <1>5 DEF SlotOK, TargetKnown, TargetShown, ImportIsNew, CopyCovers, OldFilesUnused,
              LoadIsReadable, InFlight, At
  <1>9. Exclusive'
    BY <1>2, BeginsApart
  <1>10. FreshIsNew' /\ CopyIsKept' /\ EntryFindsFiles'
    BY <1>1, <1>5 DEF FreshIsNew, CopyIsKept, EntryFindsFiles, Complete, RegistryTypeOK
  <1> QED
    BY <1>6, <1>7, <1>8, <1>9, <1>10 DEF Inv

\* A deletion begins.
LEMMA DeleteBeginsKeeps ==
    ASSUME Inv, NEW s \in Slots, NEW n \in Notebooks, DeleteBegins(s, n)
    PROVE  Inv'
  <1>1. RegistryTypeOK /\ (\A t \in Slots : SlotOK(t)) /\ Exclusive /\ FreshIsNew
        /\ CopyIsKept /\ EntryFindsFiles
    BY DEF Inv
  <1>2. /\ ops' \in [Slots -> Operation \cup {Idle}]
        /\ ops[s] = Idle /\ ops'[s] # Idle
        /\ ops'[s].kind = "delete" /\ ops'[s].notebook = n
        /\ ops'[s].at = LocationOf(n) /\ ops'[s].pc = IF LocationOf(n) = Opfs THEN "files" ELSE "read"
        /\ \A t \in Slots : t # s => ops'[t] = ops[t]
    <2>1. LocationOf(n) \in Locations
      BY <1>1 DEF LocationOf, RegistryTypeOK, Registry, Locations
    <2>2. (IF LocationOf(n) = Opfs THEN "files" ELSE "read") \in Steps
      BY DEF Steps
    <2> QED
      BY <1>1, <2>1, <2>2, BeginStep DEF DeleteBegins, Kinds
  <1>3. view[n] \in {"open", "closed"}
    BY DEF DeleteBegins
  <1>5. files' = files /\ manifest' = manifest /\ overwritten' = overwritten /\ view' = view /\ kept' = kept \ {n} /\ locations' = locations
    BY DEF DeleteBegins
  <1>6. RegistryTypeOK'
    BY <1>1, <1>2, <1>5 DEF RegistryTypeOK
  <1>7. \A t \in Slots : t # s => SlotOK(t)'
    BY <1>1, <1>2, <1>5, QuietSlot
  <1>8. SlotOK(s)'
    BY <1>2, <1>3, <1>5 DEF SlotOK, TargetKnown, TargetShown, ImportIsNew, CopyCovers, OldFilesUnused,
              LoadIsReadable, InFlight, At
  <1>9. Exclusive'
    BY <1>2, BeginsApart
  <1>10. FreshIsNew' /\ CopyIsKept' /\ EntryFindsFiles'
    BY <1>1, <1>5 DEF FreshIsNew, CopyIsKept, EntryFindsFiles, Complete, RegistryTypeOK
  <1> QED
    BY <1>6, <1>7, <1>8, <1>9, <1>10 DEF Inv

\* An import begins.
LEMMA ImportBeginsKeeps ==
    ASSUME Inv, NEW s \in Slots, NEW n \in Notebooks, ImportBegins(s, n)
    PROVE  Inv'
  <1>1. RegistryTypeOK /\ (\A t \in Slots : SlotOK(t)) /\ Exclusive /\ FreshIsNew
        /\ CopyIsKept /\ EntryFindsFiles
    BY DEF Inv
  <1>2. /\ ops' \in [Slots -> Operation \cup {Idle}]
        /\ ops[s] = Idle /\ ops'[s] # Idle
        /\ ops'[s].kind = "import" /\ ops'[s].notebook = n
        /\ ops'[s].at = Opfs /\ ops'[s].pc = "metadata"
        /\ \A t \in Slots : t # s => ops'[t] = ops[t]
    BY <1>1, BeginStep DEF ImportBegins, Kinds, Steps, Locations
  <1>3. view[n] = "fresh" /\ n \notin kept /\ \A l \in Locations : files[l][n] = {}
    BY <1>1 DEF ImportBegins, FreshIsNew
  <1>5. files' = files /\ manifest' = manifest /\ overwritten' = overwritten /\ kept' = kept /\ locations' = locations
        /\ view' = [view EXCEPT ![n] = "hidden"]
    BY DEF ImportBegins
  <1>6. RegistryTypeOK'
    BY <1>1, <1>2, <1>5 DEF RegistryTypeOK
  <1>4. ASSUME NEW t \in Slots, ops[t] # Idle, ops[t].kind \notin {"reorder", "clear"}
        PROVE  view'[ops[t].notebook] = view[ops[t].notebook]
    <2>1. Means(t)
      BY <1>4, SlotMeans
    <2>2. ops[t].notebook \in Notebooks
      BY <1>4, <2>1 DEF Means
    <2>3. view[ops[t].notebook] # "fresh"
      BY <1>4, <2>1 DEF Means, Kinds
    <2> QED
      BY <1>1, <1>3, <1>5, <2>2, <2>3 DEF RegistryTypeOK
  <1>7. ASSUME NEW t \in Slots, t # s PROVE SlotOK(t)'
    <2>1. CASE ops[t] # Idle /\ ops[t].kind \in {"reorder", "clear"}
      BY <1>2, <1>7, <2>1 DEF SlotOK, TargetKnown, TargetShown, ImportIsNew, CopyCovers, OldFilesUnused,
              LoadIsReadable, InFlight, At
    <2>2. CASE ops[t] = Idle \/ ops[t].kind \notin {"reorder", "clear"}
      BY <1>2, <1>4, <1>5, <1>7, <2>2, QuietSlot
    <2> QED
      BY <2>1, <2>2
  <1>8. SlotOK(s)'
    <2>1. view'[n] = "hidden"
      BY <1>1, <1>5 DEF RegistryTypeOK
    <2> QED
      BY <1>2, <1>3, <1>5, <2>1 DEF Locations, SlotOK, TargetKnown, TargetShown, ImportIsNew, CopyCovers, OldFilesUnused,
              LoadIsReadable, InFlight, At
  <1>9. Exclusive'
    BY <1>2, <1>3, BeginsApart
  <1>10. FreshIsNew' /\ CopyIsKept' /\ EntryFindsFiles'
    BY <1>1, <1>5 DEF FreshIsNew, CopyIsKept, EntryFindsFiles, Complete, RegistryTypeOK
  <1> QED
    BY <1>6, <1>7, <1>8, <1>9, <1>10 DEF Inv

\* Clearing empties the manifest, or fails to.
LEMMA ClearsManifestKeeps ==
    ASSUME Inv, NEW s \in Slots, ClearsManifest(s)
    PROVE  Inv'
  <1>1. RegistryTypeOK /\ (\A t \in Slots : SlotOK(t)) /\ Exclusive /\ FreshIsNew
    BY DEF Inv
  <1>2. /\ ops' \in [Slots -> Operation \cup {Idle}]
        /\ ops[s] # Idle /\ ops[s].kind = "clear"
        /\ ops'[s] # Idle /\ ops'[s].kind = "clear" /\ ops'[s].pc = "folder"
        /\ ops'[s].notebook = ops[s].notebook
        /\ \A t \in Slots : t # s => ops'[t] = ops[t]
    BY <1>1, GotoStep DEF ClearsManifest, At, Steps
  <1>3. /\ files' = files /\ locations' = locations /\ view' = view /\ kept' = {}
        /\ overwritten' = overwritten \cup {n \in Notebooks : manifest[n] # Nowhere}
        /\ manifest' \in {manifest, NoEntries}
    BY DEF ClearsManifest
  <1>4. manifest' \in Registry /\ overwritten' \in SUBSET Notebooks
    BY <1>1, <1>3 DEF RegistryTypeOK, NoEntries, Registry
  <1>5. RegistryTypeOK'
    BY <1>1, <1>2, <1>3, <1>4 DEF RegistryTypeOK
  <1>6. ASSUME NEW t \in Slots, t # s PROVE SlotOK(t)'
    <2>1. SlotOK(t) /\ ops'[t] = ops[t]
      BY <1>1, <1>2, <1>6
    <2>2. TargetKnown(t)' /\ TargetShown(t)' /\ LoadIsReadable(t)' /\ CopyCovers(t)' /\ OldFilesUnused(t)'
      BY <1>3, <2>1 DEF SlotOK, TargetKnown, TargetShown, LoadIsReadable, CopyCovers, OldFilesUnused,
                        InFlight, At
    <2>3. At(t, {"import"}, "scripts")' => (ops[t].notebook \in overwritten \/ manifest[ops[t].notebook] = Opfs)
      BY <2>1 DEF SlotOK, ImportIsNew, At
    <2>4. At(t, {"import"}, "scripts")' => ops[t].notebook \in Notebooks
      BY <2>1 DEF SlotOK, TargetKnown, At, InFlight, Kinds
    <2>5. Opfs # Nowhere
      BY LocationsDiffer
    <2>6. At(t, {"import"}, "scripts")' => ops[t].notebook \in overwritten'
      BY <1>3, <2>3, <2>4, <2>5
    <2>7. ImportIsNew(t)'
      BY <1>3, <2>1, <2>6 DEF SlotOK, ImportIsNew, InFlight
    <2> QED
      BY <2>2, <2>7 DEF SlotOK
  <1>7. SlotOK(s)'
    BY <1>2 DEF SlotOK, TargetKnown, TargetShown, ImportIsNew, CopyCovers, OldFilesUnused,
                LoadIsReadable, InFlight, At
  <1>8. Exclusive'
    BY <1>1, <1>2 DEF Exclusive, InFlight
  <1>9. FreshIsNew' /\ CopyIsKept' /\ EntryFindsFiles'
    BY <1>1, <1>3 DEF FreshIsNew, CopyIsKept, EntryFindsFiles
  <1> QED
    BY <1>5, <1>6, <1>7, <1>8, <1>9 DEF Inv

\* Clearing deletes the folder, or fails to.
LEMMA ClearsFolderKeeps ==
    ASSUME Inv, NEW s \in Slots, ClearsFolder(s)
    PROVE  Inv'
  <1>1. RegistryTypeOK /\ (\A t \in Slots : SlotOK(t)) /\ Exclusive /\ FreshIsNew
    BY DEF Inv
  <1>2. /\ ops' \in [Slots -> Operation \cup {Idle}]
        /\ ops[s] # Idle /\ ops[s].kind = "clear"
        /\ ops'[s] # Idle /\ ops'[s].kind = "clear" /\ ops'[s].pc = "reload"
        /\ ops'[s].notebook = ops[s].notebook
        /\ \A t \in Slots : t # s => ops'[t] = ops[t]
    BY <1>1, GotoStep DEF ClearsFolder, At, Steps
  <1>3. /\ manifest' = manifest /\ locations' = locations /\ view' = view /\ kept' = {}
        /\ overwritten' = overwritten
        /\ files' \in {files, [files EXCEPT ![Opfs] = [n \in Notebooks |-> {}]]}
    BY DEF ClearsFolder
  <1>4. /\ files' \in [Locations -> [Notebooks -> SUBSET Parts]]
        /\ \A d \in Dirs : files'[d] = files[d]
        /\ \A n \in Notebooks : files'[Opfs][n] = files[Opfs][n] \/ files'[Opfs][n] = {}
    BY <1>1, <1>3, LocationsDiffer DEF RegistryTypeOK, Locations
  <1>5. RegistryTypeOK'
    BY <1>1, <1>2, <1>3, <1>4 DEF RegistryTypeOK
  <1>6. ASSUME NEW t \in Slots, t # s PROVE SlotOK(t)'
    <2>1. SlotOK(t) /\ ops'[t] = ops[t]
      BY <1>1, <1>2, <1>6
    <2>2. TargetKnown(t)' /\ TargetShown(t)' /\ OldFilesUnused(t)'
      BY <1>3, <2>1 DEF SlotOK, TargetKnown, TargetShown, OldFilesUnused, InFlight, At
    <2>3. LoadIsReadable(t)'
      BY <1>4, <2>1 DEF SlotOK, TargetKnown, LoadIsReadable, InFlight
    <2>4. ImportIsNew(t)'
      BY <1>3, <1>4, <2>1 DEF SlotOK, ImportIsNew, InFlight, At
    <2>5. CopyCovers(t)'
      <3>1. SUFFICES ASSUME InFlight(t, {"relocate"})', ops[t].pc \in {"read", "write", "drop"}
                     PROVE  files'[Opfs][ops[t].notebook] \subseteq files'[ops[t].at][ops[t].notebook]
        BY <2>1 DEF CopyCovers
      <3>2. ops[t].at \in Dirs /\ ops[t].notebook \in Notebooks
        BY <2>1, <3>1 DEF SlotOK, TargetKnown, InFlight, Kinds
      <3>3. files[Opfs][ops[t].notebook] \subseteq files[ops[t].at][ops[t].notebook]
        BY <2>1, <3>1 DEF SlotOK, CopyCovers, InFlight
      <3> QED
        BY <1>4, <3>2, <3>3
    <2> QED
      BY <2>2, <2>3, <2>4, <2>5 DEF SlotOK
  <1>7. SlotOK(s)'
    BY <1>2 DEF SlotOK, TargetKnown, TargetShown, ImportIsNew, CopyCovers, OldFilesUnused,
                LoadIsReadable, InFlight, At
  <1>8. Exclusive'
    BY <1>1, <1>2 DEF Exclusive, InFlight
  <1>9. FreshIsNew'
    BY <1>1, <1>3, <1>4 DEF FreshIsNew, Locations
  <1>10. CopyIsKept' /\ EntryFindsFiles'
    BY <1>3 DEF CopyIsKept, EntryFindsFiles
  <1> QED
    BY <1>5, <1>6, <1>7, <1>8, <1>9, <1>10 DEF Inv

\* A restart forgets the operations in flight and reads the manifest.
LEMMA RestartKeeps ==
    ASSUME Inv, Restart
    PROVE  Inv'
  <1>1. RegistryTypeOK /\ FreshIsNew /\ CopyIsKept /\ EntryFindsFiles
    BY DEF Inv
  <1>2. /\ ops' = [s \in Slots |-> Idle] /\ locations' = manifest /\ manifest' = manifest
        /\ files' = files /\ kept' = kept /\ overwritten' = overwritten
    BY DEF Restart
  <1>3. /\ view' \in [Notebooks -> {"fresh", "hidden", "open", "closed"}]
        /\ \A n \in Notebooks : view'[n] = "fresh" => view[n] = "fresh"
    BY <1>1 DEF Restart, RegistryTypeOK
  <1>4. RegistryTypeOK'
    BY <1>1, <1>2, <1>3 DEF RegistryTypeOK
  <1>5. \A s \in Slots : SlotOK(s)'
    BY <1>2, IdleSlot
  <1>6. Exclusive'
    BY <1>2 DEF Exclusive, InFlight
  <1>7. FreshIsNew' /\ CopyIsKept' /\ EntryFindsFiles'
    BY <1>1, <1>2, <1>3 DEF FreshIsNew, CopyIsKept, EntryFindsFiles, Complete
  <1> QED
    BY <1>4, <1>5, <1>6, <1>7 DEF Inv

\* The first start satisfies the invariant.
LEMMA InitInv == Init => Inv
  <1> SUFFICES ASSUME Init PROVE Inv
    OBVIOUS
  <1>1. RegistryTypeOK
    BY DEF Init, RegistryTypeOK, NoEntries, Registry
  <1>2. \A s \in Slots : ops[s] = Idle
    BY DEF Init
  <1>3. (\A s \in Slots : SlotOK(s)) /\ Exclusive
    BY <1>2 DEF SlotOK, TargetKnown, TargetShown, ImportIsNew, CopyCovers, OldFilesUnused,
                LoadIsReadable, InFlight, At, Exclusive
  <1>4. FreshIsNew /\ CopyIsKept /\ EntryFindsFiles
    BY DEF Init, FreshIsNew, CopyIsKept, EntryFindsFiles
  <1> QED
    BY <1>1, <1>3, <1>4 DEF Inv

\* Every step of an operation preserves it.
LEMMA StepKeeps ==
    ASSUME Inv, NEW s \in Slots, Step(s)
    PROVE  Inv'
  BY ReadsRegistryKeeps, WritesMetadataKeeps, TruncatesMetadataKeeps, ImportEntryKeeps, ImportScriptsKeeps, ImportFailsKeeps,
     SaveEntryKeeps, DeletesFilesKeeps, DeleteEntryKeeps, ReorderBeginsKeeps, ReorderWritesKeeps,
     CopiesMetadataKeeps, CopiesScriptsKeeps, VerifiesKeeps, FlipsEntryKeeps, DropsOpfsCopyKeeps,
     LoadEntryKeeps, ClearBeginsKeeps, ClearsManifestKeeps, ClearsFolderKeeps, FailsKeeps,
     RemovesPartKeeps DEF Step

\* So does every step of the system.
LEMMA NextKeeps == Inv /\ [Next]_vars => Inv'
  <1> SUFFICES ASSUME Inv, [Next]_vars PROVE Inv'
    OBVIOUS
  <1>1. CASE \E s \in Slots : Step(s)
    BY <1>1, StepKeeps
  <1>2. CASE \E s \in Slots, n \in Notebooks :
                ImportBegins(s, n) \/ SaveBegins(s, n) \/ DeleteBegins(s, n)
    BY <1>2, ImportBeginsKeeps, SaveBeginsKeeps, DeleteBeginsKeeps
  <1>3. CASE \E s \in Slots, n \in Notebooks, d \in Dirs :
                RelocateBegins(s, n, d) \/ LoadBegins(s, n, d)
    BY <1>3, RelocateBeginsKeeps, LoadBeginsKeeps
  <1>4. CASE Restart
    BY <1>4, RestartKeeps
  <1>5. CASE UNCHANGED vars
    <2>1. /\ manifest' = manifest /\ files' = files /\ locations' = locations /\ view' = view
          /\ ops' = ops /\ kept' = kept /\ overwritten' = overwritten
      BY <1>5 DEF vars
    <2>2. \A s \in Slots : SlotOK(s)'
      BY <2>1, QuietSlot
    <2>3. RegistryTypeOK' /\ Exclusive' /\ FreshIsNew' /\ CopyIsKept' /\ EntryFindsFiles'
      BY <2>1 DEF Inv, RegistryTypeOK, Exclusive, InFlight, FreshIsNew, CopyIsKept, EntryFindsFiles, Complete
    <2> QED
      BY <2>2, <2>3 DEF Inv
  <1> QED
    BY <1>1, <1>2, <1>3, <1>4, <1>5 DEF Next

\* The invariant holds in every reachable state.
LEMMA RegistryInvariant == Spec => []Inv
  <1>1. Init => Inv
    BY InitInv
  <1>2. Inv /\ [Next]_vars => Inv'
    BY NextKeeps
  <1> QED
    BY <1>1, <1>2, PTL DEF Spec

-----------------------------------------------------------------------------

\* Type correctness: the manifest and the routes name known locations, every
\* operation in flight is well formed, and only metadata in a folder is truncated.
THEOREM TypeCorrect == Spec => []TypeOK
  <1> DEFINE TornOK == torn \in SUBSET (Dirs \X Notebooks)
  <1>1. Init => TornOK
    BY DEF Init
  <1>2. Inv /\ TornOK /\ [Next]_vars => TornOK'
    <2> SUFFICES ASSUME Inv, TornOK, [Next]_vars PROVE TornOK'
      OBVIOUS
    <2>1. ASSUME NEW s \in Slots, TruncatesMetadata(s) PROVE TornOK'
      <3>1. ops[s].at \in Dirs /\ ops[s].notebook \in Notebooks
        BY <2>1, SlotMeans DEF TruncatesMetadata, At, Means
      <3> QED
        BY <2>1, <3>1 DEF TruncatesMetadata
    <2>2. ASSUME NEW s \in Slots, WritesMetadata(s) \/ CopiesMetadata(s) PROVE TornOK'
      BY <2>2 DEF WritesMetadata, CopiesMetadata
    <2>3. CASE torn' = torn
      BY <2>3
    <2>4. ASSUME NEW s \in Slots, Step(s) PROVE TornOK'
      BY <2>1, <2>2, <2>3, <2>4 DEF Step, ReadsRegistry, ImportEntry, ImportScripts, ImportFails, SaveEntry,
         DeletesFiles, DeleteEntry, ReorderBegins, ReorderWrites, CopiesScripts, Verifies, FlipsEntry,
         DropsOpfsCopy, LoadEntry, ClearBegins, ClearsManifest, ClearsFolder, Fails, RemovesPart
    <2>5. ASSUME NEW s \in Slots, NEW n \in Notebooks,
                 \/ ImportBegins(s, n) \/ SaveBegins(s, n) \/ DeleteBegins(s, n)
                 \/ \E d \in Dirs : RelocateBegins(s, n, d) \/ LoadBegins(s, n, d)
          PROVE  TornOK'
      BY <2>3, <2>5 DEF ImportBegins, SaveBegins, DeleteBegins, RelocateBegins, LoadBegins
    <2> QED
      BY <2>3, <2>4, <2>5 DEF Next, Restart, vars
  <1>3. Inv /\ TornOK => TypeOK
    BY DEF Inv, TypeOK
  <1> QED
    BY <1>1, <1>2, <1>3, RegistryInvariant, PTL DEF Spec

\* A finished notebook the user did not delete is stored completely in some
\* place, through every failure, removal half way, overlap and restart.
THEOREM CopiesSurvive == Spec => []CopyIsKept
  <1>1. Inv => CopyIsKept
    BY DEF Inv
  <1> QED
    BY <1>1, RegistryInvariant, PTL

\* Unless an update based on an older copy of the registry replaced its entry,
\* the entry of such a notebook points at all its files.
THEOREM EntriesFindFiles == Spec => []EntryFindsFiles
  <1>1. Inv => EntryFindsFiles
    BY DEF Inv
  <1> QED
    BY <1>1, RegistryInvariant, PTL
=============================================================================
