-------------------------- MODULE NotebookRegistry --------------------------
(* The registry of notebooks and the files it points at: the root manifest    *)
(* in the browser's private file system (OPFSStorageBackend), the files of    *)
(* every notebook in OPFS or in a folder on disk (NativeStorageBackend), and  *)
(* the in-memory map that routes each notebook to its files                   *)
(* (CompositeStorageBackend).  Every operation is a sequence of awaited file  *)
(* accesses, any of which may fail; operations overlap, and the app may be    *)
(* closed or reloaded between any two steps.  An update of the registry reads *)
(* the whole manifest, edits the copy and writes the whole copy back.         *)
(*                                                                            *)
(* Abstractions: the order of the entries and the settings beside them are    *)
(* not kept, a notebook's files are its metadata and its scripts, and a       *)
(* folder that holds another notebook is never picked as a target.            *)
EXTENDS Naturals

CONSTANTS
    Notebooks,  \* the notebook UUIDs
    Dirs,       \* the folders on disk
    Opfs,       \* the location of a notebook that lives in OPFS
    Nobody,     \* stands for no notebook
    Nowhere,    \* stands for no location
    Slots       \* bound: the operations that may be in flight at once

ASSUME LocationsDiffer == Opfs \notin Dirs /\ Nowhere \notin Dirs \cup {Opfs}
ASSUME NobodyIsNoNotebook == Nobody \notin Notebooks

Locations == Dirs \cup {Opfs}

Parts == {"metadata", "scripts"}

VARIABLES
    manifest,   \* the root manifest: where each notebook is registered
    files,      \* location -> notebook -> the parts of it that are stored there
    locations,  \* the routes the composite backend keeps in memory
    view,       \* a notebook in the app: not yet used, not shown, loaded, or only deletable
    ops,        \* the operations in flight
    kept,       \* history: finished notebooks the user has not deleted
    overwritten, \* history: notebooks whose entry an update replaced unseen
    torn        \* the <folder, notebook> whose metadata a write has truncated

vars == <<manifest, files, locations, view, ops, kept, overwritten, torn>>

Registry == [Notebooks -> Locations \cup {Nowhere}]

NoEntries == [n \in Notebooks |-> Nowhere]

Idle == [kind |-> "idle"]

Kinds == {"import", "rollback", "save", "delete", "reorder", "relocate", "load", "clear"}

Steps == {"metadata", "read", "write", "scripts", "files", "verify", "drop",
          "manifest", "folder", "reload"}

Operation == [kind: Kinds, notebook: Notebooks \cup {Nobody}, at: Locations,
              pc: Steps, seen: Registry]

Complete(n, l) == files[l][n] = Parts

\* loadNotebook parses the metadata: one that is cut off throws
Readable(n, l) == l # Nowhere /\ "metadata" \in files[l][n] /\ <<l, n>> \notin torn

LocationOf(n) == IF locations[n] = Nowhere THEN Opfs ELSE locations[n]

Running(kind, n) ==
    \E s \in Slots : ops[s] # Idle /\ ops[s].kind = kind /\ ops[s].notebook = n

Relocating == \E n \in Notebooks : Running("relocate", n)

-----------------------------------------------------------------------------

\* a first start: nothing is stored, and every UUID is still to be drawn
Init ==
    /\ manifest = NoEntries
    /\ files = [l \in Locations |-> [n \in Notebooks |-> {}]]
    /\ locations = NoEntries
    /\ view = [n \in Notebooks |-> "fresh"]
    /\ ops = [s \in Slots |-> Idle]
    /\ kept = {}
    /\ overwritten = {}
    /\ torn = {}

-----------------------------------------------------------------------------
\* Steps that operations share.

Begin(s, kind, n, at, pc) ==
    /\ ops[s] = Idle
    /\ ops' = [ops EXCEPT ![s] = [kind |-> kind, notebook |-> n, at |-> at,
                                  pc |-> pc, seen |-> NoEntries]]

At(s, kinds, pc) == ops[s] # Idle /\ ops[s].kind \in kinds /\ ops[s].pc = pc

Goto(s, pc) == ops' = [ops EXCEPT ![s].pc = pc, ![s].seen = NoEntries]

Finish(s) == ops' = [ops EXCEPT ![s] = Idle]

Stored(n, l, part) == [files EXCEPT ![l][n] = @ \cup {part}]

\* readManifest: the registry as of now, for an update that is written later
ReadsRegistry(s) ==
    /\ At(s, Kinds, "read")
    /\ ops' = [ops EXCEPT ![s].pc = "write", ![s].seen = manifest]
    /\ UNCHANGED <<manifest, files, locations, view, kept, overwritten, torn>>

\* writeManifest: the edited copy replaces the file, whatever it holds by now
WriteRegistry(s, edited, displaced) ==
    /\ manifest' = edited
    /\ overwritten' = overwritten \cup displaced
                        \cup {n \in Notebooks : manifest[n] # ops[s].seen[n]}

\* upsertNotebookEntry: puts an entry without looking at the one in place; only a
\* relocation knows that it replaces an entry in OPFS
PutEntry(s) ==
    LET n == ops[s].notebook
        expected == {Nowhere, ops[s].at} \cup IF ops[s].kind = "relocate" THEN {Opfs} ELSE {}
    IN  WriteRegistry(s, [ops[s].seen EXCEPT ![n] = ops[s].at],
                      {m \in {n} : manifest[m] \notin expected})

\* removeNotebookEntry
RemoveEntry(s) == WriteRegistry(s, [ops[s].seen EXCEPT ![ops[s].notebook] = Nowhere], {})

\* saveNotebookManifest of an import and of the storage writer
WritesMetadata(s) ==
    /\ At(s, {"import", "save"}, "metadata")
    /\ files' = Stored(ops[s].notebook, ops[s].at, "metadata")
    /\ torn' = torn \ {<<ops[s].at, ops[s].notebook>>}
    /\ Goto(s, "read")
    /\ UNCHANGED <<manifest, locations, view, kept, overwritten>>

\* In a folder, the write begins by truncating the file in place; OPFS swaps the
\* new file in when it is closed.  Whatever ends the operation here leaves it so.
TruncatesMetadata(s) ==
    /\ At(s, {"save", "relocate"}, "metadata")
    /\ ops[s].at \in Dirs
    /\ ops[s].kind = "relocate" => Readable(ops[s].notebook, Opfs)
    /\ files' = Stored(ops[s].notebook, ops[s].at, "metadata")
    /\ torn' = torn \cup {<<ops[s].at, ops[s].notebook>>}
    /\ UNCHANGED <<manifest, locations, view, ops, kept, overwritten>>

-----------------------------------------------------------------------------
\* A new notebook: an import, or the first writes of a notebook set up in the app.

ImportBegins(s, n) ==
    /\ view[n] = "fresh"
    /\ Begin(s, "import", n, Opfs, "metadata")
    /\ view' = [view EXCEPT ![n] = "hidden"]
    /\ UNCHANGED <<manifest, files, locations, kept, overwritten, torn>>

ImportEntry(s) ==
    /\ At(s, {"import"}, "write")
    /\ PutEntry(s)
    /\ Goto(s, "scripts")
    /\ UNCHANGED <<files, locations, view, kept, torn>>

ImportScripts(s) ==
    /\ At(s, {"import"}, "scripts")
    /\ LET n == ops[s].notebook IN
           /\ files' = Stored(n, Opfs, "scripts")
           /\ view' = [view EXCEPT ![n] = "open"]
           /\ kept' = IF files'[Opfs][n] = Parts THEN kept \cup {n} ELSE kept
    /\ Finish(s)
    /\ UNCHANGED <<manifest, locations, overwritten, torn>>

\* the import throws: the notebook it allocated is deleted again
ImportFails(s) ==
    /\ ops[s] # Idle /\ ops[s].kind = "import"
    /\ ops' = [ops EXCEPT ![s].kind = "rollback", ![s].pc = "files", ![s].seen = NoEntries]
    /\ UNCHANGED <<manifest, files, locations, view, kept, overwritten, torn>>

-----------------------------------------------------------------------------
\* The storage writer saves the metadata of a loaded notebook.

\* one write of a notebook at a time, none while a relocation pauses the writer
SaveBegins(s, n) ==
    /\ view[n] = "open"
    /\ ~Relocating /\ ~Running("save", n)
    /\ Begin(s, "save", n, LocationOf(n), "metadata")
    /\ UNCHANGED <<manifest, files, locations, view, kept, overwritten, torn>>

SaveEntry(s) ==
    /\ At(s, {"save"}, "write")
    /\ PutEntry(s)
    /\ Finish(s)
    /\ UNCHANGED <<files, locations, view, kept, torn>>

-----------------------------------------------------------------------------
\* Deleting a notebook: the user, the writer's repetition, a failed import.

\* a folder on disk is left alone: only the entry goes
DeleteBegins(s, n) ==
    /\ view[n] \in {"open", "closed"}
    /\ Begin(s, "delete", n, LocationOf(n), IF LocationOf(n) = Opfs THEN "files" ELSE "read")
    /\ kept' = kept \ {n}
    /\ UNCHANGED <<manifest, files, locations, view, overwritten, torn>>

DeletesFiles(s) ==
    /\ At(s, {"delete", "rollback"}, "files")
    /\ files' = [files EXCEPT ![Opfs][ops[s].notebook] = {}]
    /\ Goto(s, "read")
    /\ UNCHANGED <<manifest, locations, view, kept, overwritten, torn>>

DeleteEntry(s) ==
    /\ At(s, {"delete", "rollback"}, "write")
    /\ RemoveEntry(s)
    /\ LET n == ops[s].notebook IN
           /\ locations' = [locations EXCEPT ![n] = Nowhere]
           /\ view' = [view EXCEPT ![n] = IF ops[s].kind = "delete" THEN "closed" ELSE @]
           /\ kept' = kept \ {n}
    /\ Finish(s)
    /\ UNCHANGED <<files, torn>>

-----------------------------------------------------------------------------
\* reorderNotebooks and saveAppSettings rewrite the manifest; no entry changes.

ReorderBegins(s) ==
    /\ Begin(s, "reorder", Nobody, Opfs, "read")
    /\ UNCHANGED <<manifest, files, locations, view, kept, overwritten, torn>>

ReorderWrites(s) ==
    /\ At(s, {"reorder"}, "write")
    /\ WriteRegistry(s, ops[s].seen, {})
    /\ Finish(s)
    /\ UNCHANGED <<files, locations, view, kept, torn>>

-----------------------------------------------------------------------------
\* Relocating a notebook to a folder: copy, verify, flip the entry, drop the copy.

\* the folder is empty or holds an earlier copy of the same notebook, and the
\* writer has been paused and drained
RelocateBegins(s, n, d) ==
    /\ view[n] = "open"
    /\ LocationOf(n) = Opfs
    /\ \A m \in Notebooks \ {n} : files[d][m] = {}
    /\ ~Relocating /\ \A m \in Notebooks : ~Running("save", m)
    /\ Begin(s, "relocate", n, d, "metadata")
    /\ UNCHANGED <<manifest, files, locations, view, kept, overwritten, torn>>

\* Mutant: only the metadata is copied before the entry is flipped.
CopiesMetadataOnly(s) ==
    /\ At(s, {"relocate"}, "metadata")
    /\ Readable(ops[s].notebook, Opfs)
    /\ files' = Stored(ops[s].notebook, ops[s].at, "metadata")
    /\ torn' = torn \ {<<ops[s].at, ops[s].notebook>>}
    /\ Goto(s, "read")
    /\ UNCHANGED <<manifest, locations, view, kept, overwritten>>

CopiesMetadata(s) ==
    /\ At(s, {"relocate"}, "metadata")
    /\ Readable(ops[s].notebook, Opfs)
    /\ files' = Stored(ops[s].notebook, ops[s].at, "metadata")
    /\ torn' = torn \ {<<ops[s].at, ops[s].notebook>>}
    /\ Goto(s, "scripts")
    /\ UNCHANGED <<manifest, locations, view, kept, overwritten>>

CopiesScripts(s) ==
    /\ At(s, {"relocate"}, "scripts")
    /\ files' = [files EXCEPT ![ops[s].at][ops[s].notebook] =
                     @ \cup (files[Opfs][ops[s].notebook] \cap {"scripts"})]
    /\ Goto(s, "verify")
    /\ UNCHANGED <<manifest, locations, view, kept, overwritten, torn>>

\* Mutant: the old files are dropped before the entry is flipped.
VerifiesAndDrops(s) ==
    /\ At(s, {"relocate"}, "verify")
    /\ LET op == ops[s] IN
           /\ Readable(op.notebook, op.at)
           /\ ("scripts" \in files[op.at][op.notebook]) = ("scripts" \in files[Opfs][op.notebook])
    /\ Goto(s, "drop")
    /\ UNCHANGED <<manifest, files, locations, view, kept, overwritten, torn>>

\* the copy's metadata parses, and it has as many scripts as the original
Verifies(s) ==
    /\ At(s, {"relocate"}, "verify")
    /\ LET op == ops[s] IN
           /\ Readable(op.notebook, op.at)
           /\ ("scripts" \in files[op.at][op.notebook]) = ("scripts" \in files[Opfs][op.notebook])
    /\ Goto(s, "read")
    /\ UNCHANGED <<manifest, files, locations, view, kept, overwritten, torn>>

FlipsEntry(s) ==
    /\ At(s, {"relocate"}, "write")
    /\ PutEntry(s)
    /\ locations' = [locations EXCEPT ![ops[s].notebook] = ops[s].at]
    /\ Goto(s, "drop")
    /\ UNCHANGED <<files, view, kept, torn>>

\* deletes the old files, then asks for a reload
DropsOpfsCopy(s) ==
    /\ At(s, {"relocate"}, "drop")
    /\ files' = [files EXCEPT ![Opfs][ops[s].notebook] = {}]
    /\ Goto(s, "reload")
    /\ UNCHANGED <<manifest, locations, view, kept, overwritten, torn>>

-----------------------------------------------------------------------------
\* Adding a folder that holds a notebook already.

LoadBegins(s, n, d) ==
    /\ Readable(n, d)
    /\ locations[n] = Nowhere
    /\ Begin(s, "load", n, d, "read")
    /\ UNCHANGED <<manifest, files, locations, view, kept, overwritten, torn>>

\* the routes do not show every registered notebook: saveNotebookManifest does not
\* record the route of a notebook in OPFS
LoadEntry(s) ==
    /\ At(s, {"load"}, "write")
    /\ LET n == ops[s].notebook  d == ops[s].at IN
           /\ PutEntry(s)
           /\ locations' = [locations EXCEPT ![n] = d]
           /\ kept' = IF Complete(n, d) THEN kept \cup {n} ELSE kept
    /\ Goto(s, "reload")
    /\ UNCHANGED <<files, view, torn>>

-----------------------------------------------------------------------------
\* Clearing all storage: the manifest first, then the OPFS folder, then a reload.

ClearBegins(s) ==
    /\ Begin(s, "clear", Nobody, Opfs, "manifest")
    /\ locations' = NoEntries
    /\ kept' = {}
    /\ UNCHANGED <<manifest, files, view, overwritten, torn>>

\* a failure is only a warning: the folder goes in any case
ClearsManifest(s) ==
    /\ At(s, {"clear"}, "manifest")
    /\ manifest' \in {manifest, NoEntries}
    /\ overwritten' = overwritten \cup {n \in Notebooks : manifest[n] # Nowhere}
    /\ kept' = {}
    /\ Goto(s, "folder")
    /\ UNCHANGED <<files, locations, view, torn>>

ClearsFolder(s) ==
    /\ At(s, {"clear"}, "folder")
    /\ files' \in {files, [files EXCEPT ![Opfs] = [n \in Notebooks |-> {}]]}
    /\ kept' = {}
    /\ Goto(s, "reload")
    /\ UNCHANGED <<manifest, locations, view, overwritten, torn>>

-----------------------------------------------------------------------------
\* Failures and restarts.

\* a step throws: the operation ends where it is
Fails(s) ==
    /\ ops[s] # Idle
    /\ ops[s].kind \notin {"import", "clear"} /\ ops[s].pc # "reload"
    /\ Finish(s)
    /\ view' = IF ops[s].kind = "delete" THEN [view EXCEPT ![ops[s].notebook] = "closed"]
               ELSE view
    /\ UNCHANGED <<manifest, files, locations, kept, overwritten, torn>>

\* a recursive removal throws, or the app is closed, with some of the files gone
RemovesPart(s) ==
    /\ At(s, {"delete", "rollback"}, "files") \/ At(s, {"relocate"}, "drop")
    /\ \E part \in Parts :
           files' = [files EXCEPT ![Opfs][ops[s].notebook] = @ \ {part}]
    /\ UNCHANGED <<manifest, locations, view, ops, kept, overwritten, torn>>

\* the app is closed, or reloads: routes and notebooks come from the manifest
Restart ==
    /\ ops' = [s \in Slots |-> Idle]
    /\ locations' = manifest
    /\ view' = [n \in Notebooks |->
                   CASE manifest[n] # Nowhere -> IF Readable(n, manifest[n]) THEN "open" ELSE "closed"
                     [] view[n] = "fresh" -> "fresh"
                     [] OTHER -> "hidden"]
    /\ UNCHANGED <<manifest, files, kept, overwritten, torn>>

-----------------------------------------------------------------------------

Step(s) ==
    \/ ReadsRegistry(s) \/ WritesMetadata(s) \/ TruncatesMetadata(s)
    \/ ImportEntry(s) \/ ImportScripts(s) \/ ImportFails(s)
    \/ SaveEntry(s)
    \/ DeletesFiles(s) \/ DeleteEntry(s)
    \/ ReorderBegins(s) \/ ReorderWrites(s)
    \/ CopiesMetadata(s) \/ CopiesScripts(s) \/ Verifies(s)
    \/ FlipsEntry(s) \/ DropsOpfsCopy(s)
    \/ LoadEntry(s)
    \/ ClearBegins(s) \/ ClearsManifest(s) \/ ClearsFolder(s)
    \/ Fails(s) \/ RemovesPart(s)

Next ==
    \/ \E s \in Slots :
          \/ Step(s)
          \/ \E n \in Notebooks :
                \/ ImportBegins(s, n) \/ SaveBegins(s, n) \/ DeleteBegins(s, n)
                \/ \E d \in Dirs : RelocateBegins(s, n, d) \/ LoadBegins(s, n, d)
    \/ Restart

Spec == Init /\ [][Next]_vars

-----------------------------------------------------------------------------
\* Properties.

\* Type correctness: the registry and the routes name known locations, and an
\* operation in flight is a record of its kind, target, step and snapshot.
RegistryTypeOK ==
    /\ manifest \in Registry
    /\ locations \in Registry
    /\ files \in [Locations -> [Notebooks -> SUBSET Parts]]
    /\ view \in [Notebooks -> {"fresh", "hidden", "open", "closed"}]
    /\ ops \in [Slots -> Operation \cup {Idle}]
    /\ kept \in SUBSET Notebooks
    /\ overwritten \in SUBSET Notebooks

TypeOK ==
    /\ RegistryTypeOK
    /\ torn \in SUBSET (Dirs \X Notebooks)

\* A finished notebook the user has not deleted is stored completely somewhere,
\* whatever fails and whenever the app is closed: a relocation deletes the old
\* files only after the copy is complete, even if updates of the registry
\* overlap (relocateNotebookToNative, deleteNotebookFiles).  A file in a folder
\* that an interrupted save has truncated is there: its text is not spoken of.
CopyIsKept == \A n \in kept : \E l \in Locations : Complete(n, l)

\* Such a notebook is registered, and where its registry entry points all its
\* files are: a restart finds it.  Only an update of the registry that was
\* based on an older copy of it, or the addition of another copy of the notebook,
\* can break this, never a crash or a failure.
EntryFindsFiles ==
    \A n \in kept \ overwritten : manifest[n] # Nowhere /\ Complete(n, manifest[n])

\* Adding a folder never replaces the entry of a registered notebook
\* (loadNativeNotebook: "we never silently overwrite an existing entry").
AddsOnlyUnregistered ==
    [][\A s \in Slots : LoadEntry(s) => manifest[ops[s].notebook] = Nowhere]_vars
=============================================================================
