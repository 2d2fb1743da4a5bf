---------------------------- MODULE NotebookSync ----------------------------
(***************************************************************************)
(* The synchronisation of native notebooks with files that other programs  *)
(* edit (platform/storage/native_notebook_sync_react.tsx), composed with   *)
(* the writer of module StorageWriter: what the user sees, what the writer *)
(* has queued, and what is on disk.                                        *)
(*                                                                         *)
(* Every action is an action of the writer together with its effect on the *)
(* files and on the reload coordinator, or leaves the writer alone.  The   *)
(* relocation of a notebook is not part of this composition.               *)
(***************************************************************************)
EXTENDS StorageWriter, FiniteSetsExt

CONSTANTS
    Contents,      \* what a file may contain
    FirstContent,  \* what every file contains when the app starts
    MaxExternal    \* bound: number of edits made by other programs

ASSUME ContentsAssumption == FirstContent \in Contents
ASSUME ExternalAssumption == MaxExternal \in Nat

VARIABLES
    disk,         \* the contents of the file of every write key
    memory,       \* the same file in the live notebook state
    completed,    \* completedFileContents
    text,         \* the content a write() call carries
    saved,        \* the executions whose content has reached the disk
    events,       \* notebooks with a watcher event that is not yet delivered
    queued,       \* queuedRef
    phase,        \* where the reload loop stands ("idle": processingRef is false)
    current,      \* the notebook that is being reloaded
    unread,       \* the files the snapshot has still to read
    snapshot,     \* the files as read
    promptGen,    \* promptGeneration
    externals,    \* number of external edits so far
    excused       \* history: files whose difference to the disk is accounted for

fileVars == <<disk, memory, completed, text, saved>>
loopVars == <<queued, phase, current, unread, snapshot, promptGen>>
syncVars == <<fileVars, events, loopVars, externals, excused>>
allVars == <<vars, syncVars>>

Unknown == "unknown"
Phases == {"idle", "settling", "reading", "asking", "warning", "confirming",
           "releasing", "looping"}
FilesOf(n) == {k \in Reloadable : NotebookOf[k] = n}

FilesTypeOK ==
    /\ disk \in [Keys -> Contents]
    /\ memory \in [Keys -> Contents]
    /\ completed \in [Keys -> Contents \cup {Unknown}]
    /\ text \in [Gens -> Contents]
    /\ saved \subseteq running
    /\ excused \subseteq Keys

LoopTypeOK ==
    /\ events \subseteq Notebooks
    /\ queued \subseteq Notebooks
    /\ phase \in Phases
    /\ current \in Notebooks
    /\ unread \subseteq Reloadable
    /\ snapshot \in [Keys -> Contents]
    /\ promptGen \in Gens \cup {NoTask}
    /\ externals \in 0 .. MaxExternal

SyncTypeOK == TypeOK /\ FilesTypeOK /\ LoopTypeOK

SyncInit ==
    /\ Init
    /\ disk = [k \in Keys |-> FirstContent]
    /\ memory = disk
    /\ completed = [k \in Keys |-> Unknown]
    /\ text = [g \in Gens |-> FirstContent]
    /\ saved = {}
    /\ events = {}
    /\ queued = {}
    /\ phase = "idle"
    /\ current \in Notebooks
    /\ unread = {}
    /\ snapshot = disk
    /\ promptGen = NoTask
    /\ externals = 0
    /\ excused = {}

\* Between the answer of the user and the next await of the loop nothing else
\* runs: resumeNotebook() and the pauseNotebook() of a requeued notebook are
\* not separated by a timer.
Free == phase \notin {"releasing", "looping"}

\* The watcher covers the scripts and the catalog files, not the manifest.
Notify(k) == IF k \in Reloadable THEN events \cup {NotebookOf[k]} ELSE events

-----------------------------------------------------------------------------
(* The editor, the other programs, and the executions of the writer *)

\* The user changes a script: the reducer updates the state and schedules the
\* write of the new text.
EditScript(k, c) ==
    /\ Free
    /\ c # memory[k]
    /\ Write(k)
    /\ memory' = [memory EXCEPT ![k] = c]
    /\ text' = [text EXCEPT ![nextGen] = c]
    /\ excused' = excused \ {k}
    /\ UNCHANGED <<disk, completed, saved, events, loopVars, externals>>

ExternalEdit(k, c) ==
    /\ Free
    /\ externals < MaxExternal
    /\ k \in Reloadable
    /\ c # disk[k]
    /\ disk' = [disk EXCEPT ![k] = c]
    /\ events' = Notify(k)
    /\ externals' = externals + 1
    /\ excused' = excused \ {k}
    /\ UNCHANGED <<vars, memory, completed, text, saved, loopVars>>

SyncTimerFires(k) ==
    /\ Free
    /\ TimerFires(k) \/ StrayTimerFires(k)
    /\ UNCHANGED syncVars

\* saveScript() replaces the file.
SaveReachesDisk(e) ==
    /\ Free
    /\ e \notin saved
    /\ saved' = saved \cup {e}
    /\ disk' = [disk EXCEPT ![e.key] = text[e.gen]]
    /\ events' = Notify(e.key)
    /\ UNCHANGED <<vars, memory, completed, text, loopVars, externals, excused>>

SaveSucceeds(e) ==
    /\ Free
    /\ e \in saved
    /\ ExecutionSucceeds(e)
    /\ saved' = saved \ {e}
    /\ completed' = [completed EXCEPT ![e.key] = text[e.gen]]
    /\ UNCHANGED <<disk, memory, text, events, loopVars, externals, excused>>

\* saveScript() throws, before or after it has changed the file.
SaveFails(e) ==
    /\ Free
    /\ ExecutionFails(e)
    /\ saved' = saved \ {e}
    /\ excused' = IF e.gen = keyGen[e.key] THEN excused \cup {e.key} ELSE excused
    /\ UNCHANGED <<disk, memory, completed, text, events, loopVars, externals>>

-----------------------------------------------------------------------------
(* The reload of a notebook *)

\* reloadNotebook() up to its first await.
ReloadBegins(n) ==
    /\ PauseNotebook(n)
    /\ queued' = queued \ {n}
    /\ phase' = "settling"
    /\ current' = n
    /\ UNCHANGED <<fileVars, unread, snapshot, promptGen, externals, excused>>

\* enqueueReload(): a loop that is under way will see the queued notebook.
EnqueueReload(n) ==
    /\ Free
    /\ n \in events
    /\ events' = events \ {n}
    /\ IF phase = "idle"
       THEN ReloadBegins(n)
       ELSE /\ queued' = queued \cup {n}
            /\ UNCHANGED <<vars, fileVars, phase, current, unread, snapshot, promptGen, externals, excused>>

\* The loop takes the next notebook, or ends.
LoopContinues ==
    /\ phase = "looping"
    /\ UNCHANGED events
    /\ IF queued = {}
       THEN /\ phase' = "idle"
            /\ UNCHANGED <<vars, fileVars, queued, current, unread, snapshot, promptGen, externals, excused>>
       ELSE \E n \in queued : ReloadBegins(n)

\* Mutant: the files are read without waiting for the writes in flight.
SettleUnawaited ==
    /\ phase = "settling"
    /\ phase' = "reading"
    /\ unread' = FilesOf(current)
    /\ UNCHANGED <<vars, fileVars, events, queued, current, snapshot, promptGen,
                   externals, excused>>

\* settle() returns: nothing is in flight.
Settle ==
    /\ phase = "settling"
    /\ running = {}
    /\ phase' = "reading"
    /\ unread' = FilesOf(current)
    /\ UNCHANGED <<vars, fileVars, events, queued, current, snapshot, promptGen,
                   externals, excused>>

ReadFile(k) ==
    /\ phase = "reading"
    /\ k \in unread
    /\ unread' = unread \ {k}
    /\ snapshot' = [snapshot EXCEPT ![k] = disk[k]]
    /\ UNCHANGED <<vars, fileVars, events, queued, phase, current, promptGen,
                   externals, excused>>

\* Mutant: a failed read leaves the function without the finally block.
ReadFailsHeld ==
    /\ phase = "reading"
    /\ unread # {}
    /\ unread' = {}
    /\ phase' = "looping"
    /\ excused' = excused \cup FilesOf(current)
    /\ UNCHANGED <<vars, fileVars, events, queued, current, snapshot, promptGen,
                   externals>>

\* A read throws: the catch block logs it, the finally block still resumes.
ReadFails ==
    /\ phase = "reading"
    /\ unread # {}
    /\ unread' = {}
    /\ phase' = "releasing"
    /\ excused' = excused \cup FilesOf(current)
    /\ UNCHANGED <<vars, fileVars, events, queued, current, snapshot, promptGen,
                   externals>>

Diverging == {k \in FilesOf(current) : snapshot[k] # memory[k]}
ReloadPending == PendingOf(current) \cap Reloadable

\* getNotebookWriteGeneration() of the reloadable keys.
WriteGeneration == Max({keyGen[k] : k \in FilesOf(current)} \cup {NoTask})

\* Mutant: one file that the writer has written explains the whole snapshot.
OwnWriteOnce == \E k \in FilesOf(current) : completed[k] # Unknown

\* snapshotMatchesCompletedWrite()
OwnWrite == \A k \in Diverging : completed[k] = snapshot[k]

\* All files are read: compare them with the state, and ask if they differ in
\* something the writer has not written itself.
Compare ==
    /\ phase = "reading"
    /\ unread = {}
    /\ IF Diverging = {} \/ OwnWrite
       THEN /\ phase' = "releasing"
            /\ UNCHANGED promptGen
       ELSE /\ phase' = IF ReloadPending = {} THEN "asking" ELSE "warning"
            /\ promptGen' = WriteGeneration
    /\ UNCHANGED <<vars, fileVars, events, queued, current, unread, snapshot, externals, excused>>

\* The open dialog says that pending local changes are discarded.
Destructive == phase \in {"warning", "confirming"}

\* "Keep current" in any dialog.
AnswerKeep ==
    /\ phase \in {"asking", "warning", "confirming"}
    /\ phase' = "releasing"
    /\ excused' = excused \cup Diverging
    /\ UNCHANGED <<vars, fileVars, events, queued, current, unread, snapshot, promptGen, externals>>

\* Mutant: the generation is read again for the second dialog.
AskAgainRefreshed ==
    /\ phase = "asking"
    /\ ReloadPending # {}
    /\ phase' = "confirming"
    /\ promptGen' = WriteGeneration
    /\ UNCHANGED <<vars, fileVars, events, queued, current, unread, snapshot, externals, excused>>

\* "Reload" in a first dialog that did not mention the local edits that are
\* pending by now: ask again.
AskAgain ==
    /\ phase = "asking"
    /\ ReloadPending # {}
    /\ phase' = "confirming"
    /\ UNCHANGED <<vars, fileVars, events, queued, current, unread, snapshot, promptGen,
                   externals, excused>>

\* "Reload" in the last dialog.
Accepted ==
    \/ phase = "asking" /\ ReloadPending = {}
    \/ Destructive

\* A local edit came in while the dialog was open: the decision is stale.
AcceptStale ==
    /\ Accepted
    /\ WriteGeneration # promptGen
    /\ queued' = queued \cup {current}
    /\ phase' = "releasing"
    /\ UNCHANGED <<vars, fileVars, events, current, unread, snapshot, promptGen,
                   externals, excused>>

\* Mutant: the decision is applied whatever was edited in the meantime.
AcceptReloadUnchecked ==
    /\ Accepted
    /\ IF Destructive THEN CancelPendingWritesForNotebook(current) ELSE UNCHANGED vars
    /\ memory' = [k \in Keys |-> IF k \in FilesOf(current) THEN snapshot[k] ELSE memory[k]]
    /\ phase' = "releasing"
    /\ UNCHANGED <<disk, completed, text, saved, events, queued, current, unread, snapshot,
                   promptGen, externals, excused>>

\* The snapshot replaces the catalog and the scripts of the notebook.
AcceptReload ==
    /\ Accepted
    /\ WriteGeneration = promptGen
    /\ IF Destructive THEN CancelPendingWritesForNotebook(current) ELSE UNCHANGED vars
    /\ memory' = [k \in Keys |-> IF k \in FilesOf(current) THEN snapshot[k] ELSE memory[k]]
    /\ phase' = "releasing"
    /\ UNCHANGED <<disk, completed, text, saved, events, queued, current, unread, snapshot,
                   promptGen, externals, excused>>

\* The finally block.
Release ==
    /\ phase = "releasing"
    /\ ResumeNotebook(current)
    /\ phase' = "looping"
    /\ UNCHANGED <<fileVars, events, queued, current, unread, snapshot, promptGen,
                   externals, excused>>

-----------------------------------------------------------------------------

\* Nothing is left to do until the user or another program acts.
Quiet ==
    /\ phase = "idle"
    /\ events = {}
    /\ running = {}
    /\ armed = {}
    /\ \A k \in Keys : stray[k] = 0 /\ ~IsPending(k)

Idle == Quiet /\ UNCHANGED allVars

LoopNext ==
    \/ \E n \in Notebooks : EnqueueReload(n)
    \/ LoopContinues \/ Settle \/ ReadFails \/ Compare
    \/ \E k \in Reloadable : ReadFile(k)
    \/ AnswerKeep \/ AskAgain \/ AcceptStale \/ AcceptReload \/ Release

SyncNext ==
    \/ \E k \in Keys, c \in Contents : EditScript(k, c) \/ ExternalEdit(k, c)
    \/ \E k \in Keys : SyncTimerFires(k)
    \/ \E e \in running : SaveReachesDisk(e) \/ SaveSucceeds(e) \/ SaveFails(e)
    \/ LoopNext
    \/ Idle

SyncSpec == SyncInit /\ [][SyncNext]_allVars

\* Timers fire, storage calls and watcher events arrive, and the user answers an
\* open dialog, in whatever way.
SyncFairness ==
    /\ \A k \in Keys : WF_allVars(SyncTimerFires(k))
    /\ \A e \in Executions : WF_allVars(e \in running /\ (SaveReachesDisk(e) \/ SaveSucceeds(e) \/ SaveFails(e)))
    /\ WF_allVars(LoopNext)

FairSyncSpec == SyncSpec /\ SyncFairness

-----------------------------------------------------------------------------
(* Properties *)

\* The step drops the pending write of k, or replaces the text it carries in
\* the live notebook, without executing it.
Discards(k) ==
    /\ IsPending(k)
    /\ nextGen' = nextGen
    /\ running' = running
    /\ pending'[k] = NoTask \/ memory'[k] # memory[k]

DiscardsAreInformed ==
    \A k \in Keys : Discards(k) =>
        /\ k \in FilesOf(current)
        /\ Destructive
        /\ pending[k] <= promptGen

\* "Avoid silently discarding local debounced edits": a local edit that waits to
\* be saved is given up only for the notebook the user was asked about, in a
\* dialog that said so, and only if the edit is not newer than that dialog.
NoSilentDiscard == [][DiscardsAreInformed]_allVars

\* The snapshot is a stable read: while the files of a notebook are read, none of
\* the app's own writes to it is in flight.
StableRead ==
    phase = "reading" => \A e \in running : NotebookOf[e.key] # current

\* Notebook writes are resumed on every path out of a reload: a notebook is held
\* only while the loop is working on it.
HeldWhileReloading ==
    held \subseteq (IF phase \in {"idle", "looping"} THEN {} ELSE {current})

\* The second dialog is opened because an edit came in after the generation was
\* taken, so the generation check always finds its "Reload" answer stale.
SecondAnswerIsStale ==
    phase = "confirming" => WriteGeneration # promptGen

\* When everything has settled, the live notebook shows what is on disk, unless
\* the user kept the current version, a read or a write failed, or the disk holds
\* what the writer itself has written last.
DivergenceIsExplained ==
    Quiet => \A k \in Reloadable \ excused :
                memory[k] = disk[k] \/ completed[k] = disk[k]

\* The reload loop comes to rest, however events, edits and answers interleave:
\* a stale decision is requeued, but not for ever.
SyncSettles == <>[]Quiet
=============================================================================
