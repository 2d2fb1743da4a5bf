---------------------------- MODULE ScriptFiles ----------------------------
(* The pages and scripts of one notebook, the storage writes with which     *)
(* reduceNotebookScripts (scripts/notebook_scripts.ts) persists every       *)
(* change of them, and the execution of those writes by the StorageWriter   *)
(* on the files of a native folder.                                         *)
(*                                                                          *)
(* A page is a folder of scripts/, a script a file of it.  Both names are   *)
(* an ordering prefix (0: none) and a clean name: "2_extract.sql" is        *)
(* <<2, c>>.  Clean names are numbers, so that names can be sorted.         *)
(* Prefixes stay below ten and carry no legacy hyphen: every prefix has the *)
(* same width, and planScriptInsertion never re-pads.                       *)
(*                                                                          *)
(* All timers of script writes run for the same 100 ms: they fire in the    *)
(* order in which they were started.  A task whose timer has fired is no    *)
(* longer pending; it first looks for its file, then changes it, and others *)
(* may start in between.  Pauses, flushes and holds of the writer are in    *)
(* module StorageWriter.                                                    *)
EXTENDS Naturals, FiniteSets, SequencesExt

CONSTANTS
    PageNames,     \* clean names of pages
    ScriptNames,   \* clean names of scripts
    Texts,         \* texts of scripts
    EmptyText,     \* the text of a new script
    Notebooks,     \* contents of scripts/ that a notebook may be loaded from
    MaxPrefix,     \* bound: largest ordering prefix, below ten
    MaxActions,    \* bound: number of actions of the user
    MaxRunning     \* bound: number of tasks that execute at a time

FolderNames == Nat \X PageNames
FileNames == Nat \X ScriptNames
Paths == FolderNames \X FileNames

(* A collection of scripts: a text for each of some paths. *)
IsCollection(c) == c \in [DOMAIN c -> Texts] /\ DOMAIN c \subseteq Paths

FoldersOf(c) == {p[1] : p \in DOMAIN c}
FilesOf(c, f) == {p[2] : p \in {q \in DOMAIN c : q[1] = f}}

ASSUME NamesAssumption == PageNames \subseteq Nat /\ ScriptNames \subseteq Nat
ASSUME TextAssumption == EmptyText \in Texts
ASSUME NotebooksAssumption ==
    \A c \in Notebooks : IsCollection(c) /\ IsFiniteSet(DOMAIN c) /\ DOMAIN c # {}
ASSUME BoundsAssumption ==
    /\ MaxPrefix \in 1 .. 9
    /\ MaxActions \in Nat
    /\ MaxRunning \in Nat

VARIABLES
    shown,       \* what the notebook shows
    pending,     \* the writer's pending tasks, in the order of their timers
    running,     \* the tasks under execution, in the order of their start
    files,       \* the files in the notebook's folder
    folders,     \* the folders below scripts/
    displaced,   \* a task has taken the place of an earlier one out of order
    overlapped,  \* two tasks on the same file have been executed at a time
    actions      \* number of actions of the user

vars == <<shown, pending, running, files, folders, displaced, overlapped, actions>>
----------------------------------------------------------------------------
(* Tasks.  A task without a text carries the empty one.                      *)

NoName == <<>>

Kinds == {"write", "delete", "rename", "create", "remove", "move"}

Task == [kind: Kinds,
         folder: FolderNames,
         file: FileNames \cup {NoName},
         to: FileNames \cup FolderNames \cup {NoName},
         text: Texts]

WriteScript(f, s, t) ==
    [kind |-> "write", folder |-> f, file |-> s, to |-> NoName, text |-> t]

RemoveScript(f, s) ==
    [kind |-> "delete", folder |-> f, file |-> s, to |-> NoName, text |-> EmptyText]

MoveScript(f, s, to) ==
    [kind |-> "rename", folder |-> f, file |-> s, to |-> to, text |-> EmptyText]

NewFolder(f, s) ==
    [kind |-> "create", folder |-> f, file |-> s, to |-> NoName, text |-> EmptyText]

RemoveFolder(f) ==
    [kind |-> "remove", folder |-> f, file |-> NoName, to |-> NoName, text |-> EmptyText]

MoveFolder(f, to) ==
    [kind |-> "move", folder |-> f, file |-> NoName, to |-> to, text |-> EmptyText]

(* Mutant: the rename of a script has the key of the writes of its new name. *)
KeyOfShared(t) ==
    CASE t.kind = "create" -> <<"folder", t.folder, NoName>>
      [] t.kind = "remove" -> <<"folder", t.folder, NoName>>
      [] t.kind = "move"   -> <<"rename", t.folder, NoName>>
      [] t.kind = "rename" -> <<"write", t.folder, t.to>>
      [] OTHER             -> <<t.kind, t.folder, t.file>>

(* Writes, deletions and renames of a script have keys of their own; the     *)
(* creation and the deletion of a folder share one.                          *)
KeyOf(t) ==
    CASE t.kind = "create" -> <<"folder", t.folder, NoName>>
      [] t.kind = "remove" -> <<"folder", t.folder, NoName>>
      [] t.kind = "move"   -> <<"rename", t.folder, NoName>>
      [] OTHER             -> <<t.kind, t.folder, t.file>>

WholeFolder(t) == t.kind \in {"remove", "move"}

TouchedFolders(t) == {t.folder} \cup (IF t.kind = "move" THEN {t.to} ELSE {})

TouchedFiles(t) == {t.file} \cup (IF t.kind = "rename" THEN {t.to} ELSE {})

(* t and u change a common file. *)
Conflict(t, u) ==
    /\ TouchedFolders(t) \cap TouchedFolders(u) # {}
    /\ WholeFolder(t) \/ WholeFolder(u) \/ TouchedFiles(t) \cap TouchedFiles(u) # {}

(* The elements of s at the places I, in their order. *)
Selected(s, I) ==
    LET Rank(i) == Cardinality({j \in I : j <= i})
    IN  [k \in 1 .. Cardinality(I) |-> s[CHOOSE i \in I : Rank(i) = k]]

(* The pending task of a key is replaced where it stands; new keys follow    *)
(* in the order of the calls.                                                *)
Scheduled(q, ts) ==
    [i \in DOMAIN q |->
        IF \E j \in DOMAIN ts : KeyOf(ts[j]) = KeyOf(q[i])
        THEN ts[CHOOSE j \in DOMAIN ts : KeyOf(ts[j]) = KeyOf(q[i])]
        ELSE q[i]]
    \o Selected(ts, {j \in DOMAIN ts : \A i \in DOMAIN q : KeyOf(q[i]) # KeyOf(ts[j])})

(* One of the calls ts takes a place in q ahead of a task on the same file,  *)
(* or the creation of a folder replaces the deletion of its predecessor.     *)
Displaces(q, ts) ==
    \E i \in DOMAIN q, j \in DOMAIN ts :
        /\ KeyOf(q[i]) = KeyOf(ts[j])
        /\ \/ \E k \in DOMAIN q : k > i /\ Conflict(q[k], ts[j])
           \/ q[i].kind = "remove" /\ ts[j].kind = "create"

(* The reducer shows c and calls write() for the tasks ts. *)
Persists(c, ts) ==
    /\ actions < MaxActions
    /\ actions' = actions + 1
    /\ shown' = c
    /\ pending' = Scheduled(pending, ts)
    /\ displaced' = (displaced \/ Displaces(pending, ts))
    /\ UNCHANGED <<running, files, folders, overlapped>>
----------------------------------------------------------------------------
(* Collections and their order.                                              *)

With(c, p, t) == [q \in DOMAIN c \cup {p} |-> IF q = p THEN t ELSE c[q]]

Without(c, P) == [q \in DOMAIN c \ P |-> c[q]]

(* Every path p of c moves to g[p], to which no other one moves. *)
Relocated(c, g) ==
    [q \in {g[p] : p \in DOMAIN c} |-> c[CHOOSE p \in DOMAIN c : g[p] = q]]

InFolder(c, f) == {p \in DOMAIN c : p[1] = f}

(* Names without a prefix sort last. *)
Before(a, b) ==
    \/ a[1] # 0 /\ b[1] # 0 /\ a[1] < b[1]
    \/ a[1] # 0 /\ b[1] = 0
    \/ a[1] = b[1] /\ a[2] < b[2]

Orders(S) ==
    {o \in [1 .. Cardinality(S) -> S] :
        /\ \A i, j \in DOMAIN o : o[i] = o[j] => i = j
        /\ \A a \in S : \E i \in DOMAIN o : o[i] = a}

IsViewOrder(o) == \A i, j \in DOMAIN o : i < j => Before(o[i], o[j])

PlaceOf(a, o) == CHOOSE i \in DOMAIN o : o[i] = a

Prefixed(o) == [i \in DOMAIN o |-> <<i, o[i][2]>>]

CleanNames(S) == {a[2] : a \in S}

(* One past the highest prefix, and past the number of scripts. *)
IsNextPrefix(n, S) ==
    /\ n > Cardinality(S)
    /\ \A a \in S : n > a[1]
    /\ n = Cardinality(S) + 1 \/ \E a \in S : n = a[1] + 1

(* The pages of c, in the order o, get the names n. *)
PagesNamed(c, o, n) ==
    Relocated(c, [p \in DOMAIN c |-> <<n[PlaceOf(p[1], o)], p[2]>>])

(* The renames of the folders o[i], for i in I, that change their name to n[i]. *)
FolderMoves(o, n, I) ==
    Selected([i \in DOMAIN o |-> MoveFolder(o[i], n[i])], {i \in I : o[i] # n[i]})
----------------------------------------------------------------------------
(* Actions of the user.                                                      *)

Init ==
    /\ shown \in Notebooks
    /\ files = shown
    /\ folders = FoldersOf(shown)
    /\ pending = <<>>
    /\ running = <<>>
    /\ displaced = FALSE
    /\ overlapped = FALSE
    /\ actions = 0

SetScriptText(p, t) ==
    /\ p \in DOMAIN shown
    /\ Persists(With(shown, p, t), <<WriteScript(p[1], p[2], t)>>)

(* CREATE_SCRIPT, and CREATE_SCRIPT_WITH_TEXT with the text t. *)
CreateScript(f, n, c, t) ==
    /\ f \in FoldersOf(shown)
    /\ IsNextPrefix(n, FilesOf(shown, f))
    /\ c \notin CleanNames(FilesOf(shown, f))
    /\ Persists(With(shown, <<f, <<n, c>>>>, t), <<WriteScript(f, <<n, c>>, t)>>)

(* The last script of a page takes the page with it, unless it is the last   *)
(* page.                                                                     *)
DeleteScript(p) ==
    /\ p \in DOMAIN shown
    /\ IF FilesOf(shown, p[1]) # {p[2]}
       THEN Persists(Without(shown, {p}), <<RemoveScript(p[1], p[2])>>)
       ELSE /\ FoldersOf(shown) # {p[1]}
            /\ Persists(Without(shown, InFolder(shown, p[1])), <<RemoveFolder(p[1])>>)

(* Mutant: the new name may be taken. *)
RenameScriptAnyName(p, c) ==
    LET f == p[1]
        s == p[2]
        renamed == <<s[1], c>>
    IN  /\ p \in DOMAIN shown
        /\ IF renamed # s
           THEN Persists(With(Without(shown, {p}), <<f, renamed>>, shown[p]),
                         <<MoveScript(f, s, renamed)>>)
           ELSE Persists(shown, <<WriteScript(f, s, shown[p])>>)

RenameScript(p, c) ==
    LET f == p[1]
        s == p[2]
        renamed == <<s[1], c>>
    IN  /\ p \in DOMAIN shown
        /\ c \notin CleanNames(FilesOf(shown, f) \ {s})
        /\ IF renamed # s
           THEN Persists(With(Without(shown, {p}), <<f, renamed>>, shown[p]),
                         <<MoveScript(f, s, renamed)>>)
           ELSE Persists(shown, <<WriteScript(f, s, shown[p])>>)

(* Every moved script is deleted under its old name, unless another one has  *)
(* taken that name, and written under its new one.                           *)
ReorderScripts(f, o) ==
    LET n == Prefixed(o)
        moved == {i \in DOMAIN o : o[i] # n[i]}
        Name(s) == n[PlaceOf(s, o)]
        next == Relocated(shown, [p \in DOMAIN shown |->
                                     IF p[1] = f THEN <<f, Name(p[2])>> ELSE p])
        Deletes == Selected([i \in DOMAIN o |-> RemoveScript(f, o[i])],
                            {i \in moved : \A j \in moved : n[j] # o[i]})
        Writes == Selected([i \in DOMAIN o |-> WriteScript(f, n[i], shown[<<f, o[i]>>])], moved)
    IN  /\ f \in FoldersOf(shown)
        /\ ~IsViewOrder(o)
        /\ moved # {}
        /\ Persists(next, Deletes \o Writes)

(* The new page comes last; every other page gets the prefix of its place.   *)
CreateScriptFolder(o, c, s) ==
    LET S == FoldersOf(shown)
        n == Prefixed(o)
        f == <<Cardinality(S) + 1, c>>
        first == <<1, s>>
    IN  /\ IsViewOrder(o)
        /\ c \notin CleanNames(S)
        /\ Cardinality(S) < MaxPrefix
        /\ Persists(With(PagesNamed(shown, o, n), <<f, first>>, EmptyText),
                    Append(FolderMoves(o, n, DOMAIN o), NewFolder(f, first)))

DeleteScriptFolder(f) ==
    /\ f \in FoldersOf(shown)
    /\ FoldersOf(shown) # {f}
    /\ Persists(Without(shown, InFolder(shown, f)), <<RemoveFolder(f)>>)

(* The renamed page moves to the prefix of its place, then the others do. *)
RenameScriptFolder(o, i, c) ==
    LET n == [Prefixed(o) EXCEPT ![i] = <<i, c>>]
        others == FolderMoves(o, n, DOMAIN o \ {i})
    IN  /\ IsViewOrder(o)
        /\ i \in DOMAIN o
        /\ c \notin CleanNames(FoldersOf(shown))
        /\ Persists(PagesNamed(shown, o, n), <<MoveFolder(o[i], n[i])>> \o others)

ReorderScriptFolders(o) ==
    LET n == Prefixed(o)
    IN  /\ ~IsViewOrder(o)
        /\ n # o
        /\ Persists(PagesNamed(shown, o, n), FolderMoves(o, n, DOMAIN o))
----------------------------------------------------------------------------
(* Execution of the tasks on a disk d of files and folders.                  *)

Disk == [files |-> files, folders |-> folders]

(* saveScript ensures the folder of the file first. *)
Ensured(d, t) ==
    IF t.kind \in {"write", "create"}
    THEN [d EXCEPT !.folders = @ \cup {t.folder}]
    ELSE d

(* What the task changes is there. *)
Finds(d, t) ==
    CASE t.kind \in {"write", "create"}  -> TRUE
      [] t.kind \in {"delete", "rename"} -> <<t.folder, t.file>> \in DOMAIN d.files
      [] OTHER                           -> t.folder \in d.folders

FolderIsFree(d, f) == InFolder(d.files, f) = {}

(* A write into a folder that is gone, and a change of what is gone, fail; a *)
(* folder is not renamed onto one that holds files.                          *)
Executed(d, t) ==
    LET p == <<t.folder, t.file>>
        moved == [q \in DOMAIN d.files |->
                     <<IF q[1] = t.folder THEN t.to ELSE q[1], q[2]>>]
    IN  CASE t.kind \in {"write", "create"} ->
               IF t.folder \in d.folders
               THEN [d EXCEPT !.files = With(@, p, t.text)] ELSE d
          [] t.kind = "delete" ->
               [d EXCEPT !.files = Without(@, {p})]
          [] t.kind = "rename" ->
               IF p \in DOMAIN d.files
               THEN [d EXCEPT !.files = With(Without(@, {p}), <<t.folder, t.to>>, @[p])]
               ELSE d
          [] t.kind = "remove" ->
               [files |-> Without(d.files, InFolder(d.files, t.folder)),
                folders |-> d.folders \ {t.folder}]
          [] t.kind = "move" ->
               IF t.folder \in d.folders /\ FolderIsFree(d, t.to)
               THEN [files |-> Relocated(d.files, moved),
                     folders |-> (d.folders \ {t.folder}) \cup {t.to}]
               ELSE d

(* The whole execution of a task. *)
Performed(d, t) == Executed(Ensured(d, t), t)

(* The timer of the oldest pending task fires. *)
TaskStarts ==
    /\ pending # <<>>
    /\ Len(running) < MaxRunning
    /\ LET t == Head(pending)
       IN  /\ running' = IF Finds(Disk, t) THEN Append(running, t) ELSE running
           /\ folders' = Ensured(Disk, t).folders
           /\ overlapped' = (overlapped \/ \E i \in DOMAIN running : Conflict(t, running[i]))
    /\ pending' = Tail(pending)
    /\ UNCHANGED <<shown, files, displaced, actions>>

TaskEnds(i) ==
    /\ i \in DOMAIN running
    /\ files' = Executed(Disk, running[i]).files
    /\ folders' = Executed(Disk, running[i]).folders
    /\ running' = RemoveAt(running, i)
    /\ UNCHANGED <<shown, pending, displaced, overlapped, actions>>

ScriptAction ==
    \/ \E p \in DOMAIN shown, t \in Texts : SetScriptText(p, t)
    \/ \E f \in FoldersOf(shown), n \in 1 .. MaxPrefix, c \in ScriptNames, t \in Texts :
          CreateScript(f, n, c, t)
    \/ \E p \in DOMAIN shown : DeleteScript(p)
    \/ \E p \in DOMAIN shown, c \in ScriptNames : RenameScript(p, c)
    \/ \E f \in FoldersOf(shown) : \E o \in Orders(FilesOf(shown, f)) : ReorderScripts(f, o)

FolderAction ==
    \/ \E o \in Orders(FoldersOf(shown)), c \in PageNames, s \in ScriptNames :
          CreateScriptFolder(o, c, s)
    \/ \E f \in FoldersOf(shown) : DeleteScriptFolder(f)
    \/ \E o \in Orders(FoldersOf(shown)), c \in PageNames :
          \E i \in DOMAIN o : RenameScriptFolder(o, i, c)
    \/ \E o \in Orders(FoldersOf(shown)) : ReorderScriptFolders(o)

TaskAction == TaskStarts \/ \E i \in DOMAIN running : TaskEnds(i)

Next == ScriptAction \/ FolderAction \/ TaskAction

Spec == Init /\ [][Next]_vars
----------------------------------------------------------------------------
(* Properties.                                                               *)

TypeOK ==
    /\ IsCollection(shown) /\ IsFiniteSet(DOMAIN shown)
    /\ displaced \in BOOLEAN
    /\ overlapped \in BOOLEAN
    /\ actions \in 0 .. MaxActions

(* Deletions of scripts and pages, in any order, leave a script to show: the *)
(* last page keeps its last script.                                          *)
NotebookIsNeverEmpty == DOMAIN shown # {}

(* The disk d after the tasks q, one after the other. *)
Replay(d, q) ==
    LET after[n \in 0 .. Len(q)] == IF n = 0 THEN d ELSE Performed(after[n - 1], q[n])
    IN  after[Len(q)]

(* What the disk will be when the tasks on their way have been executed in   *)
(* their order.                                                              *)
Replayed == Replay(Disk, running \o pending)

(* As long as no task displaced another one and no two executions touched    *)
(* the same file, the tasks on their way lead from the files on disk to      *)
(* what the notebook shows: no sequence of creations, edits, renames,        *)
(* deletions and moves of scripts and pages leaves a file behind, loses one  *)
(* or writes it under another name.                                          *)
TasksLeadToNotebook ==
    ~displaced /\ ~overlapped => Replayed = [files |-> shown, folders |-> FoldersOf(shown)]

(* "The new clean base is disambiguated unique within the folder, so the     *)
(* destination is free" (renameScript), and renameScriptFolder's "destination*)
(* the caller guarantees is free": a rename never finds a file under its new *)
(* name.                                                                     *)
RenameTargetIsFree ==
    \A i \in DOMAIN running :
        /\ running[i].kind = "rename" =>
              <<running[i].folder, running[i].to>> \notin DOMAIN files
        /\ running[i].kind = "move" => FolderIsFree(Disk, running[i].to)

(* The same as long as the tasks are executed in the order of the calls.     *)
RenameTargetIsFreeInOrder == ~displaced /\ ~overlapped => RenameTargetIsFree
=============================================================================
