------------------------- MODULE ScriptFilesProofs -------------------------
(* Proofs about ScriptFiles, for any notebooks, names and texts, any number  *)
(* of actions and of tasks at a time: the notebook shows a finite collection *)
(* of scripts that is never empty, and the tasks on their way lead from the  *)
(* files on disk to it.                                                      *)
(*                                                                           *)
(* The second part speaks of the course of a queue of tasks, the disks       *)
(* before, between and after them.  Tasks that change no common file         *)
(* commute.  Hence a course can be followed when a task ends ahead of        *)
(* earlier ones, when a call takes the place of a pending task, and when the *)
(* calls of one action are added: they are performed together on what the    *)
(* notebook shows, and make of it what the reducer makes of it.              *)
EXTENDS ScriptFiles, FiniteSetTheorems, FunctionTheorems, SequenceTheorems,
        WellFoundedInduction, TLAPS

\* a notebook with something to show
IsNotebook(c) == IsCollection(c) /\ IsFiniteSet(DOMAIN c) /\ DOMAIN c # {}

\* what a step sets besides the notebook and the tasks
Rest ==
    /\ displaced \in BOOLEAN
    /\ overlapped \in BOOLEAN
    /\ actions \in 0 .. MaxActions

Inv == IsNotebook(shown) /\ Rest
----------------------------------------------------------------------------
(* The operators on collections.                                             *)

LEMMA ImageIsFinite ==
    ASSUME NEW S, IsFiniteSet(S), NEW g, DOMAIN g = S
    PROVE  IsFiniteSet({g[a] : a \in S})
<1> DEFINE T == {g[a] : a \in S}
           h == [a \in S |-> g[a]]
<1>1. h \in [S -> T]
  OBVIOUS
<1>2. \A t \in T : \E a \in S : h[a] = t
  OBVIOUS
<1>3. h \in Surjection(S, T)
  <2> HIDE DEF h, T
  <2> QED BY <1>1, <1>2, Fun_IsSurj
<1> QED BY <1>3, FS_Surjection

LEMMA WithIsNotebook ==
    ASSUME NEW c, IsCollection(c), IsFiniteSet(DOMAIN c), NEW p \in Paths, NEW t \in Texts
    PROVE  IsNotebook(With(c, p, t))
<1>1. IsCollection(With(c, p, t))
  BY DEF IsCollection, With
<1>2. DOMAIN With(c, p, t) = DOMAIN c \cup {p}
  BY DEF With
<1> QED BY <1>1, <1>2, FS_AddElement DEF IsNotebook

LEMMA WithoutIsNotebook ==
    ASSUME NEW c, IsCollection(c), IsFiniteSet(DOMAIN c), NEW P, ~(DOMAIN c \subseteq P)
    PROVE  IsNotebook(Without(c, P))
<1>1. IsCollection(Without(c, P))
  BY DEF IsCollection, Without
<1>2. DOMAIN Without(c, P) = DOMAIN c \ P
  BY DEF Without
<1> QED BY <1>1, <1>2, FS_Difference DEF IsNotebook

LEMMA RelocatedIsNotebook ==
    ASSUME NEW c, IsNotebook(c), NEW g \in [DOMAIN c -> Paths]
    PROVE  IsNotebook(Relocated(c, g))
<1> DEFINE D == {g[p] : p \in DOMAIN c}
           Old(q) == CHOOSE p \in DOMAIN c : g[p] = q
<1>1. Relocated(c, g) = [q \in D |-> c[Old(q)]]
  BY DEF Relocated
<1>2. D \subseteq Paths
  OBVIOUS
<1>3. \A q \in D : Old(q) \in DOMAIN c
  OBVIOUS
<1>4. IsFiniteSet(D)
  BY ImageIsFinite DEF IsNotebook
<1>5. D # {}
  BY DEF IsNotebook
<1>6. \A q \in D : c[Old(q)] \in Texts
  BY <1>3 DEF IsNotebook, IsCollection
<1> HIDE DEF D, Old
<1> QED BY <1>1, <1>2, <1>4, <1>5, <1>6 DEF IsNotebook, IsCollection

LEMMA FoldersAreFinite ==
    ASSUME NEW c, IsNotebook(c)
    PROVE  /\ IsFiniteSet(FoldersOf(c))
           /\ FoldersOf(c) \subseteq FolderNames
           /\ Cardinality(FoldersOf(c)) \in Nat
<1> DEFINE g == [p \in DOMAIN c |-> p[1]]
<1>1. FoldersOf(c) = {g[p] : p \in DOMAIN c}
  BY DEF FoldersOf
<1>2. IsFiniteSet(FoldersOf(c))
  <2>1. DOMAIN g = DOMAIN c
    OBVIOUS
  <2> HIDE DEF g
  <2> QED BY <1>1, <2>1, ImageIsFinite DEF IsNotebook
<1>3. FoldersOf(c) \subseteq FolderNames
  BY DEF FoldersOf, IsNotebook, IsCollection, Paths
<1> QED BY <1>2, <1>3, FS_CardinalityType

LEMMA FilesAreFinite ==
    ASSUME NEW c, IsNotebook(c), NEW f
    PROVE  /\ IsFiniteSet(FilesOf(c, f))
           /\ FilesOf(c, f) \subseteq FileNames
           /\ Cardinality(FilesOf(c, f)) \in Nat
<1> DEFINE D == {q \in DOMAIN c : q[1] = f}
           g == [p \in D |-> p[2]]
<1>1. FilesOf(c, f) = {g[p] : p \in D}
  BY DEF FilesOf
<1>2. IsFiniteSet(FilesOf(c, f))
  <2>1. DOMAIN g = D
    OBVIOUS
  <2>2. IsFiniteSet(D)
    BY FS_Subset DEF IsNotebook
  <2> HIDE DEF g, D
  <2> QED BY <1>1, <2>1, <2>2, ImageIsFinite
<1>3. FilesOf(c, f) \subseteq FileNames
  BY DEF FilesOf, IsNotebook, IsCollection, Paths
<1> QED BY <1>2, <1>3, FS_CardinalityType

\* an order of S numbers each member of S
LEMMA OrderNumbers ==
    ASSUME NEW S, Cardinality(S) \in Nat, NEW o \in Orders(S)
    PROVE  /\ DOMAIN o = 1 .. Cardinality(S)
           /\ \A i \in DOMAIN o : o[i] \in S
           /\ \A a \in S : PlaceOf(a, o) \in DOMAIN o /\ o[PlaceOf(a, o)] = a
BY DEF Orders, PlaceOf

\* the names that dense prefixes give to the pages or to the scripts of S
LEMMA PrefixedNames ==
    ASSUME NEW S, NEW N, S \subseteq Nat \X N, Cardinality(S) \in Nat, NEW o \in Orders(S)
    PROVE  Prefixed(o) \in [1 .. Cardinality(S) -> Nat \X N]
<1>1. \A i \in 1 .. Cardinality(S) : o[i] \in Nat \X N
  BY DEF Orders
<1>2. \A i \in 1 .. Cardinality(S) : <<i, o[i][2]>> \in Nat \X N
  BY <1>1
<1>3. DOMAIN o = 1 .. Cardinality(S)
  BY DEF Orders
<1> QED BY <1>2, <1>3 DEF Prefixed

\* moving the pages of a notebook to new names
LEMMA PagesNamedIsNotebook ==
    ASSUME NEW c, IsNotebook(c), NEW o \in Orders(FoldersOf(c)),
           NEW n \in [1 .. Cardinality(FoldersOf(c)) -> FolderNames]
    PROVE  IsNotebook(PagesNamed(c, o, n))
<1> DEFINE g == [p \in DOMAIN c |-> <<n[PlaceOf(p[1], o)], p[2]>>]
<1>1. \A p \in DOMAIN c : p[1] \in FoldersOf(c) /\ p[2] \in FileNames
  BY DEF IsNotebook, IsCollection, Paths, FoldersOf
<1>2. \A a \in FoldersOf(c) : PlaceOf(a, o) \in 1 .. Cardinality(FoldersOf(c))
  BY FoldersAreFinite, OrderNumbers
<1>3. \A a \in FoldersOf(c) : n[PlaceOf(a, o)] \in FolderNames
  BY <1>2
<1>4. \A p \in DOMAIN c : <<n[PlaceOf(p[1], o)], p[2]>> \in Paths
  BY <1>1, <1>3 DEF Paths
<1>5. g \in [DOMAIN c -> Paths]
  BY <1>4
<1>6. PagesNamed(c, o, n) = Relocated(c, g)
  BY DEF PagesNamed
<1> HIDE DEF g
<1> QED BY <1>5, <1>6, RelocatedIsNotebook
----------------------------------------------------------------------------
(* The steps.                                                                *)

LEMMA PersistsKeeps ==
    ASSUME Rest, NEW c, IsNotebook(c), NEW ts, Persists(c, ts)
    PROVE  Inv'
<1>1. displaced' \in BOOLEAN /\ overlapped' \in BOOLEAN
  BY ZenonT(30) DEF Persists, Rest
<1>2. actions' \in 0 .. MaxActions
  BY BoundsAssumption DEF Persists, Rest
<1>3. IsNotebook(shown')
  BY Zenon DEF Persists
<1> QED BY <1>1, <1>2, <1>3, Zenon DEF Inv, Rest, IsNotebook, IsCollection

LEMMA InitHasNotebook == Init => Inv
<1> SUFFICES ASSUME Init PROVE Inv
  OBVIOUS
<1>1. IsNotebook(shown)
  BY NotebooksAssumption DEF Init, IsNotebook
<1>2. actions \in 0 .. MaxActions
  BY BoundsAssumption DEF Init
<1>3. displaced \in BOOLEAN /\ overlapped \in BOOLEAN
  BY Zenon DEF Init
<1> QED BY <1>1, <1>2, <1>3, Zenon DEF Inv, Rest

LEMMA ScriptActionKeeps == Inv /\ ScriptAction => Inv'
<1> SUFFICES ASSUME Inv, ScriptAction PROVE Inv'
  OBVIOUS
<1> USE DEF Inv
<1>1. \A p \in DOMAIN shown : /\ p = <<p[1], p[2]>> /\ p \in Paths
                              /\ p[1] \in FolderNames /\ p[2] \in FileNames
                              /\ shown[p] \in Texts
  BY DEF IsNotebook, IsCollection, Paths
<1>2. ASSUME NEW p \in DOMAIN shown, NEW t \in Texts, SetScriptText(p, t) PROVE Inv'
  <2>1. IsNotebook(With(shown, p, t))
    BY <1>1, WithIsNotebook DEF IsNotebook
  <2> QED BY <1>2, <2>1, PersistsKeeps DEF SetScriptText
<1>3. ASSUME NEW f \in FoldersOf(shown), NEW n \in 1 .. MaxPrefix, NEW c \in ScriptNames,
             NEW t \in Texts, CreateScript(f, n, c, t)
      PROVE  Inv'
  <2>1. <<f, <<n, c>>>> \in Paths
    BY FoldersAreFinite, BoundsAssumption DEF Paths, FileNames
  <2>2. IsNotebook(With(shown, <<f, <<n, c>>>>, t))
    BY <2>1, WithIsNotebook DEF IsNotebook
  <2> QED BY <1>3, <2>2, PersistsKeeps DEF CreateScript
<1>4. ASSUME NEW p \in DOMAIN shown, DeleteScript(p) PROVE Inv'
  <2>1. CASE FilesOf(shown, p[1]) # {p[2]}
    <3>1. PICK s \in FilesOf(shown, p[1]) : s # p[2]
      BY <2>1 DEF FilesOf
    <3>2. ~(DOMAIN shown \subseteq {p})
      BY <3>1 DEF FilesOf
    <3>3. IsNotebook(Without(shown, {p}))
      BY <3>2, WithoutIsNotebook DEF IsNotebook
    <3> QED BY <1>4, <2>1, <3>3, PersistsKeeps DEF DeleteScript
  <2>2. CASE FilesOf(shown, p[1]) = {p[2]}
    <3>1. FoldersOf(shown) # {p[1]}
      BY <1>4, <2>2 DEF DeleteScript
    <3>2. ~(DOMAIN shown \subseteq InFolder(shown, p[1]))
      BY <3>1 DEF FoldersOf, InFolder
    <3>3. IsNotebook(Without(shown, InFolder(shown, p[1])))
      BY <3>2, WithoutIsNotebook DEF IsNotebook
    <3> QED BY <1>4, <2>2, <3>3, PersistsKeeps DEF DeleteScript
  <2> QED BY <2>1, <2>2
<1>5. ASSUME NEW p \in DOMAIN shown, NEW c \in ScriptNames, RenameScript(p, c) PROVE Inv'
  <2> DEFINE r == <<p[2][1], c>>
             without == Without(shown, {p})
  <2>1. <<p[1], r>> \in Paths
    BY <1>1 DEF Paths, FileNames
  <2>2. IsCollection(without) /\ IsFiniteSet(DOMAIN without)
    <3>1. DOMAIN without = DOMAIN shown \ {p}
      BY DEF Without
    <3>2. IsFiniteSet(DOMAIN shown \ {p})
      BY FS_RemoveElement DEF IsNotebook
    <3>3. IsCollection(without)
      BY DEF Without, IsNotebook, IsCollection
    <3> QED BY <3>1, <3>2, <3>3
  <2>3. IsNotebook(With(without, <<p[1], r>>, shown[p]))
    <3> HIDE DEF without, r
    <3> QED BY <1>1, <2>1, <2>2, WithIsNotebook
  <2>4. CASE r # p[2]
    BY <1>5, <2>3, <2>4, PersistsKeeps DEF RenameScript
  <2>5. CASE r = p[2]
    BY <1>5, <2>5, PersistsKeeps DEF RenameScript
  <2> QED BY <2>4, <2>5
<1>6. ASSUME NEW f \in FoldersOf(shown), NEW o \in Orders(FilesOf(shown, f)),
             ReorderScripts(f, o)
      PROVE  Inv'
  <2> DEFINE n == Prefixed(o)
             g == [p \in DOMAIN shown |->
                      IF p[1] = f THEN <<f, n[PlaceOf(p[2], o)]>> ELSE p]
  <2>1. n \in [1 .. Cardinality(FilesOf(shown, f)) -> FileNames]
    BY FilesAreFinite, PrefixedNames DEF FileNames
  <2>2. \A a \in FilesOf(shown, f) : PlaceOf(a, o) \in 1 .. Cardinality(FilesOf(shown, f))
    BY FilesAreFinite, OrderNumbers
  <2>3. f \in FolderNames
    BY FoldersAreFinite
  <2>4. \A p \in DOMAIN shown : p[1] = f => n[PlaceOf(p[2], o)] \in FileNames
    <3> HIDE DEF n
    <3> QED BY <2>1, <2>2 DEF FilesOf
  <2>5. g \in [DOMAIN shown -> Paths]
    <3> HIDE DEF n
    <3> QED BY <1>1, <2>3, <2>4 DEF Paths
  <2>6. IsNotebook(Relocated(shown, g))
    <3> HIDE DEF g
    <3> QED BY <2>5, RelocatedIsNotebook
  <2>7. PICK ts : Persists(Relocated(shown, g), ts)
    BY <1>6, Zenon DEF ReorderScripts
  <2> HIDE DEF g
  <2> QED BY <2>6, <2>7, PersistsKeeps
<1> QED BY <1>2, <1>3, <1>4, <1>5, <1>6 DEF ScriptAction

LEMMA FolderActionKeeps == Inv /\ FolderAction => Inv'
<1> SUFFICES ASSUME Inv, FolderAction PROVE Inv'
  OBVIOUS
<1> USE DEF Inv
<1> DEFINE S == FoldersOf(shown)
<1>1. S \subseteq FolderNames /\ Cardinality(S) \in Nat
  BY FoldersAreFinite
<1>2. \A o \in Orders(S) : /\ Prefixed(o) \in [1 .. Cardinality(S) -> FolderNames]
                           /\ DOMAIN o = 1 .. Cardinality(S)
  BY <1>1, PrefixedNames, OrderNumbers DEF FolderNames
<1>3. \A o \in Orders(S) : IsNotebook(PagesNamed(shown, o, Prefixed(o)))
  BY <1>2, PagesNamedIsNotebook
<1>4. ASSUME NEW o \in Orders(S), NEW c \in PageNames, NEW s \in ScriptNames,
             CreateScriptFolder(o, c, s)
      PROVE  Inv'
  <2> DEFINE named == PagesNamed(shown, o, Prefixed(o))
             f == <<Cardinality(S) + 1, c>>
             first == <<1, s>>
  <2>1. <<f, first>> \in Paths
    BY <1>1 DEF Paths, FolderNames, FileNames
  <2>2. IsNotebook(named)
    BY <1>3
  <2>3. IsNotebook(With(named, <<f, first>>, EmptyText))
    <3> HIDE DEF named, f, first
    <3> QED BY <2>1, <2>2, TextAssumption, WithIsNotebook DEF IsNotebook
  <2>4. PICK ts : Persists(With(named, <<f, first>>, EmptyText), ts)
    BY <1>4, Zenon DEF CreateScriptFolder
  <2> HIDE DEF named, f, first
  <2> QED BY <2>3, <2>4, PersistsKeeps
<1>5. ASSUME NEW f \in S, DeleteScriptFolder(f) PROVE Inv'
  <2>1. ~(DOMAIN shown \subseteq InFolder(shown, f))
    BY <1>5 DEF FoldersOf, InFolder, DeleteScriptFolder
  <2>2. IsNotebook(Without(shown, InFolder(shown, f)))
    BY <2>1, WithoutIsNotebook DEF IsNotebook
  <2> QED BY <1>5, <2>2, PersistsKeeps DEF DeleteScriptFolder
<1>6. ASSUME NEW o \in Orders(S), NEW c \in PageNames, NEW i \in DOMAIN o,
             RenameScriptFolder(o, i, c)
      PROVE  Inv'
  <2> DEFINE n == [Prefixed(o) EXCEPT ![i] = <<i, c>>]
  <2>1. <<i, c>> \in FolderNames
    BY <1>1, <1>2 DEF FolderNames
  <2>2. n \in [1 .. Cardinality(S) -> FolderNames]
    BY <1>2, <2>1
  <2>3. IsNotebook(PagesNamed(shown, o, n))
    <3> HIDE DEF n
    <3> QED BY <2>2, PagesNamedIsNotebook
  <2>4. PICK ts : Persists(PagesNamed(shown, o, n), ts)
    BY <1>6, Zenon DEF RenameScriptFolder
  <2> HIDE DEF n
  <2> QED BY <2>3, <2>4, PersistsKeeps
<1>7. ASSUME NEW o \in Orders(S), ReorderScriptFolders(o) PROVE Inv'
  <2>1. PICK ts : Persists(PagesNamed(shown, o, Prefixed(o)), ts)
    BY <1>7, Zenon DEF ReorderScriptFolders
  <2> QED BY <1>3, <2>1, PersistsKeeps
<1> QED BY <1>4, <1>5, <1>6, <1>7 DEF FolderAction

LEMMA OtherStepKeeps == Inv /\ (TaskAction \/ UNCHANGED vars) => Inv'
<1> SUFFICES ASSUME Inv, TaskAction \/ UNCHANGED vars PROVE Inv'
  OBVIOUS
<1>1. shown' = shown /\ displaced' = displaced /\ actions' = actions
  BY DEF TaskAction, TaskStarts, TaskEnds, vars
<1>2. overlapped' \in BOOLEAN
  BY ZenonT(30) DEF Inv, Rest, TaskAction, TaskStarts, TaskEnds, vars
<1> QED BY <1>1, <1>2, Zenon DEF Inv, Rest, IsNotebook, IsCollection

LEMMA NotebookInvariant == Spec => []Inv
<1>1. Inv /\ [Next]_vars => Inv'
  BY ScriptActionKeeps, FolderActionKeeps, OtherStepKeeps, Zenon DEF Next
<1> QED BY InitHasNotebook, <1>1, PTL DEF Spec
----------------------------------------------------------------------------
(* Disks and the tasks that are performed on them.  A task changes only the  *)
(* paths of its region, and what it makes of them depends only on them.      *)

IsDisk(d) == d = [files |-> d.files, folders |-> d.folders] /\ IsCollection(d.files)

\* what is at the path p: the set of its text, or nothing
Content(d, p) == IF p \in DOMAIN d.files THEN {d.files[p]} ELSE {}

\* tasks as the reducer makes them
IsTask(t) ==
    /\ t \in Task
    /\ t.kind \in {"write", "create", "delete", "rename"} => t.file \in FileNames
    /\ t.kind = "rename" => t.to \in FileNames /\ t.to # t.file
    /\ t.kind = "move" => t.to \in FolderNames /\ t.to # t.folder

Region(t) ==
    {p \in Paths : /\ p[1] \in TouchedFolders(t)
                   /\ WholeFolder(t) \/ p[2] \in TouchedFiles(t)}

\* the folder of the task t is renamed
Moves(d, t) == t.kind = "move" /\ t.folder \in d.folders /\ FolderIsFree(d, t.to)

LEMMA SameDisk ==
    ASSUME NEW d, NEW e, IsDisk(d), IsDisk(e), d.folders = e.folders,
           \A p \in Paths : Content(d, p) = Content(e, p)
    PROVE  d = e
<1>1. \A p \in Paths : p \in DOMAIN d.files <=> p \in DOMAIN e.files
  BY DEF Content
<1>2. DOMAIN d.files = DOMAIN e.files
  BY <1>1 DEF IsDisk, IsCollection
<1>3. \A p \in DOMAIN d.files : d.files[p] = e.files[p]
  BY <1>2 DEF Content, IsDisk, IsCollection
<1>4. d.files = e.files
  BY <1>2, <1>3 DEF IsDisk, IsCollection
<1> QED BY <1>4 DEF IsDisk

LEMMA FreeFolder ==
    ASSUME NEW d, IsDisk(d), NEW f
    PROVE  FolderIsFree(d, f) <=> \A p \in Paths : p[1] = f => Content(d, p) = {}
BY DEF FolderIsFree, InFolder, Content, IsDisk, IsCollection

LEMMA WritePerformed ==
    ASSUME NEW d, IsDisk(d), NEW t, IsTask(t), t.kind \in {"write", "create"}
    PROVE  /\ IsDisk(Performed(d, t))
           /\ Performed(d, t).folders = d.folders \cup {t.folder}
           /\ \A p \in Paths : Content(Performed(d, t), p) =
                   IF p = <<t.folder, t.file>> THEN {t.text} ELSE Content(d, p)
<1> DEFINE p == <<t.folder, t.file>>
           w == With(d.files, p, t.text)
<1>1. Ensured(d, t) = [files |-> d.files, folders |-> d.folders \cup {t.folder}]
  BY DEF Ensured, IsDisk
<1>2. Performed(d, t) = [files |-> w, folders |-> d.folders \cup {t.folder}]
  <2> DEFINE e == [files |-> d.files, folders |-> d.folders \cup {t.folder}]
  <2>1. Executed(e, t) = [e EXCEPT !.files = With(@, p, t.text)]
    BY DEF Executed
  <2> QED BY <1>1, <2>1 DEF Performed
<1>3. p \in Paths /\ t.text \in Texts
  BY DEF IsTask, Task, Paths
<1>4. IsCollection(w)
  BY <1>3 DEF IsDisk, IsCollection, With
<1>5. DOMAIN w = DOMAIN d.files \cup {p} /\ \A q \in DOMAIN w : w[q] = IF q = p THEN t.text ELSE d.files[q]
  BY DEF With
<1> HIDE DEF w, p
<1>6. Performed(d, t).files = w /\ Performed(d, t).folders = d.folders \cup {t.folder}
  BY <1>2
<1>7. IsDisk(Performed(d, t))
  BY <1>2, <1>4, <1>6 DEF IsDisk
<1>8. \A q \in Paths : Content(Performed(d, t), q) = IF q = p THEN {t.text} ELSE Content(d, q)
  BY <1>5, <1>6 DEF Content
<1> QED BY <1>6, <1>7, <1>8 DEF p

LEMMA DeletePerformed ==
    ASSUME NEW d, IsDisk(d), NEW t, IsTask(t), t.kind = "delete"
    PROVE  /\ IsDisk(Performed(d, t))
           /\ Performed(d, t).folders = d.folders
           /\ \A p \in Paths : Content(Performed(d, t), p) =
                   IF p = <<t.folder, t.file>> THEN {} ELSE Content(d, p)
<1> DEFINE p == <<t.folder, t.file>>
           w == Without(d.files, {p})
<1>1. Performed(d, t) = [files |-> w, folders |-> d.folders]
  BY DEF Performed, Executed, Ensured, IsDisk
<1>2. IsCollection(w)
  BY DEF IsDisk, IsCollection, Without
<1>3. DOMAIN w = DOMAIN d.files \ {p} /\ \A q \in DOMAIN w : w[q] = d.files[q]
  BY DEF Without
<1> HIDE DEF w
<1> QED BY <1>1, <1>2, <1>3 DEF IsDisk, Content

LEMMA RenamePerformed ==
    ASSUME NEW d, IsDisk(d), NEW t, IsTask(t), t.kind = "rename"
    PROVE  /\ IsDisk(Performed(d, t))
           /\ Performed(d, t).folders = d.folders
           /\ Content(d, <<t.folder, t.file>>) = {} => Performed(d, t) = d
           /\ Content(d, <<t.folder, t.file>>) # {} =>
                 \A p \in Paths : Content(Performed(d, t), p) =
                     IF p = <<t.folder, t.to>> THEN Content(d, <<t.folder, t.file>>)
                     ELSE IF p = <<t.folder, t.file>> THEN {} ELSE Content(d, p)
<1> DEFINE p == <<t.folder, t.file>>
           r == <<t.folder, t.to>>
           v == Without(d.files, {p})
           w == With(v, r, d.files[p])
<1>1. Ensured(d, t) = d
  BY DEF Ensured
<1>2. CASE p \notin DOMAIN d.files
  <2>1. Performed(d, t) = d
    BY <1>1, <1>2 DEF Performed, Executed
  <2>2. Content(d, p) = {}
    BY <1>2 DEF Content
  <2> QED BY <2>1, <2>2
<1>3. CASE p \in DOMAIN d.files
  <2>1. Performed(d, t) = [files |-> w, folders |-> d.folders]
    BY <1>1, <1>3 DEF Performed, Executed, IsDisk
  <2>2. r \in Paths /\ p # r
    BY DEF IsTask, Task, Paths
  <2>3. IsCollection(v)
    BY DEF IsDisk, IsCollection, Without
  <2>4. DOMAIN v = DOMAIN d.files \ {p} /\ \A q \in DOMAIN v : v[q] = d.files[q]
    BY DEF Without
  <2>5. d.files[p] \in Texts
    BY <1>3 DEF IsDisk, IsCollection
  <2>6. DOMAIN w = DOMAIN v \cup {r} /\ \A q \in DOMAIN w : w[q] = IF q = r THEN d.files[p] ELSE v[q]
    BY DEF With
  <2>7. IsCollection(w)
    <3> HIDE DEF v
    <3> QED BY <2>2, <2>3, <2>5 DEF IsCollection, With
  <2> HIDE DEF v, w, p, r
  <2>8. Performed(d, t).files = w /\ Performed(d, t).folders = d.folders
    BY <2>1
  <2>9. IsDisk(Performed(d, t))
    BY <2>1, <2>7, <2>8 DEF IsDisk
  <2>10. Content(d, p) = {d.files[p]}
    BY <1>3 DEF Content
  <2>11. \A q \in Paths : Content(Performed(d, t), q) =
             IF q = r THEN Content(d, p) ELSE IF q = p THEN {} ELSE Content(d, q)
    BY <2>2, <2>4, <2>6, <2>8, <2>10 DEF Content
  <2> QED BY <2>8, <2>9, <2>10, <2>11 DEF p, r
<1> QED BY <1>2, <1>3

LEMMA RemovePerformed ==
    ASSUME NEW d, IsDisk(d), NEW t, IsTask(t), t.kind = "remove"
    PROVE  /\ IsDisk(Performed(d, t))
           /\ Performed(d, t).folders = d.folders \ {t.folder}
           /\ \A p \in Paths : Content(Performed(d, t), p) =
                   IF p[1] = t.folder THEN {} ELSE Content(d, p)
<1> DEFINE w == Without(d.files, InFolder(d.files, t.folder))
<1>1. Performed(d, t) = [files |-> w, folders |-> d.folders \ {t.folder}]
  BY DEF Performed, Executed, Ensured, IsDisk
<1>2. IsCollection(w)
  BY DEF IsDisk, IsCollection, Without
<1>3. /\ DOMAIN w = {q \in DOMAIN d.files : q[1] # t.folder}
      /\ \A q \in DOMAIN w : w[q] = d.files[q]
  BY DEF Without, InFolder
<1> HIDE DEF w
<1> QED BY <1>1, <1>2, <1>3 DEF IsDisk, Content

\* a collection whose paths move apart
LEMMA RelocatedApart ==
    ASSUME NEW c, IsCollection(c), NEW g \in [DOMAIN c -> Paths],
           \A p, q \in DOMAIN c : g[p] = g[q] => p = q
    PROVE  /\ IsCollection(Relocated(c, g))
           /\ DOMAIN Relocated(c, g) = {g[p] : p \in DOMAIN c}
           /\ \A p \in DOMAIN c : Relocated(c, g)[g[p]] = c[p]
<1> DEFINE D == {g[p] : p \in DOMAIN c}
           Old(q) == CHOOSE p \in DOMAIN c : g[p] = q
<1>1. Relocated(c, g) = [q \in D |-> c[Old(q)]]
  BY DEF Relocated
<1>2. \A p \in DOMAIN c : g[p] \in D /\ Old(g[p]) \in DOMAIN c /\ g[Old(g[p])] = g[p]
  OBVIOUS
<1>3. \A p \in DOMAIN c : Old(g[p]) = p
  BY <1>2
<1>4. \A q \in D : q \in Paths /\ c[Old(q)] \in Texts
  BY <1>3 DEF IsCollection
<1> HIDE DEF Old
<1> QED BY <1>1, <1>2, <1>3, <1>4 DEF IsCollection

LEMMA MovePerformed ==
    ASSUME NEW d, IsDisk(d), NEW t, IsTask(t), t.kind = "move"
    PROVE  /\ IsDisk(Performed(d, t))
           /\ ~Moves(d, t) => Performed(d, t) = d
           /\ Moves(d, t) =>
                 /\ Performed(d, t).folders = (d.folders \ {t.folder}) \cup {t.to}
                 /\ \A p \in Paths : Content(Performed(d, t), p) =
                        IF p[1] = t.to THEN Content(d, <<t.folder, p[2]>>)
                        ELSE IF p[1] = t.folder THEN {} ELSE Content(d, p)
<1>1. Ensured(d, t) = d
  BY DEF Ensured
<1>2. CASE ~Moves(d, t)
  <2>1. Performed(d, t) = d
    BY <1>1, <1>2 DEF Performed, Executed, Moves
  <2> QED BY <2>1, <1>2
<1>3. CASE Moves(d, t)
  <2> DEFINE g == [q \in DOMAIN d.files |->
                      <<IF q[1] = t.folder THEN t.to ELSE q[1], q[2]>>]
             w == Relocated(d.files, g)
  <2>1. Performed(d, t) = [files |-> w, folders |-> (d.folders \ {t.folder}) \cup {t.to}]
    BY <1>1, <1>3 DEF Performed, Executed, Moves
  <2>2. \A q \in DOMAIN d.files : /\ q \in Paths /\ q = <<q[1], q[2]>>
                                  /\ q[1] \in FolderNames /\ q[2] \in FileNames /\ q[1] # t.to
    BY <1>3 DEF IsDisk, IsCollection, Paths, Moves, FolderIsFree, InFolder
  <2>3. t.to \in FolderNames /\ t.folder \in FolderNames /\ t.to # t.folder
    BY DEF IsTask, Task
  <2>4. g \in [DOMAIN d.files -> Paths]
    BY <2>2, <2>3 DEF Paths
  <2>5. \A p, q \in DOMAIN d.files : g[p] = g[q] => p = q
    BY <2>2
  <2>6. /\ IsCollection(w)
        /\ DOMAIN w = {g[p] : p \in DOMAIN d.files}
        /\ \A p \in DOMAIN d.files : w[g[p]] = d.files[p]
    <3> HIDE DEF g
    <3> QED BY <2>4, <2>5, RelocatedApart DEF IsDisk
  <2>7. ASSUME NEW p \in Paths
        PROVE  Content(Performed(d, t), p) =
                   IF p[1] = t.to THEN Content(d, <<t.folder, p[2]>>)
                   ELSE IF p[1] = t.folder THEN {} ELSE Content(d, p)
    <3>1. p = <<p[1], p[2]>>
      BY DEF Paths
    <3>2. Performed(d, t).files = w
      BY <2>1
    <3>3. CASE p[1] = t.to
      <4>1. CASE <<t.folder, p[2]>> \in DOMAIN d.files
        <5>1. g[<<t.folder, p[2]>>] = p
          BY <3>1, <3>3, <4>1
        <5> HIDE DEF g, w
        <5> QED BY <2>6, <3>2, <3>3, <4>1, <5>1 DEF Content
      <4>2. CASE <<t.folder, p[2]>> \notin DOMAIN d.files
        <5>1. p \notin DOMAIN w
          <6>1. SUFFICES ASSUME NEW q \in DOMAIN d.files, g[q] = p PROVE FALSE
            BY <2>6
          <6>2. q[1] = t.folder /\ q[2] = p[2]
            BY <2>2, <3>1, <3>3, <6>1
          <6> QED BY <2>2, <4>2, <6>2
        <5> HIDE DEF g, w
        <5> QED BY <3>2, <3>3, <4>2, <5>1 DEF Content
      <4> QED BY <4>1, <4>2
    <3>4. CASE p[1] # t.to /\ p[1] = t.folder
      <4>1. p \notin DOMAIN w
        <5>1. SUFFICES ASSUME NEW q \in DOMAIN d.files, g[q] = p PROVE FALSE
          BY <2>6
        <5> QED BY <2>2, <2>3, <3>1, <3>4, <5>1
      <4> HIDE DEF w
      <4> QED BY <3>2, <3>4, <4>1 DEF Content
    <3>5. CASE p[1] # t.to /\ p[1] # t.folder
      <4>1. CASE p \in DOMAIN d.files
        <5>1. g[p] = p
          BY <3>1, <3>5, <4>1
        <5> HIDE DEF g, w
        <5> QED BY <2>6, <3>2, <3>5, <4>1, <5>1 DEF Content
      <4>2. CASE p \notin DOMAIN d.files
        <5>1. p \notin DOMAIN w
          <6>1. SUFFICES ASSUME NEW q \in DOMAIN d.files, g[q] = p PROVE FALSE
            BY <2>6
          <6> QED BY <2>2, <3>1, <3>5, <4>2, <6>1
        <5> HIDE DEF w
        <5> QED BY <3>2, <3>5, <4>2, <5>1 DEF Content
      <4> QED BY <4>1, <4>2
    <3> QED BY <3>3, <3>4, <3>5
  <2>8. IsDisk(Performed(d, t))
    <3> HIDE DEF w
    <3> QED BY <2>1, <2>6 DEF IsDisk
  <2> QED BY <1>3, <2>1, <2>7, <2>8
<1> QED BY <1>2, <1>3

LEMMA PerformedIsDisk ==
    ASSUME NEW d, IsDisk(d), NEW t, IsTask(t)
    PROVE  IsDisk(Performed(d, t))
<1>1. t.kind \in Kinds
  BY DEF IsTask, Task
<1> QED BY <1>1, WritePerformed, DeletePerformed, RenamePerformed, RemovePerformed, MovePerformed
        DEF Kinds


LEMMA OutsideRegion ==
    ASSUME NEW d, IsDisk(d), NEW t, IsTask(t), NEW p \in Paths, p \notin Region(t)
    PROVE  Content(Performed(d, t), p) = Content(d, p)
<1>1. t.kind \in Kinds
  BY DEF IsTask, Task
<1>2. CASE t.kind \in {"write", "create"}
  BY <1>2, WritePerformed DEF Region, TouchedFolders, TouchedFiles
<1>3. CASE t.kind = "delete"
  BY <1>3, DeletePerformed DEF Region, TouchedFolders, TouchedFiles
<1>4. CASE t.kind = "rename"
  <2>1. p # <<t.folder, t.file>> /\ p # <<t.folder, t.to>>
    BY <1>4 DEF Region, TouchedFolders, TouchedFiles
  <2> QED BY <1>4, <2>1, RenamePerformed
<1>5. CASE t.kind = "remove"
  BY <1>5, RemovePerformed DEF Region, TouchedFolders, WholeFolder
<1>6. CASE t.kind = "move"
  <2>1. p[1] # t.folder /\ p[1] # t.to
    BY <1>6 DEF Region, TouchedFolders, WholeFolder
  <2> QED BY <1>6, <2>1, MovePerformed
<1> QED BY <1>1, <1>2, <1>3, <1>4, <1>5, <1>6 DEF Kinds

\* the disks d and e look the same to the task t
Agree(d, e, t) ==
    /\ \A p \in Region(t) : Content(d, p) = Content(e, p)
    /\ t.kind = "move" => (t.folder \in d.folders <=> t.folder \in e.folders)

LEMMA MovesAlike ==
    ASSUME NEW d, IsDisk(d), NEW e, IsDisk(e), NEW t, IsTask(t), Agree(d, e, t)
    PROVE  Moves(d, t) <=> Moves(e, t)
<1>1. CASE t.kind = "move"
  <2>1. \A p \in Paths : p[1] = t.to => p \in Region(t)
    BY <1>1 DEF Region, TouchedFolders, WholeFolder
  <2>2. FolderIsFree(d, t.to) <=> FolderIsFree(e, t.to)
    BY <2>1, FreeFolder DEF Agree
  <2> QED BY <1>1, <2>2 DEF Moves, Agree
<1> QED BY <1>1 DEF Moves

LEMMA InsideRegion ==
    ASSUME NEW d, IsDisk(d), NEW e, IsDisk(e), NEW t, IsTask(t), Agree(d, e, t),
           NEW p \in Region(t)
    PROVE  Content(Performed(d, t), p) = Content(Performed(e, t), p)
<1>1. t.kind \in Kinds /\ p \in Paths /\ Content(d, p) = Content(e, p)
  BY DEF IsTask, Task, Region, Agree
<1>2. CASE t.kind \in {"write", "create"}
  <2>1. \A c \in {d, e} : Content(Performed(c, t), p) =
             IF p = <<t.folder, t.file>> THEN {t.text} ELSE Content(c, p)
    BY <1>1, <1>2, WritePerformed
  <2> QED BY <1>1, <2>1
<1>3. CASE t.kind = "delete"
  <2>1. \A c \in {d, e} : Content(Performed(c, t), p) =
             IF p = <<t.folder, t.file>> THEN {} ELSE Content(c, p)
    BY <1>1, <1>3, DeletePerformed
  <2> QED BY <1>1, <2>1
<1>4. CASE t.kind = "rename"
  <2>1. <<t.folder, t.file>> \in Region(t)
    BY <1>4 DEF IsTask, Task, Paths, Region, TouchedFolders, TouchedFiles
  <2>2. Content(d, <<t.folder, t.file>>) = Content(e, <<t.folder, t.file>>)
    BY <2>1 DEF Agree
  <2>3. \A c \in {d, e} :
             /\ Content(c, <<t.folder, t.file>>) = {} => Content(Performed(c, t), p) = Content(c, p)
             /\ Content(c, <<t.folder, t.file>>) # {} =>
                   Content(Performed(c, t), p) =
                     IF p = <<t.folder, t.to>> THEN Content(c, <<t.folder, t.file>>)
                     ELSE IF p = <<t.folder, t.file>> THEN {} ELSE Content(c, p)
    BY <1>1, <1>4, RenamePerformed
  <2> QED BY <1>1, <2>2, <2>3
<1>5. CASE t.kind = "remove"
  <2>1. \A c \in {d, e} : Content(Performed(c, t), p) =
             IF p[1] = t.folder THEN {} ELSE Content(c, p)
    BY <1>1, <1>5, RemovePerformed
  <2> QED BY <1>1, <2>1
<1>6. CASE t.kind = "move"
  <2>1. <<t.folder, p[2]>> \in Region(t)
    BY <1>1, <1>6 DEF IsTask, Task, Paths, Region, TouchedFolders, WholeFolder
  <2>2. Content(d, <<t.folder, p[2]>>) = Content(e, <<t.folder, p[2]>>)
    BY <2>1 DEF Agree
  <2>3. \A c \in {d, e} :
             /\ ~Moves(c, t) => Content(Performed(c, t), p) = Content(c, p)
             /\ Moves(c, t) => Content(Performed(c, t), p) =
                    IF p[1] = t.to THEN Content(c, <<t.folder, p[2]>>)
                    ELSE IF p[1] = t.folder THEN {} ELSE Content(c, p)
    BY <1>1, <1>6, MovePerformed
  <2>4. Moves(d, t) <=> Moves(e, t)
    BY MovesAlike
  <2> QED BY <1>1, <2>2, <2>3, <2>4
<1> QED BY <1>1, <1>2, <1>3, <1>4, <1>5, <1>6 DEF Kinds

\* the folders that the task t adds to the disk d and those it drops
Adds(d, t) ==
    IF t.kind \in {"write", "create"} THEN {t.folder} ELSE IF Moves(d, t) THEN {t.to} ELSE {}
Drops(d, t) == IF t.kind = "remove" \/ Moves(d, t) THEN {t.folder} ELSE {}

LEMMA FoldersPerformed ==
    ASSUME NEW d, IsDisk(d), NEW t, IsTask(t)
    PROVE  /\ Performed(d, t).folders = (d.folders \ Drops(d, t)) \cup Adds(d, t)
           /\ Adds(d, t) \subseteq TouchedFolders(t) /\ Drops(d, t) \subseteq TouchedFolders(t)
           /\ ~WholeFolder(t) => Drops(d, t) = {}
<1>1. t.kind \in Kinds
  BY DEF IsTask, Task
<1>2. CASE t.kind \in {"write", "create"}
  BY <1>2, WritePerformed DEF Adds, Drops, Moves, TouchedFolders
<1>3. CASE t.kind = "delete"
  BY <1>3, DeletePerformed DEF Adds, Drops, Moves
<1>4. CASE t.kind = "rename"
  <2>1. Performed(d, t).folders = d.folders
    BY <1>4, RenamePerformed
  <2> QED BY <1>4, <2>1 DEF Adds, Drops, Moves
<1>5. CASE t.kind = "remove"
  BY <1>5, RemovePerformed DEF Adds, Drops, Moves, TouchedFolders, WholeFolder
<1>6. CASE t.kind = "move"
  <2>1. CASE Moves(d, t)
    BY <1>6, <2>1, MovePerformed DEF Adds, Drops, TouchedFolders, WholeFolder
  <2>2. CASE ~Moves(d, t)
    BY <1>6, <2>2, MovePerformed DEF Adds, Drops
  <2> QED BY <2>1, <2>2
<1> QED BY <1>1, <1>2, <1>3, <1>4, <1>5, <1>6 DEF Kinds

LEMMA ConflictIsMutual == ASSUME NEW t, NEW u PROVE Conflict(t, u) <=> Conflict(u, t)
BY DEF Conflict

LEMMA RegionsApart ==
    ASSUME NEW t, NEW u, ~Conflict(t, u)
    PROVE  /\ \A p \in Region(t) : p \notin Region(u)
           /\ WholeFolder(t) \/ WholeFolder(u) => TouchedFolders(t) \cap TouchedFolders(u) = {}
BY DEF Conflict, Region

\* a task looks the same to another one that does not change a common file
LEMMA AgreesAfter ==
    ASSUME NEW d, IsDisk(d), NEW t, IsTask(t), NEW u, IsTask(u), ~Conflict(t, u)
    PROVE  Agree(d, Performed(d, u), t)
<1>1. \A p \in Region(t) : Content(d, p) = Content(Performed(d, u), p)
  BY RegionsApart, OutsideRegion DEF Region
<1>2. t.kind = "move" => (t.folder \in d.folders <=> t.folder \in Performed(d, u).folders)
  BY RegionsApart, FoldersPerformed DEF TouchedFolders, WholeFolder
<1> QED BY <1>1, <1>2 DEF Agree

\* tasks that change no common file may be performed in either order
LEMMA TasksCommute ==
    ASSUME NEW d, IsDisk(d), NEW t, IsTask(t), NEW u, IsTask(u), ~Conflict(t, u)
    PROVE  Performed(Performed(d, t), u) = Performed(Performed(d, u), t)
<1> DEFINE dt == Performed(d, t)
           du == Performed(d, u)
<1>1. IsDisk(dt) /\ IsDisk(du) /\ IsDisk(Performed(dt, u)) /\ IsDisk(Performed(du, t))
  BY PerformedIsDisk
<1>2. ~Conflict(u, t)
  BY ConflictIsMutual
<1>3. Agree(d, du, t) /\ Agree(d, dt, u)
  BY <1>2, AgreesAfter
<1>4. ASSUME NEW p \in Paths
      PROVE  Content(Performed(dt, u), p) = Content(Performed(du, t), p)
  <2> HIDE DEF dt, du
  <2>1. CASE p \in Region(t)
    <3>1. Content(Performed(dt, u), p) = Content(dt, p)
      BY <1>1, <2>1, RegionsApart, OutsideRegion
    <3>2. Content(Performed(du, t), p) = Content(dt, p)
      BY <1>1, <1>3, <2>1, InsideRegion DEF dt
    <3> QED BY <3>1, <3>2
  <2>2. CASE p \in Region(u)
    <3>1. Content(Performed(du, t), p) = Content(du, p)
      BY <1>1, <1>2, <2>2, RegionsApart, OutsideRegion
    <3>2. Content(Performed(dt, u), p) = Content(du, p)
      BY <1>1, <1>3, <2>2, InsideRegion DEF du
    <3> QED BY <3>1, <3>2
  <2>3. CASE p \notin Region(t) /\ p \notin Region(u)
    <3>1. Content(Performed(dt, u), p) = Content(dt, p) /\ Content(Performed(du, t), p) = Content(du, p)
      BY <1>1, <2>3, OutsideRegion
    <3>2. Content(dt, p) = Content(d, p) /\ Content(du, p) = Content(d, p)
      BY <2>3, OutsideRegion DEF dt, du
    <3> QED BY <3>1, <3>2
  <2> QED BY <2>1, <2>2, <2>3
<1>5. Performed(dt, u).folders = Performed(du, t).folders
  <2>1. (Moves(d, t) <=> Moves(du, t)) /\ (Moves(d, u) <=> Moves(dt, u))
    BY <1>1, <1>3, MovesAlike
  <2>2. /\ Adds(d, t) = Adds(du, t) /\ Drops(d, t) = Drops(du, t)
        /\ Adds(d, u) = Adds(dt, u) /\ Drops(d, u) = Drops(dt, u)
    BY <2>1 DEF Adds, Drops
  <2>3. /\ dt.folders = (d.folders \ Drops(d, t)) \cup Adds(d, t)
        /\ du.folders = (d.folders \ Drops(d, u)) \cup Adds(d, u)
    BY FoldersPerformed
  <2>4. /\ Performed(dt, u).folders = (dt.folders \ Drops(d, u)) \cup Adds(d, u)
        /\ Performed(du, t).folders = (du.folders \ Drops(d, t)) \cup Adds(d, t)
    BY <1>1, <2>2, FoldersPerformed
  <2>5. Adds(d, t) \cap Drops(d, u) = {} /\ Adds(d, u) \cap Drops(d, t) = {}
    BY RegionsApart, FoldersPerformed
  <2> HIDE DEF dt, du
  <2> QED BY <2>3, <2>4, <2>5
<1> QED BY <1>1, <1>4, <1>5, SameDisk
----------------------------------------------------------------------------
(* Tasks that change no common file, performed together.                     *)

AreApart(T) ==
    /\ \A t \in T : IsTask(t)
    /\ \A t, u \in T : t # u => ~Conflict(t, u)

AllAdds(d, T) == UNION {Adds(d, t) : t \in T}
AllDrops(d, T) == UNION {Drops(d, t) : t \in T}

ContentTogether(d, T, p) ==
    IF \E t \in T : p \in Region(t)
    THEN Content(Performed(d, CHOOSE t \in T : p \in Region(t)), p)
    ELSE Content(d, p)

Together(d, T) ==
    [files |-> [p \in {q \in Paths : ContentTogether(d, T, q) # {}} |->
                   CHOOSE x : x \in ContentTogether(d, T, p)],
     folders |-> (d.folders \ AllDrops(d, T)) \cup AllAdds(d, T)]

LEMMA TogetherIsDisk ==
    ASSUME NEW d, IsDisk(d), NEW T, AreApart(T)
    PROVE  /\ IsDisk(Together(d, T))
           /\ \A t \in T : \A p \in Region(t) :
                  Content(Together(d, T), p) = Content(Performed(d, t), p)
           /\ \A p \in Paths : (\A t \in T : p \notin Region(t)) =>
                  Content(Together(d, T), p) = Content(d, p)
           /\ Together(d, T).folders = (d.folders \ AllDrops(d, T)) \cup AllAdds(d, T)
<1> DEFINE e == Together(d, T)
           C(p) == ContentTogether(d, T, p)
           f == [p \in {q \in Paths : C(q) # {}} |-> CHOOSE x : x \in C(p)]
<1>1. e = [files |-> f, folders |-> (d.folders \ AllDrops(d, T)) \cup AllAdds(d, T)]
  BY DEF Together
<1>2. \A t \in T : IsDisk(Performed(d, t))
  BY PerformedIsDisk DEF AreApart
<1>3. \A t \in T : \A p \in Region(t) : C(p) = Content(Performed(d, t), p)
  <2>1. SUFFICES ASSUME NEW t \in T, NEW p \in Region(t)
                 PROVE  (CHOOSE u \in T : p \in Region(u)) = t
    BY DEF ContentTogether
  <2>2. \A u \in T : p \in Region(u) => u = t
    BY RegionsApart DEF AreApart
  <2> QED BY <2>2
<1>4. \A p \in Paths : (\A t \in T : p \notin Region(t)) => C(p) = Content(d, p)
  BY DEF ContentTogether
<1>5. ASSUME NEW p \in Paths
      PROVE  C(p) = {} \/ \E x \in Texts : C(p) = {x}
  <2>1. CASE \A t \in T : p \notin Region(t)
    BY <1>4, <2>1 DEF Content, IsDisk, IsCollection
  <2>2. CASE \E t \in T : p \in Region(t)
    <3>1. PICK t \in T : p \in Region(t)
      BY <2>2
    <3>2. C(p) = Content(Performed(d, t), p)
      BY <1>3, <3>1
    <3> QED BY <1>2, <3>2 DEF Content, IsDisk, IsCollection
  <2> QED BY <2>1, <2>2
<1> HIDE DEF C
<1>6. e.files = f /\ e.folders = (d.folders \ AllDrops(d, T)) \cup AllAdds(d, T)
  BY <1>1
<1>7. \A p \in Paths : C(p) # {} => f[p] \in Texts /\ C(p) = {f[p]}
  <2>1. SUFFICES ASSUME NEW p \in Paths, C(p) # {} PROVE f[p] \in Texts /\ C(p) = {f[p]}
    OBVIOUS
  <2>2. PICK x \in Texts : C(p) = {x}
    BY <1>5, <2>1
  <2>3. f[p] \in C(p)
    BY <2>1, <2>2
  <2> QED BY <2>2, <2>3
<1>8. DOMAIN f = {q \in Paths : C(q) # {}}
  OBVIOUS
<1>9. IsCollection(f)
  BY <1>7, <1>8 DEF IsCollection
<1> HIDE DEF f
<1>10. \A p \in Paths : Content(e, p) = C(p)
  BY <1>6, <1>7, <1>8 DEF Content
<1>11. IsDisk(e)
  BY <1>1, <1>6, <1>9 DEF IsDisk
<1> HIDE DEF e
<1>12. \A t \in T : \A p \in Region(t) : Content(e, p) = Content(Performed(d, t), p)
  BY <1>3, <1>10 DEF Region
<1>13. \A p \in Paths : (\A t \in T : p \notin Region(t)) => Content(e, p) = Content(d, p)
  BY <1>4, <1>10
<1> QED BY <1>6, <1>11, <1>12, <1>13 DEF e

LEMMA TogetherNone == ASSUME NEW d, IsDisk(d) PROVE Together(d, {}) = d
<1>1. AreApart({}) /\ AllAdds(d, {}) = {} /\ AllDrops(d, {}) = {}
  BY DEF AreApart, AllAdds, AllDrops
<1>2. Together(d, {}).folders = d.folders
  BY <1>1, TogetherIsDisk, ZenonT(60)
<1>3. IsDisk(Together(d, {})) /\ \A p \in Paths : Content(Together(d, {}), p) = Content(d, p)
  BY <1>1, TogetherIsDisk
<1> QED BY <1>2, <1>3, SameDisk

\* the folders that tasks apart from u add and drop do not matter to u
LEMMA FoldersApart ==
    ASSUME NEW d, IsDisk(d), NEW T, AreApart(T), NEW u, IsTask(u), \A t \in T : ~Conflict(t, u)
    PROVE  /\ AllAdds(d, T) \cap Drops(d, u) = {} /\ Adds(d, u) \cap AllDrops(d, T) = {}
           /\ u.kind = "move" => (u.folder \in Together(d, T).folders <=> u.folder \in d.folders)
<1>1. \A t \in T : Adds(d, t) \cap Drops(d, u) = {} /\ Adds(d, u) \cap Drops(d, t) = {}
  BY RegionsApart, FoldersPerformed DEF AreApart
<1>2. ASSUME u.kind = "move"
      PROVE  u.folder \notin AllAdds(d, T) /\ u.folder \notin AllDrops(d, T)
  <2>1. \A t \in T : u.folder \notin TouchedFolders(t)
    BY <1>2, RegionsApart DEF TouchedFolders, WholeFolder
  <2> QED BY <2>1, FoldersPerformed DEF AllAdds, AllDrops, AreApart
<1>3. u.kind = "move" => (u.folder \in Together(d, T).folders <=> u.folder \in d.folders)
  BY <1>2, TogetherIsDisk
<1> QED BY <1>1, <1>3 DEF AllAdds, AllDrops

LEMMA TogetherAgrees ==
    ASSUME NEW d, IsDisk(d), NEW T, AreApart(T), NEW u, IsTask(u), \A t \in T : ~Conflict(t, u)
    PROVE  Agree(d, Together(d, T), u)
<1>1. \A p \in Region(u) : p \in Paths /\ \A t \in T : p \notin Region(t)
  BY RegionsApart DEF Region
<1>2. \A p \in Region(u) : Content(d, p) = Content(Together(d, T), p)
  BY <1>1, TogetherIsDisk
<1> QED BY <1>2, FoldersApart DEF Agree

\* one more task
LEMMA TogetherMore ==
    ASSUME NEW d, IsDisk(d), NEW T, NEW t, NEW U, AreApart(U), U = T \cup {t}, t \notin T
    PROVE  Performed(Together(d, T), t) = Together(d, U)
<1> DEFINE e == Together(d, T)
           g == Together(d, U)
<1>1. AreApart(T) /\ IsTask(t) /\ \A u \in T : IsTask(u) /\ ~Conflict(u, t) /\ ~Conflict(t, u)
  BY DEF AreApart
<1>2. IsDisk(e) /\ IsDisk(g) /\ IsDisk(Performed(e, t))
  BY <1>1, TogetherIsDisk, PerformedIsDisk
<1>3. Agree(d, e, t)
  BY <1>1, TogetherAgrees
<1>4. ASSUME NEW p \in Paths
      PROVE  Content(Performed(e, t), p) = Content(g, p)
  <2>1. CASE p \in Region(t)
    <3>1. Content(g, p) = Content(Performed(d, t), p)
      BY <2>1, TogetherIsDisk
    <3> HIDE DEF e, g
    <3> QED BY <1>1, <1>2, <1>3, <2>1, <3>1, InsideRegion
  <2>2. CASE \E u \in T : p \in Region(u)
    <3>1. PICK u \in T : p \in Region(u)
      BY <2>2
    <3>2. Content(g, p) = Content(Performed(d, u), p) /\ Content(e, p) = Content(Performed(d, u), p)
      BY <1>1, <3>1, TogetherIsDisk
    <3>3. p \notin Region(t)
      BY <1>1, <3>1, RegionsApart
    <3> HIDE DEF e, g
    <3> QED BY <1>1, <1>2, <3>2, <3>3, OutsideRegion
  <2>3. CASE p \notin Region(t) /\ \A u \in T : p \notin Region(u)
    <3>1. Content(g, p) = Content(d, p) /\ Content(e, p) = Content(d, p)
      BY <1>1, <2>3, TogetherIsDisk
    <3> HIDE DEF e, g
    <3> QED BY <1>1, <1>2, <2>3, <3>1, OutsideRegion
  <2> QED BY <2>1, <2>2, <2>3
<1>5. Performed(e, t).folders = g.folders
  <2>1. Moves(d, t) <=> Moves(e, t)
    BY <1>1, <1>2, <1>3, MovesAlike
  <2>2. Adds(d, t) = Adds(e, t) /\ Drops(d, t) = Drops(e, t)
    BY <2>1 DEF Adds, Drops
  <2>3. /\ e.folders = (d.folders \ AllDrops(d, T)) \cup AllAdds(d, T)
        /\ g.folders = (d.folders \ AllDrops(d, U)) \cup AllAdds(d, U)
    BY <1>1, TogetherIsDisk
  <2>4. Performed(e, t).folders = (e.folders \ Drops(d, t)) \cup Adds(d, t)
    BY <1>1, <1>2, <2>2, FoldersPerformed
  <2>5. /\ AllDrops(d, U) = AllDrops(d, T) \cup Drops(d, t)
        /\ AllAdds(d, U) = AllAdds(d, T) \cup Adds(d, t)
    BY DEF AllDrops, AllAdds
  <2>6. AllAdds(d, T) \cap Drops(d, t) = {}
    BY <1>1, FoldersApart
  <2> HIDE DEF e, g
  <2> QED BY <2>3, <2>4, <2>5, <2>6
<1> QED BY <1>2, <1>4, <1>5, SameDisk

\* a task that comes before them or after them
LEMMA TogetherLater ==
    ASSUME NEW d, IsDisk(d), NEW T, AreApart(T), NEW u, IsTask(u), \A t \in T : ~Conflict(t, u)
    PROVE  Performed(Together(d, T), u) = Together(Performed(d, u), T)
<1> DEFINE e == Together(d, T)
           du == Performed(d, u)
           g == Together(du, T)
<1>1. \A t \in T : IsTask(t) /\ ~Conflict(t, u) /\ ~Conflict(u, t)
  BY ConflictIsMutual DEF AreApart
<1>2. IsDisk(e) /\ IsDisk(du)
  BY TogetherIsDisk, PerformedIsDisk
<1>3. IsDisk(g) /\ IsDisk(Performed(e, u))
  <2> HIDE DEF e, du
  <2> QED BY <1>2, TogetherIsDisk, PerformedIsDisk
<1>4. Agree(d, e, u)
  BY TogetherAgrees
<1>5. \A t \in T : Agree(d, du, t)
  BY <1>1, AgreesAfter
<1>6. ASSUME NEW p \in Paths
      PROVE  Content(Performed(e, u), p) = Content(g, p)
  <2>1. CASE p \in Region(u)
    <3>1. \A t \in T : p \notin Region(t)
      BY <1>1, <2>1, RegionsApart
    <3>2. Content(g, p) = Content(du, p)
      <4> HIDE DEF du
      <4> QED BY <1>2, <3>1, TogetherIsDisk
    <3>3. Content(Performed(e, u), p) = Content(du, p)
      <4> HIDE DEF e
      <4> QED BY <1>2, <1>4, <2>1, InsideRegion
    <3> QED BY <3>2, <3>3
  <2>2. CASE \E t \in T : p \in Region(t)
    <3>1. PICK t \in T : p \in Region(t)
      BY <2>2
    <3>2. Content(e, p) = Content(Performed(d, t), p)
      BY <3>1, TogetherIsDisk
    <3>3. Content(g, p) = Content(Performed(du, t), p)
      <4> HIDE DEF du
      <4> QED BY <1>2, <3>1, TogetherIsDisk
    <3>4. Content(Performed(du, t), p) = Content(Performed(d, t), p)
      <4> HIDE DEF du
      <4> QED BY <1>1, <1>2, <1>5, <3>1, InsideRegion
    <3>5. p \notin Region(u)
      BY <1>1, <3>1, RegionsApart
    <3>6. Content(Performed(e, u), p) = Content(e, p)
      <4> HIDE DEF e
      <4> QED BY <1>2, <3>5, OutsideRegion
    <3> QED BY <3>2, <3>3, <3>4, <3>6
  <2>3. CASE p \notin Region(u) /\ \A t \in T : p \notin Region(t)
    <3>1. Content(e, p) = Content(d, p) /\ Content(du, p) = Content(d, p)
      BY <2>3, TogetherIsDisk, OutsideRegion
    <3>2. Content(g, p) = Content(du, p)
      <4> HIDE DEF du
      <4> QED BY <1>2, <2>3, TogetherIsDisk
    <3>3. Content(Performed(e, u), p) = Content(e, p)
      <4> HIDE DEF e
      <4> QED BY <1>2, <2>3, OutsideRegion
    <3> QED BY <3>1, <3>2, <3>3
  <2> QED BY <2>1, <2>2, <2>3
<1>7. Performed(e, u).folders = g.folders
  <2>1. (Moves(d, u) <=> Moves(e, u)) /\ \A t \in T : (Moves(d, t) <=> Moves(du, t))
    <3> HIDE DEF e, du
    <3> QED BY <1>1, <1>2, <1>4, <1>5, MovesAlike
  <2>2. Adds(d, u) = Adds(e, u) /\ Drops(d, u) = Drops(e, u)
    BY <2>1 DEF Adds, Drops
  <2>3. \A t \in T : Adds(d, t) = Adds(du, t) /\ Drops(d, t) = Drops(du, t)
    <3> HIDE DEF du
    <3> QED BY <2>1 DEF Adds, Drops
  <2>4. AllAdds(du, T) = AllAdds(d, T) /\ AllDrops(du, T) = AllDrops(d, T)
    <3> HIDE DEF du
    <3> QED BY <2>3 DEF AllAdds, AllDrops
  <2>5. /\ e.folders = (d.folders \ AllDrops(d, T)) \cup AllAdds(d, T)
        /\ du.folders = (d.folders \ Drops(d, u)) \cup Adds(d, u)
    BY TogetherIsDisk, FoldersPerformed
  <2>6. g.folders = (du.folders \ AllDrops(d, T)) \cup AllAdds(d, T)
    <3> HIDE DEF du
    <3> QED BY <1>2, <2>4, TogetherIsDisk
  <2>7. Performed(e, u).folders = (e.folders \ Drops(d, u)) \cup Adds(d, u)
    <3> HIDE DEF e
    <3> QED BY <1>2, <2>2, FoldersPerformed
  <2>8. AllAdds(d, T) \cap Drops(d, u) = {} /\ Adds(d, u) \cap AllDrops(d, T) = {}
    BY FoldersApart
  <2> HIDE DEF e, du, g
  <2> QED BY <2>5, <2>6, <2>7, <2>8
<1> QED BY <1>3, <1>6, <1>7, SameDisk
----------------------------------------------------------------------------
(* Sequences of tasks.                                                       *)

LEMMA LeastNumber ==
    ASSUME NEW S \in SUBSET Nat, S # {}
    PROVE  \E x \in S : \A y \in S : x <= y
<1> DEFINE R == {ss \in Nat \X Nat : ss[1] < ss[2]}
<1>1. IsWellFoundedOn(R, Nat)
  BY NatLessThanWellFounded DEF OpToRel
<1> HIDE DEF R
<1>2. PICK x \in S : \A y \in S : ~(<<y, x>> \in R)
  BY <1>1, WFMin
<1>3. \A y \in S : ~(y < x)
  BY <1>2 DEF R
<1> QED BY <1>3

\* b has the elements of s at the places I, each of them once
IsSelection(b, s, I) ==
    /\ Cardinality(I) \in Nat
    /\ \A S : (\A k \in 1 .. Cardinality(I) : b[k] \in S) => b \in [1 .. Cardinality(I) -> S]
    /\ \E h \in [1 .. Cardinality(I) -> I] :
          /\ \A k \in 1 .. Cardinality(I) : b[k] = s[h[k]]
          /\ \A k, l \in 1 .. Cardinality(I) : h[k] = h[l] => k = l
          /\ \A i \in I : \E k \in 1 .. Cardinality(I) : h[k] = i

LEMMA SelectedOnce ==
    ASSUME NEW s, NEW I \in SUBSET Nat, IsFiniteSet(I)
    PROVE  IsSelection(Selected(s, I), s, I)
<1> DEFINE n == Cardinality(I)
           L(i) == {j \in I : j <= i}
           rank == [i \in I |-> Cardinality(L(i))]
           h == [k \in 1 .. n |-> CHOOSE i \in I : Cardinality(L(i)) = k]
<1>1. n \in Nat
  BY FS_CardinalityType
<1>2. \A i \in I : /\ IsFiniteSet(L(i)) /\ Cardinality(L(i)) \in Nat
                   /\ Cardinality(L(i)) <= n /\ Cardinality(L(i)) # 0
  <2>1. SUFFICES ASSUME NEW i \in I
                 PROVE  /\ IsFiniteSet(L(i)) /\ Cardinality(L(i)) \in Nat
                        /\ Cardinality(L(i)) <= n /\ Cardinality(L(i)) # 0
    OBVIOUS
  <2>2. L(i) \in SUBSET I /\ i \in L(i)
    OBVIOUS
  <2> HIDE DEF L
  <2> QED BY <2>2, FS_Subset, FS_CardinalityType, FS_EmptySet
<1>3. ASSUME NEW i \in I, NEW j \in I, i < j
      PROVE  Cardinality(L(i)) < Cardinality(L(j))
  <2>1. L(i) \in SUBSET L(j) /\ j \in L(j) /\ j \notin L(i)
    <3>1. i \in Nat /\ j \in Nat /\ j <= j /\ ~(j <= i)
      BY <1>3
    <3>2. \A k \in I : k <= i => k <= j
      BY <1>3, <3>1
    <3>3. \A k \in L(i) : k \in L(j)
      BY <3>2
    <3>4. j \in L(j) /\ j \notin L(i)
      BY <3>1
    <3> HIDE DEF L
    <3> QED BY <3>3, <3>4
  <2>2. IsFiniteSet(L(j)) /\ Cardinality(L(j)) \in Nat /\ Cardinality(L(i)) \in Nat
    BY <1>2
  <2> HIDE DEF L
  <2>3. Cardinality(L(i)) <= Cardinality(L(j)) /\ Cardinality(L(i)) # Cardinality(L(j))
    BY <2>1, <2>2, FS_Subset
  <2> QED BY <2>2, <2>3
<1>4. \A i, j \in I : Cardinality(L(i)) = Cardinality(L(j)) => i = j
  <2>1. SUFFICES ASSUME NEW i \in I, NEW j \in I, i # j
                 PROVE  Cardinality(L(i)) # Cardinality(L(j))
    OBVIOUS
  <2>2. Cardinality(L(i)) \in Nat /\ Cardinality(L(j)) \in Nat
    BY <1>2
  <2>3. i < j \/ j < i
    BY <2>1
  <2> HIDE DEF L
  <2> QED BY <1>3, <2>2, <2>3
<1> HIDE DEF L
<1>5. rank \in [I -> 1 .. n] /\ \A i, j \in I : rank[i] = rank[j] => i = j
  BY <1>1, <1>2, <1>4
<1>6. rank \in Surjection(I, 1 .. n)
  <2> HIDE DEF rank
  <2>1. rank \in Injection(I, 1 .. n)
    BY <1>5 DEF Injection, IsInjective
  <2>2. IsFiniteSet(1 .. n) /\ Cardinality(1 .. n) = n
    BY <1>1, FS_Interval
  <2> QED BY <2>1, <2>2, FS_Injection
<1>7. \A k \in 1 .. n : \E i \in I : Cardinality(L(i)) = k
  BY <1>6 DEF Surjection
<1>8. h \in [1 .. n -> I] /\ \A k \in 1 .. n : Cardinality(L(h[k])) = k
  BY <1>7
<1>9. Selected(s, I) = [k \in 1 .. n |-> s[h[k]]]
  BY DEF Selected, L
<1> HIDE DEF h
<1>10. \A k, l \in 1 .. n : h[k] = h[l] => k = l
  BY <1>8
<1>11. \A i \in I : \E k \in 1 .. n : h[k] = i
  <2>1. SUFFICES ASSUME NEW i \in I PROVE h[Cardinality(L(i))] = i /\ Cardinality(L(i)) \in 1 .. n
    OBVIOUS
  <2>2. Cardinality(L(i)) \in 1 .. n
    BY <1>1, <1>2
  <2> QED BY <1>4, <1>8, <2>2
<1>12. \A k \in 1 .. n : Selected(s, I)[k] = s[h[k]]
  BY <1>9
<1>13. ASSUME NEW S, \A k \in 1 .. n : Selected(s, I)[k] \in S
       PROVE  Selected(s, I) \in [1 .. n -> S]
  BY <1>9, <1>12, <1>13
<1> QED BY <1>1, <1>8, <1>10, <1>11, <1>12, <1>13 DEF IsSelection

\* a replay is determined by its steps
LEMMA ReplayOf ==
    ASSUME NEW d, NEW q, Len(q) \in Nat, NEW w, w = [n \in 0 .. Len(q) |-> w[n]], w[0] = d,
           \A n \in 1 .. Len(q) : w[n] = Performed(w[n - 1], q[n])
    PROVE  Replay(d, q) = w[Len(q)]
<1> DEFINE Is(g) == g = [n \in 0 .. Len(q) |-> IF n = 0 THEN d ELSE Performed(g[n - 1], q[n])]
           a == CHOOSE g : Is(g)
<1>1. Replay(d, q) = a[Len(q)]
  BY DEF Replay
<1>2. Is(w)
  <2> DEFINE v == [n \in 0 .. Len(q) |-> IF n = 0 THEN d ELSE Performed(w[n - 1], q[n])]
  <2>1. \A n \in 0 .. Len(q) : w[n] = v[n]
    BY Z3
  <2>2. v = [n \in 0 .. Len(q) |-> v[n]]
    OBVIOUS
  <2> HIDE DEF v
  <2>3. w = v
    BY <2>1, <2>2
  <2> QED BY <2>3 DEF v
<1>3. Is(a)
  BY <1>2
<1> HIDE DEF a
<1>4. /\ a[0] = d
      /\ \A n \in 1 .. Len(q) : a[n] = Performed(a[n - 1], q[n])
  BY <1>3
<1> DEFINE S == {n \in 0 .. Len(q) : a[n] # w[n]}
<1>5. ASSUME S # {} PROVE FALSE
  <2>1. S \in SUBSET Nat
    OBVIOUS
  <2>2. PICK m \in S : \A n \in S : m <= n
    <3> HIDE DEF S
    <3> QED BY <1>5, <2>1, LeastNumber
  <2>3. m # 0
    BY <1>4
  <2>4. m \in 1 .. Len(q) /\ m - 1 \in 0 .. Len(q) /\ ~(m <= m - 1)
    BY <2>3
  <2>5. a[m - 1] = w[m - 1]
    BY <2>2, <2>4
  <2> QED BY <1>4, <2>4, <2>5
<1> QED BY <1>1, <1>5
----------------------------------------------------------------------------
(* The course w of the tasks q: the disks before, between and after them.    *)

\* a rename finds its file, and nothing under the new name
Ready(d, t) ==
    /\ t.kind = "rename" => /\ Content(d, <<t.folder, t.file>>) # {}
                            /\ Content(d, <<t.folder, t.to>>) = {}
    /\ t.kind = "move" => Moves(d, t)

IsCourse(w, q) ==
    /\ w = [n \in 0 .. Len(q) |-> w[n]]
    /\ \A n \in 0 .. Len(q) : IsDisk(w[n])
    /\ \A n \in 1 .. Len(q) : Ready(w[n - 1], q[n]) /\ w[n] = Performed(w[n - 1], q[n])

AreTasks(q) == Len(q) \in Nat /\ \A n \in 1 .. Len(q) : IsTask(q[n])

LEMMA ReadyAlike ==
    ASSUME NEW d, IsDisk(d), NEW e, IsDisk(e), NEW t, IsTask(t), Agree(d, e, t), Ready(d, t)
    PROVE  Ready(e, t)
<1>1. CASE t.kind = "rename"
  <2>1. <<t.folder, t.file>> \in Region(t) /\ <<t.folder, t.to>> \in Region(t)
    BY <1>1 DEF IsTask, Task, Paths, Region, TouchedFolders, TouchedFiles
  <2> QED BY <1>1, <2>1 DEF Ready, Agree
<1>2. CASE t.kind = "move"
  BY <1>2, MovesAlike DEF Ready
<1> QED BY <1>1, <1>2 DEF Ready

\* what the task t sees stays while tasks run that change no file of it
LEMMA CourseKeeps ==
    ASSUME NEW w, NEW q, AreTasks(q), IsCourse(w, q), NEW t, IsTask(t),
           NEW a \in 0 .. Len(q), NEW b \in a .. Len(q),
           \A n \in a + 1 .. b : ~Conflict(t, q[n])
    PROVE  /\ Agree(w[a], w[b], t)
           /\ t.folder \in w[a].folders => t.folder \in w[b].folders
<1> DEFINE Same(c) == /\ Agree(w[a], w[c], t)
                      /\ t.folder \in w[a].folders => t.folder \in w[c].folders
           S == {c \in a .. b : ~Same(c)}
<1>1. a \in Nat /\ b \in Nat /\ Len(q) \in Nat /\ a <= b /\ b <= Len(q)
  BY DEF AreTasks
<1>2. Same(a)
  BY DEF Agree
<1>3. ASSUME S # {} PROVE FALSE
  <2>1. S \in SUBSET Nat
    BY <1>1
  <2>2. PICK m \in S : \A c \in S : m <= c
    <3> HIDE DEF S
    <3> QED BY <1>3, <2>1, LeastNumber
  <2>3. m # a
    BY <1>2
  <2>4. /\ m \in a + 1 .. b /\ m - 1 \in a .. b /\ ~(m <= m - 1)
        /\ m \in 1 .. Len(q) /\ m - 1 \in 0 .. Len(q)
    BY <1>1, <2>3
  <2>5. Same(m - 1)
    BY <2>2, <2>4
  <2>6. /\ IsDisk(w[m - 1]) /\ IsTask(q[m]) /\ w[m] = Performed(w[m - 1], q[m])
        /\ ~Conflict(t, q[m])
    BY <2>4 DEF IsCourse, AreTasks
  <2>7. Agree(w[m - 1], w[m], t)
    BY <2>6, AgreesAfter
  <2>8. t.folder \in w[m - 1].folders => t.folder \in w[m].folders
    <3>1. t.folder \in TouchedFolders(t)
      BY DEF TouchedFolders
    <3>2. t.folder \notin Drops(w[m - 1], q[m])
      BY <2>6, <3>1, RegionsApart, FoldersPerformed
    <3> QED BY <2>6, <3>2, FoldersPerformed
  <2>9. Same(m)
    BY <2>5, <2>7, <2>8 DEF Agree
  <2> QED BY <2>9
<1>4. b \in a .. b
  BY <1>1
<1> QED BY <1>3, <1>4

\* no task ahead of the one at i changes a file of it
MayPass(q, i) == \A n \in 1 .. i - 1 : ~Conflict(q[n], q[i])

\* r is q without the task at i
LeavesOut(r, q, i) ==
    /\ Len(r) = Len(q) - 1
    /\ \A n \in 1 .. Len(q) - 1 : r[n] = IF n < i THEN q[n] ELSE q[n + 1]

\* a task may be performed ahead of earlier ones that change no common file
LEMMA CourseSkips ==
    ASSUME NEW w, NEW q, AreTasks(q), IsCourse(w, q), NEW i \in 1 .. Len(q), MayPass(q, i),
           NEW r, LeavesOut(r, q, i)
    PROVE  \E v : /\ IsCourse(v, r)
                  /\ v[0] = Performed(w[0], q[i])
                  /\ v[Len(r)] = w[Len(q)]
<1> USE DEF MayPass, LeavesOut
<1> DEFINE t == q[i]
           v == [n \in 0 .. Len(r) |-> IF n < i THEN Performed(w[n], t) ELSE w[n + 1]]
<1>1. Len(q) \in Nat /\ Len(q) >= 1 /\ Len(r) \in Nat /\ i \in Nat /\ i <= Len(q) /\ IsTask(t)
  BY DEF AreTasks
<1>2. \A n \in 0 .. Len(q) : IsDisk(w[n])
  BY DEF IsCourse
<1>3. w[i] = Performed(w[i - 1], t) /\ i - 1 \in 0 .. Len(q)
  BY <1>1 DEF IsCourse
<1>4. ASSUME NEW n \in 0 .. Len(r) PROVE IsDisk(v[n])
  <2>1. n \in 0 .. Len(q) /\ n + 1 \in 0 .. Len(q)
    BY <1>1
  <2> HIDE DEF t
  <2>2. CASE n < i
    BY <1>1, <1>2, <2>1, <2>2, PerformedIsDisk
  <2>3. CASE ~(n < i)
    BY <1>2, <2>1, <2>3
  <2> QED BY <2>2, <2>3
<1>5. ASSUME NEW n \in 1 .. Len(r)
      PROVE  Ready(v[n - 1], r[n]) /\ v[n] = Performed(v[n - 1], r[n])
  <2>1. /\ n \in 1 .. Len(q) /\ n + 1 \in 1 .. Len(q) /\ n - 1 \in 0 .. Len(q) /\ n \in 0 .. Len(q)
        /\ n - 1 \in 0 .. Len(r) /\ n \in 0 .. Len(r) /\ n + 1 - 1 = n /\ n - 1 + 1 = n
    BY <1>1
  <2>2. CASE n < i
    <3>1. v[n - 1] = Performed(w[n - 1], t) /\ v[n] = Performed(w[n], t) /\ r[n] = q[n]
      BY <1>1, <2>1, <2>2
    <3>2. /\ IsDisk(w[n - 1]) /\ IsTask(q[n])
          /\ Ready(w[n - 1], q[n]) /\ w[n] = Performed(w[n - 1], q[n])
      BY <2>1 DEF IsCourse, AreTasks
    <3>5. ~Conflict(q[n], t)
      <4>1. n \in 1 .. i - 1
        BY <1>1, <2>2
      <4> QED BY <4>1
    <3> HIDE DEF t, v
    <3>3. Performed(w[n], t) = Performed(Performed(w[n - 1], t), q[n])
      BY <1>1, <3>2, <3>5, TasksCommute
    <3>4. Ready(Performed(w[n - 1], t), q[n])
      BY <1>1, <3>2, <3>5, AgreesAfter, PerformedIsDisk, ReadyAlike
    <3> QED BY <3>1, <3>3, <3>4
  <2>3. CASE n = i
    <3>1. v[n - 1] = w[n] /\ v[n] = w[n + 1] /\ r[n] = q[n + 1]
      BY <1>1, <1>3, <2>1, <2>3
    <3> HIDE DEF t, v
    <3>2. \A m \in 1 .. Len(q) :
              m - 1 = n => Ready(w[n], q[m]) /\ w[m] = Performed(w[n], q[m])
      BY DEF IsCourse
    <3> QED BY <2>1, <3>1, <3>2
  <2>4. CASE n > i
    <3>1. v[n - 1] = w[n] /\ v[n] = w[n + 1] /\ r[n] = q[n + 1]
      BY <1>1, <2>1, <2>4
    <3> HIDE DEF t, v
    <3>2. \A m \in 1 .. Len(q) :
              m - 1 = n => Ready(w[n], q[m]) /\ w[m] = Performed(w[n], q[m])
      BY DEF IsCourse
    <3> QED BY <2>1, <3>1, <3>2
  <2> QED BY <1>1, <2>1, <2>2, <2>3, <2>4
<1>6. v[0] = Performed(w[0], t)
  BY <1>1
<1>7. v[Len(r)] = w[Len(q)]
  <2>1. CASE Len(r) < i
    <3>1. i = Len(q) /\ Len(r) = i - 1
      BY <1>1, <2>1
    <3>2. v[Len(r)] = Performed(w[Len(r)], t)
      BY <1>1, <2>1
    <3> HIDE DEF t, v
    <3> QED BY <1>3, <3>1, <3>2
  <2>2. CASE ~(Len(r) < i)
    BY <1>1, <2>2
  <2> QED BY <2>1, <2>2
<1>8. v = [n \in 0 .. Len(r) |-> v[n]]
  OBVIOUS
<1> HIDE DEF v
<1>9. IsCourse(v, r)
  BY <1>4, <1>5, <1>8 DEF IsCourse
<1> QED BY <1>6, <1>7, <1>9

LEMMA EnsuredDisk ==
    ASSUME NEW d, IsDisk(d), NEW t, IsTask(t)
    PROVE  /\ IsDisk(Ensured(d, t))
           /\ \A p : Content(Ensured(d, t), p) = Content(d, p)
           /\ Ensured(d, t).folders =
                  d.folders \cup (IF t.kind \in {"write", "create"} THEN {t.folder} ELSE {})
           /\ Performed(Ensured(d, t), t) = Performed(d, t)
<1>1. CASE t.kind \in {"write", "create"}
  <2>1. Ensured(d, t) = [files |-> d.files, folders |-> d.folders \cup {t.folder}]
    BY <1>1 DEF Ensured, IsDisk
  <2>2. Ensured(d, t).files = d.files /\ Ensured(d, t).folders = d.folders \cup {t.folder}
    BY <2>1
  <2>3. IsDisk(Ensured(d, t))
    BY <2>1, <2>2 DEF IsDisk
  <2>4. Ensured(Ensured(d, t), t) = Ensured(d, t)
    BY <1>1, <2>1 DEF Ensured
  <2> QED BY <1>1, <2>2, <2>3, <2>4 DEF Content, Performed
<1>2. CASE t.kind \notin {"write", "create"}
  BY <1>2 DEF Ensured
<1> QED BY <1>1, <1>2

\* the folder of a later write may be made ahead of tasks that change no file of it
LEMMA EnsuredCommutes ==
    ASSUME NEW d, IsDisk(d), NEW t, IsTask(t), NEW u, IsTask(u), ~Conflict(u, t)
    PROVE  /\ Performed(Ensured(d, t), u) = Ensured(Performed(d, u), t)
           /\ Ready(d, u) => Ready(Ensured(d, t), u)
<1> DEFINE e == Ensured(d, t)
           du == Performed(d, u)
           F == IF t.kind \in {"write", "create"} THEN {t.folder} ELSE {}
<1>1. IsDisk(e) /\ IsDisk(du)
  BY EnsuredDisk, PerformedIsDisk
<1>2. e.folders = d.folders \cup F /\ \A p : Content(e, p) = Content(d, p)
  BY EnsuredDisk
<1> HIDE DEF e
<1>3. F \subseteq TouchedFolders(t)
  BY DEF TouchedFolders
<1>4. u.kind = "move" => (u.folder \in d.folders <=> u.folder \in e.folders)
  BY <1>2, <1>3, RegionsApart DEF TouchedFolders, WholeFolder
<1>5. Agree(d, e, u)
  BY <1>2, <1>4 DEF Agree
<1>6. Ready(d, u) => Ready(e, u)
  BY <1>1, <1>5, ReadyAlike
<1>7. /\ IsDisk(Performed(e, u)) /\ IsDisk(Ensured(du, t))
      /\ \A p : Content(Ensured(du, t), p) = Content(du, p)
      /\ Ensured(du, t).folders = du.folders \cup F
  <2> HIDE DEF du
  <2> QED BY <1>1, EnsuredDisk, PerformedIsDisk
<1>8. ASSUME NEW p \in Paths PROVE Content(Performed(e, u), p) = Content(du, p)
  <2>1. CASE p \in Region(u)
    BY <1>1, <1>5, <2>1, InsideRegion
  <2>2. CASE p \notin Region(u)
    <3>1. Content(Performed(e, u), p) = Content(e, p)
      BY <1>1, <2>2, OutsideRegion
    <3>2. Content(du, p) = Content(d, p)
      BY <2>2, OutsideRegion
    <3> QED BY <1>2, <3>1, <3>2
  <2> QED BY <2>1, <2>2
<1>9. Performed(e, u).folders = Ensured(du, t).folders
  <2>1. Adds(d, u) = Adds(e, u) /\ Drops(d, u) = Drops(e, u)
    <3>1. Moves(d, u) <=> Moves(e, u)
      BY <1>1, <1>5, MovesAlike
    <3> QED BY <3>1 DEF Adds, Drops
  <2>2. /\ du.folders = (d.folders \ Drops(d, u)) \cup Adds(d, u)
        /\ Performed(e, u).folders = (e.folders \ Drops(d, u)) \cup Adds(d, u)
    BY <1>1, <2>1, FoldersPerformed
  <2>3. F \cap Drops(d, u) = {}
    BY <1>3, RegionsApart, FoldersPerformed
  <2> HIDE DEF du, F
  <2> QED BY <1>2, <1>7, <2>2, <2>3
<1>10. Performed(e, u) = Ensured(du, t)
  BY <1>7, <1>8, <1>9, SameDisk
<1> QED BY <1>6, <1>10 DEF e

LEMMA CourseEnsures ==
    ASSUME NEW w, NEW q, AreTasks(q), IsCourse(w, q), NEW i \in 1 .. Len(q), MayPass(q, i)
    PROVE  \E v : /\ IsCourse(v, q)
                  /\ v[0] = Ensured(w[0], q[i])
                  /\ v[Len(q)] = w[Len(q)]
<1> USE DEF MayPass
<1> DEFINE t == q[i]
           v == [n \in 0 .. Len(q) |-> IF n < i THEN Ensured(w[n], t) ELSE w[n]]
<1>1. Len(q) \in Nat /\ i \in Nat /\ i <= Len(q) /\ i >= 1 /\ IsTask(t)
  BY DEF AreTasks
<1>2. \A n \in 0 .. Len(q) : IsDisk(w[n])
  BY DEF IsCourse
<1>3. ASSUME NEW n \in 0 .. Len(q) PROVE IsDisk(v[n])
  <2> HIDE DEF t
  <2> QED BY <1>1, <1>2, EnsuredDisk
<1>4. ASSUME NEW n \in 1 .. Len(q)
      PROVE  Ready(v[n - 1], q[n]) /\ v[n] = Performed(v[n - 1], q[n])
  <2>1. /\ n - 1 \in 0 .. Len(q) /\ n \in 0 .. Len(q) /\ IsDisk(w[n - 1]) /\ IsTask(q[n])
        /\ Ready(w[n - 1], q[n]) /\ w[n] = Performed(w[n - 1], q[n])
    BY <1>1, <1>2 DEF IsCourse, AreTasks
  <2>2. CASE n < i
    <3>1. v[n - 1] = Ensured(w[n - 1], t) /\ v[n] = Ensured(w[n], t) /\ ~Conflict(q[n], t)
      BY <1>1, <2>1, <2>2
    <3> HIDE DEF t, v
    <3> QED BY <1>1, <2>1, <3>1, EnsuredCommutes
  <2>3. CASE n = i
    <3>1. v[n - 1] = Ensured(w[n - 1], t) /\ v[n] = w[n] /\ q[n] = t
      BY <1>1, <2>1, <2>3
    <3> HIDE DEF t, v
    <3>2. Agree(w[n - 1], v[n - 1], t)
      <4>1. t.kind = "move" => Ensured(w[n - 1], t) = w[n - 1]
        BY DEF Ensured
      <4> QED BY <1>1, <2>1, <3>1, <4>1, EnsuredDisk DEF Agree
    <3> QED BY <1>1, <2>1, <3>1, <3>2, EnsuredDisk, ReadyAlike
  <2>4. CASE n > i
    <3>1. v[n - 1] = w[n - 1] /\ v[n] = w[n]
      BY <1>1, <2>1, <2>4
    <3> HIDE DEF t, v
    <3> QED BY <2>1, <3>1
  <2> QED BY <1>1, <2>2, <2>3, <2>4
<1>5. v[0] = Ensured(w[0], t) /\ v[Len(q)] = w[Len(q)]
  BY <1>1
<1>6. v = [n \in 0 .. Len(q) |-> v[n]]
  OBVIOUS
<1> HIDE DEF v
<1>7. IsCourse(v, q)
  BY <1>3, <1>4, <1>6 DEF IsCourse
<1> QED BY <1>5, <1>7
----------------------------------------------------------------------------
(* The calls of write() that one action of the reducer makes.                *)

LEMMA FileNamesAreNames == \A s \in FileNames : s # NoName
<1> SUFFICES ASSUME NEW s \in FileNames, s = NoName PROVE FALSE
  OBVIOUS
<1>1. s = <<s[1], s[2]>>
  BY DEF FileNames
<1>2. Len(s) = 2
  BY <1>1
<1>3. Len(s) = 0
  BY DEF NoName
<1> QED BY <1>2, <1>3

\* a task replaces an earlier one of its key: the earlier one might as well have been performed
LEMMA ReplacedIsAbsorbed ==
    ASSUME NEW d, IsDisk(d), NEW u, IsTask(u), NEW t, IsTask(t), KeyOf(u) = KeyOf(t),
           t.kind \notin {"rename", "move", "create"}
    PROVE  Performed(Performed(d, u), t) = Performed(d, t)
<1> DEFINE e == Performed(d, u)
<1>1. t.kind \in Kinds /\ u.kind \in Kinds
  BY DEF IsTask, Task
<1>2. IsDisk(e) /\ IsDisk(Performed(e, t)) /\ IsDisk(Performed(d, t))
  BY PerformedIsDisk
<1>3. CASE t.kind \in {"write", "delete"}
  <2>1. u.kind = t.kind /\ u.folder = t.folder /\ u.file = t.file
    BY <1>1, <1>3 DEF KeyOf, Kinds
  <2>2. ASSUME NEW p \in Paths PROVE Content(Performed(e, t), p) = Content(Performed(d, t), p)
    <3>1. CASE t.kind = "write"
      <4>1. Content(e, p) = IF p = <<t.folder, t.file>> THEN {u.text} ELSE Content(d, p)
        BY <2>1, <3>1, WritePerformed
      <4> HIDE DEF e
      <4>2. \A c \in {d, e} : Content(Performed(c, t), p) =
                 IF p = <<t.folder, t.file>> THEN {t.text} ELSE Content(c, p)
        BY <1>2, <3>1, WritePerformed
      <4> QED BY <4>1, <4>2
    <3>2. CASE t.kind = "delete"
      <4>1. Content(e, p) = IF p = <<t.folder, t.file>> THEN {} ELSE Content(d, p)
        BY <2>1, <3>2, DeletePerformed
      <4> HIDE DEF e
      <4>2. \A c \in {d, e} : Content(Performed(c, t), p) =
                 IF p = <<t.folder, t.file>> THEN {} ELSE Content(c, p)
        BY <1>2, <3>2, DeletePerformed
      <4> QED BY <4>1, <4>2
    <3> QED BY <1>3, <3>1, <3>2
  <2>3. Performed(e, t).folders = Performed(d, t).folders
    <3>1. CASE t.kind = "write"
      <4>1. e.folders = d.folders \cup {t.folder}
        BY <2>1, <3>1, WritePerformed
      <4> HIDE DEF e
      <4>2. \A c \in {d, e} : Performed(c, t).folders = c.folders \cup {t.folder}
        BY <1>2, <3>1, WritePerformed
      <4> QED BY <4>1, <4>2
    <3>2. CASE t.kind = "delete"
      <4>1. e.folders = d.folders
        BY <2>1, <3>2, DeletePerformed
      <4> HIDE DEF e
      <4>2. \A c \in {d, e} : Performed(c, t).folders = c.folders
        BY <1>2, <3>2, DeletePerformed
      <4> QED BY <4>1, <4>2
    <3> QED BY <1>3, <3>1, <3>2
  <2> QED BY <1>2, <2>2, <2>3, SameDisk
<1>4. CASE t.kind = "remove"
  <2>1. u.kind \in {"create", "remove"} /\ u.folder = t.folder
    BY <1>1, <1>4 DEF KeyOf, Kinds
  <2>2. \A p \in Paths : p[1] # t.folder => Content(e, p) = Content(d, p)
    <3>1. CASE u.kind = "create"
      BY <2>1, <3>1, WritePerformed
    <3>2. CASE u.kind = "remove"
      BY <2>1, <3>2, RemovePerformed
    <3> QED BY <2>1, <3>1, <3>2
  <2>3. e.folders \ {t.folder} = d.folders \ {t.folder}
    <3>1. CASE u.kind = "create"
      BY <2>1, <3>1, WritePerformed
    <3>2. CASE u.kind = "remove"
      BY <2>1, <3>2, RemovePerformed
    <3> QED BY <2>1, <3>1, <3>2
  <2> HIDE DEF e
  <2>4. \A c \in {d, e} :
           /\ Performed(c, t).folders = c.folders \ {t.folder}
           /\ \A p \in Paths : Content(Performed(c, t), p) =
                  IF p[1] = t.folder THEN {} ELSE Content(c, p)
    BY <1>2, <1>4, RemovePerformed
  <2>5. Performed(e, t).folders = Performed(d, t).folders
    BY <2>3, <2>4
  <2>6. \A p \in Paths : Content(Performed(e, t), p) = Content(Performed(d, t), p)
    BY <2>2, <2>4
  <2>7. Performed(e, t) = Performed(d, t)
    BY <1>2, <2>5, <2>6, SameDisk
  <2> QED BY <2>7 DEF e
<1> QED BY <1>1, <1>3, <1>4 DEF Kinds

\* a rename, a move or a creation never takes the place of one with its key
LEMMA ReplacingKinds ==
    ASSUME NEW w, NEW q, AreTasks(q), IsCourse(w, q), NEW i \in 1 .. Len(q),
           NEW t, IsTask(t), KeyOf(q[i]) = KeyOf(t),
           \A n \in i + 1 .. Len(q) : ~Conflict(t, q[n]),
           ~(q[i].kind = "remove" /\ t.kind = "create"),
           Ready(w[Len(q)], t),
           t.kind = "create" => t.folder \notin w[Len(q)].folders
    PROVE  t.kind \notin {"rename", "move", "create"}
<1> DEFINE u == q[i]
           d == w[i - 1]
           e == w[Len(q)]
<1>1. Len(q) \in Nat /\ i \in Nat /\ i \in 0 .. Len(q) /\ Len(q) \in i .. Len(q)
      /\ i - 1 \in 0 .. Len(q) /\ Len(q) \in 0 .. Len(q)
  BY DEF AreTasks
<1>2. IsDisk(d) /\ IsDisk(w[i]) /\ IsDisk(e) /\ IsTask(u) /\ Ready(d, u) /\ w[i] = Performed(d, u)
  BY <1>1 DEF IsCourse, AreTasks
<1>3. Agree(w[i], e, t) /\ (t.folder \in w[i].folders => t.folder \in e.folders)
  BY <1>1, CourseKeeps
<1>4. t.kind \in Kinds /\ u.kind \in Kinds
  BY <1>2 DEF IsTask, Task
<1> HIDE DEF u, d, e
<1>5. CASE t.kind = "rename"
  <2>1. t.file # NoName
    BY <1>5, FileNamesAreNames DEF IsTask
  <2>2. u.kind = "rename" /\ u.folder = t.folder /\ u.file = t.file
    BY <1>4, <1>5, <2>1 DEF KeyOf, Kinds, u
  <2>3. <<t.folder, t.file>> \in Region(t)
    BY <1>5 DEF IsTask, Task, Paths, Region, TouchedFolders, TouchedFiles
  <2>4. Content(w[i], <<t.folder, t.file>>) # {}
    BY <1>3, <1>5, <2>3 DEF Agree, Ready, e
  <2>5. Content(w[i], <<t.folder, t.file>>) = {}
    <3>1. <<t.folder, t.file>> \in Paths /\ u.to # u.file
      BY <1>2, <2>2, <2>3 DEF Region, IsTask
    <3>2. Content(d, <<u.folder, u.file>>) # {}
      BY <1>2, <2>2 DEF Ready
    <3> QED BY <1>2, <2>2, <3>1, <3>2, RenamePerformed
  <2> QED BY <2>4, <2>5
<1>6. CASE t.kind = "move"
  <2>1. u.kind # "rename"
    <3>1. u.kind = "rename" => u.file # NoName
      BY <1>2, FileNamesAreNames DEF IsTask
    <3> QED BY <1>6, <3>1 DEF KeyOf, u
  <2>2. u.kind = "move" /\ u.folder = t.folder
    BY <1>4, <1>6, <2>1 DEF KeyOf, Kinds, u
  <2>3. t.folder \in w[i].folders
    BY <1>3, <1>6 DEF Agree, Ready, Moves, e
  <2>4. w[i].folders = (d.folders \ {u.folder}) \cup {u.to} /\ u.to # u.folder
    BY <1>2, <2>2, MovePerformed DEF Ready, IsTask
  <2> QED BY <2>2, <2>3, <2>4
<1>7. CASE t.kind = "create"
  <2>1. u.kind = "create" /\ u.folder = t.folder
    BY <1>4, <1>7 DEF KeyOf, Kinds, u
  <2>2. t.folder \in w[i].folders
    BY <1>2, <2>1, WritePerformed
  <2> QED BY <1>3, <1>7, <2>2 DEF e
<1> QED BY <1>5, <1>6, <1>7

\* the next task of a queue, after the tasks T have been performed ahead of their turn
LEMMA StepPasses ==
    ASSUME NEW d, IsDisk(d), NEW T, AreApart(T), NEW u, IsTask(u), \A t \in T : ~Conflict(t, u),
           Ready(d, u)
    PROVE  /\ Ready(Together(d, T), u)
           /\ Together(Performed(d, u), T) = Performed(Together(d, T), u)
BY TogetherIsDisk, TogetherAgrees, TogetherLater, ReadyAlike

LEMMA StepAppends ==
    ASSUME NEW d, IsDisk(d), NEW T, NEW t, NEW U, AreApart(U), U = T \cup {t}, t \notin T, Ready(d, t)
    PROVE  /\ Ready(Together(d, T), t)
           /\ Together(d, U) = Performed(Together(d, T), t)
<1>1. AreApart(T) /\ IsTask(t) /\ \A s \in T : ~Conflict(s, t)
  BY DEF AreApart
<1>2. IsDisk(Together(d, T)) /\ Agree(d, Together(d, T), t)
  BY <1>1, TogetherIsDisk, TogetherAgrees
<1> QED BY <1>1, <1>2, ReadyAlike, TogetherMore

\* the calls of one action: no two of them are for a key, or change a common file
IsBatch(ts) ==
    /\ AreTasks(ts)
    /\ \A j, k \in 1 .. Len(ts) : j # k => /\ ~Conflict(ts[j], ts[k])
                                           /\ KeyOf(ts[j]) # KeyOf(ts[k])

\* what the notebook shows when they are made suits them
SuitsAll(d, ts) ==
    \A j \in 1 .. Len(ts) : /\ Ready(d, ts[j])
                            /\ ts[j].kind = "create" => ts[j].folder \notin d.folders

\* the task at i has the key of t, and no later one changes a file of t
Yields(q, i, t) ==
    /\ \A k \in i + 1 .. Len(q) : ~Conflict(q[k], t)
    /\ ~(q[i].kind = "remove" /\ t.kind = "create")

BatchTasks(ts, J) == {ts[j] : j \in J}

LEMMA BatchIsApart ==
    ASSUME NEW ts, IsBatch(ts), NEW J \in SUBSET (1 .. Len(ts))
    PROVE  /\ AreApart(BatchTasks(ts, J))
           /\ \A j \in 1 .. Len(ts) : j \notin J => ts[j] \notin BatchTasks(ts, J)
           /\ \A j \in 1 .. Len(ts) : BatchTasks(ts, J \cup {j}) = BatchTasks(ts, J) \cup {ts[j]}
<1>1. \A j, k \in 1 .. Len(ts) : ts[j] = ts[k] => j = k
  BY DEF IsBatch
<1>2. AreApart(BatchTasks(ts, J))
  BY DEF AreApart, BatchTasks, IsBatch, AreTasks
<1>3. \A j \in 1 .. Len(ts) : j \notin J => ts[j] \notin BatchTasks(ts, J)
  BY <1>1 DEF BatchTasks
<1> QED BY <1>2, <1>3 DEF BatchTasks

\* x is the queue q after the calls ts: those that find their key in q, behind the place r,
\* take the place it has there, the others, at the places h of ts, follow
Schedules(x, q, r, ts, n, h) ==
    /\ \A i, j \in r + 1 .. Len(q) : KeyOf(q[i]) = KeyOf(q[j]) => i = j
    /\ \A i \in r + 1 .. Len(q), j \in 1 .. Len(ts) :
          KeyOf(q[i]) = KeyOf(ts[j]) => Yields(q, i, ts[j])
    /\ \A k, l \in 1 .. n : h[k] = h[l] => k = l
    /\ \A j \in 1 .. Len(ts) :
          (\E k \in 1 .. n : h[k] = j) <=> \A i \in r + 1 .. Len(q) : KeyOf(q[i]) # KeyOf(ts[j])
    /\ Len(x) = Len(q) + n
    /\ \A i \in 1 .. Len(q) :
          i <= r \/ (\A j \in 1 .. Len(ts) : KeyOf(q[i]) # KeyOf(ts[j])) => x[i] = q[i]
    /\ \A i \in r + 1 .. Len(q), j \in 1 .. Len(ts) : KeyOf(q[i]) = KeyOf(ts[j]) => x[i] = ts[j]
    /\ \A k \in 1 .. n : x[Len(q) + k] = ts[h[k]]

\* a course of q leads on to what the calls make of its end
LEMMA CourseSchedules ==
    ASSUME NEW w, NEW q, AreTasks(q), IsCourse(w, q), NEW r \in 0 .. Len(q),
           NEW ts, IsBatch(ts), SuitsAll(w[Len(q)], ts),
           NEW n \in Nat, NEW h \in [1 .. n -> 1 .. Len(ts)], NEW x, Schedules(x, q, r, ts, n, h)
    PROVE  \E v : /\ IsCourse(v, x)
                  /\ v[0] = w[0]
                  /\ v[Len(x)] = Together(w[Len(q)], BatchTasks(ts, 1 .. Len(ts)))
<1> USE DEF Schedules
<1> DEFINE Done(c) == {j \in 1 .. Len(ts) :
                          \/ \E i \in r + 1 .. Len(q) : i <= c /\ KeyOf(q[i]) = KeyOf(ts[j])
                          \/ \E k \in 1 .. n : Len(q) + k <= c /\ h[k] = j}
           D(c) == IF c <= Len(q) THEN w[c] ELSE w[Len(q)]
           v == [c \in 0 .. Len(x) |-> Together(D(c), BatchTasks(ts, Done(c)))]
<1>1. Len(q) \in Nat /\ Len(x) \in Nat /\ r \in Nat /\ r <= Len(q) /\ Len(q) <= Len(x) /\ Len(ts) \in Nat
  BY DEF AreTasks, IsBatch
<1>2. \A c \in 0 .. Len(x) : IsDisk(D(c))
  <2>1. \A c \in 0 .. Len(q) : IsDisk(w[c])
    BY DEF IsCourse
  <2>2. SUFFICES ASSUME NEW c \in 0 .. Len(x) PROVE IsDisk(D(c))
    OBVIOUS
  <2>3. CASE c <= Len(q)
    BY <1>1, <2>1, <2>3
  <2>4. CASE ~(c <= Len(q))
    BY <1>1, <2>1, <2>4
  <2> QED BY <2>3, <2>4
<1>3. \A c : Done(c) \in SUBSET (1 .. Len(ts))
  OBVIOUS
<1>4. \A c \in 0 .. Len(x) : IsDisk(v[c])
  <2>1. SUFFICES ASSUME NEW c \in 0 .. Len(x)
                 PROVE  IsDisk(Together(D(c), BatchTasks(ts, Done(c))))
    OBVIOUS
  <2> HIDE DEF D, Done
  <2> QED BY <1>2, <1>3, BatchIsApart, TogetherIsDisk
<1>5. ASSUME NEW b \in 0 .. Len(x), NEW c \in 1 .. Len(x), c = b + 1
      PROVE  Ready(v[b], x[c]) /\ v[c] = Performed(v[b], x[c])
  <2> DEFINE T == BatchTasks(ts, Done(b))
             d == D(b)
  <2>1. b \in 0 .. Len(x) /\ c \in 0 .. Len(x) /\ b \in Nat /\ c \in Nat /\ c = b + 1
    BY <1>1, <1>5
  <2>2. v[b] = Together(d, T) /\ v[c] = Together(D(c), BatchTasks(ts, Done(c)))
    BY <2>1
  <2>3. AreApart(T) /\ IsDisk(d)
    <3> HIDE DEF D, Done
    <3> QED BY <1>2, <1>3, <2>1, BatchIsApart
  <2>4. CASE c <= Len(q)
    <3> DEFINE u == q[c]
    <3>1. c \in 1 .. Len(q) /\ b <= Len(q)
      BY <1>1, <2>1, <2>4
    <3>2. d = w[b] /\ D(c) = w[c]
      BY <2>4, <3>1
    <3>3. IsTask(u) /\ Ready(d, u) /\ D(c) = Performed(d, u)
      <4>1. Ready(w[c - 1], q[c]) /\ w[c] = Performed(w[c - 1], q[c]) /\ IsTask(q[c])
        BY <3>1 DEF IsCourse, AreTasks
      <4>2. c - 1 = b
        BY <2>1
      <4> HIDE DEF d, D
      <4> QED BY <3>2, <4>1, <4>2
    <3>4. \A j \in Done(b) : ~Conflict(ts[j], u)
      <4>1. SUFFICES ASSUME NEW j \in Done(b) PROVE ~Conflict(ts[j], u)
        OBVIOUS
      <4>2. ~\E k \in 1 .. n : Len(q) + k <= b
        BY <1>1, <2>1, <3>1
      <4>3. PICK i \in r + 1 .. Len(q) : i <= b /\ KeyOf(q[i]) = KeyOf(ts[j])
        BY <4>1, <4>2
      <4>4. Yields(q, i, ts[j]) /\ c \in i + 1 .. Len(q)
        BY <1>1, <2>1, <3>1, <4>3
      <4> QED BY <4>4, ConflictIsMutual DEF Yields
    <3>5. \A t \in T : ~Conflict(t, u)
      <4> HIDE DEF Done, u
      <4> QED BY <3>4 DEF BatchTasks
    <3>6. CASE c <= r \/ \A j \in 1 .. Len(ts) : KeyOf(u) # KeyOf(ts[j])
      <4>1. Done(c) = Done(b)
        <5>1. \A i \in r + 1 .. Len(q), j \in 1 .. Len(ts) :
                  KeyOf(q[i]) = KeyOf(ts[j]) => (i <= c <=> i <= b)
          BY <1>1, <2>1, <3>6, SMTT(30)
        <5>2. \A k \in 1 .. n : ~(Len(q) + k <= c) /\ ~(Len(q) + k <= b)
          BY <1>1, <2>1, <2>4
        <5> QED BY <5>1, <5>2
      <4>2. x[c] = u
        BY <3>1, <3>6
      <4>3. v[c] = Together(Performed(d, u), T)
        <5> HIDE DEF Done, D, v, u, d
        <5> QED BY <2>2, <3>3, <4>1
      <4> HIDE DEF Done, D, v, u, T, d
      <4> QED BY <2>2, <2>3, <3>3, <3>5, <4>2, <4>3, StepPasses
    <3>7. CASE c > r /\ \E j \in 1 .. Len(ts) : KeyOf(u) = KeyOf(ts[j])
      <4>1. PICK j \in 1 .. Len(ts) : KeyOf(u) = KeyOf(ts[j])
        BY <3>7
      <4>2. c \in r + 1 .. Len(q)
        BY <1>1, <3>1, <3>7
      <4>3. x[c] = ts[j] /\ Yields(q, c, ts[j])
        BY <4>1, <4>2
      <4>4. j \notin Done(b)
        <5>1. ASSUME NEW i \in r + 1 .. Len(q), i <= b, KeyOf(q[i]) = KeyOf(ts[j]) PROVE FALSE
          <6>1. KeyOf(q[i]) = KeyOf(q[c])
            BY <4>1, <5>1
          <6>2. i = c
            BY <4>2, <5>1, <6>1
          <6> QED BY <1>1, <2>1, <5>1, <6>2
        <5>2. \A k \in 1 .. n : ~(Len(q) + k <= b)
          BY <1>1, <2>1, <2>4
        <5> QED BY <5>1, <5>2
      <4>5. Done(c) = Done(b) \cup {j}
        <5>1. \A i \in r + 1 .. Len(q) : i <= c <=> (i <= b \/ i = c)
          BY <1>1, <2>1
        <5>2. \A k \in 1 .. n : ~(Len(q) + k <= c) /\ ~(Len(q) + k <= b)
          BY <1>1, <2>1, <2>4
        <5>3. \A l \in 1 .. Len(ts) : KeyOf(u) = KeyOf(ts[l]) => l = j
          <6>1. \A l \in 1 .. Len(ts) : l # j => KeyOf(ts[l]) # KeyOf(ts[j])
            BY DEF IsBatch
          <6> HIDE DEF u
          <6> QED BY <4>1, <6>1
        <5>4. \A l \in Done(c) : l \in Done(b) \cup {j}
          BY <5>1, <5>2, <5>3
        <5>5. \A l \in Done(b) : l \in Done(c)
          BY <5>1, <5>2
        <5>6. j \in Done(c)
          BY <1>1, <4>1, <4>2
        <5> HIDE DEF Done
        <5> QED BY <5>4, <5>5, <5>6, ZenonT(60)
      <4>6. ts[j].kind \notin {"rename", "move", "create"}
        <5>1. \A k \in c + 1 .. Len(q) : ~Conflict(ts[j], q[k])
          BY <4>3, ConflictIsMutual DEF Yields
        <5>2. IsTask(ts[j]) /\ Ready(w[Len(q)], ts[j])
              /\ (ts[j].kind = "create" => ts[j].folder \notin w[Len(q)].folders)
          BY DEF IsBatch, AreTasks, SuitsAll
        <5> QED BY <3>1, <4>1, <4>3, <5>1, <5>2, ReplacingKinds DEF Yields
      <4>7. Done(b) \in SUBSET (1 .. Len(ts)) /\ Done(c) \in SUBSET (1 .. Len(ts))
        BY <1>3
      <4> DEFINE U == BatchTasks(ts, Done(c))
      <4>8. U = T \cup {ts[j]} /\ ts[j] \notin T /\ AreApart(U)
        <5> HIDE DEF Done
        <5>1. U = T \cup {ts[j]}
          BY <4>5 DEF BatchTasks
        <5> QED BY <4>4, <4>7, <5>1, BatchIsApart
      <4>9. v[c] = Together(Performed(d, u), U)
        <5> HIDE DEF Done, D, v, u, d
        <5> QED BY <2>2, <3>3
      <4> HIDE DEF Done, D, v, u, T, d, U
      <4>10. PICK t : t = ts[j]
        OBVIOUS
      <4>11. Ready(Together(d, T), t) /\ Together(Performed(d, u), U) = Performed(Together(d, T), t)
        <5>1. /\ U = T \cup {t} /\ t \notin T /\ KeyOf(u) = KeyOf(t)
              /\ t.kind \notin {"rename", "move", "create"}
          BY <4>1, <4>6, <4>8, <4>10
        <5>2. IsDisk(d) /\ AreApart(U) /\ IsTask(u) /\ \A s \in T : ~Conflict(s, u)
          BY <2>3, <3>3, <3>5, <4>8
        <5>3. Ready(Together(d, T), t)
          BY <5>1 DEF Ready
        <5>4. Together(Performed(d, u), U) = Performed(Together(d, T), t)
          <6>1. AreApart(T) /\ IsTask(t) /\ IsDisk(Performed(d, u)) /\ IsDisk(Together(d, T))
            BY <2>3, <3>3, <5>1, <5>2, PerformedIsDisk, TogetherIsDisk DEF AreApart
          <6>2. Together(Performed(d, u), U) = Performed(Together(Performed(d, u), T), t)
            BY <5>1, <5>2, <6>1, TogetherMore
          <6>3. Together(Performed(d, u), T) = Performed(Together(d, T), u)
            BY <5>2, <6>1, TogetherLater
          <6>4. Performed(Performed(Together(d, T), u), t) = Performed(Together(d, T), t)
            BY <5>1, <5>2, <6>1, ReplacedIsAbsorbed
          <6> QED BY <6>2, <6>3, <6>4
        <5> QED BY <5>3, <5>4
      <4> QED BY <2>2, <4>3, <4>9, <4>10, <4>11
    <3> QED BY <1>1, <3>6, <3>7
  <2>5. CASE c > Len(q)
    <3> DEFINE k == c - Len(q)
               j == h[k]
    <3>1. k \in 1 .. n /\ c = Len(q) + k /\ b >= Len(q)
      BY <1>1, <2>1, <2>5
    <3>2. x[c] = ts[j] /\ j \in 1 .. Len(ts)
      BY <3>1
    <3>3. d = w[Len(q)] /\ D(c) = w[Len(q)]
      <4>1. D(c) = w[Len(q)]
        BY <1>1, <2>1, <2>5
      <4>2. CASE b <= Len(q)
        <5>1. b = Len(q)
          BY <1>1, <2>1, <2>5, <4>2
        <5> QED BY <4>1, <5>1
      <4>3. CASE ~(b <= Len(q))
        BY <4>1, <4>3
      <4> QED BY <4>2, <4>3
    <3>4. \A i \in r + 1 .. Len(q) : KeyOf(q[i]) # KeyOf(ts[j])
      BY <3>1, <3>2
    <3>5. \A l \in 1 .. n : /\ h[l] = j => l = k
                            /\ Len(q) + l <= c <=> (Len(q) + l <= b \/ l = k)
      <4>1. \A l \in 1 .. n : Len(q) + l <= c <=> (Len(q) + l <= b \/ l = k)
        BY <1>1, <2>1, <3>1
      <4> HIDE DEF k
      <4>2. \A l \in 1 .. n : h[l] = j => l = k
        BY <3>1
      <4> QED BY <4>1, <4>2
    <3>6. j \notin Done(b)
      <4>1. ~(Len(q) + k <= b)
        BY <1>1, <2>1, <3>1
      <4> HIDE DEF k, j
      <4> QED BY <3>4, <3>5, <4>1
    <3>7. Done(c) = Done(b) \cup {j}
      <4>1. \A i \in r + 1 .. Len(q) : i <= c /\ i <= b
        BY <1>1, <2>1, <3>1
      <4>2. h[k] = j
        OBVIOUS
      <4>3. Len(q) + k <= c
        BY <1>1, <3>1
      <4> HIDE DEF k, j
      <4>4. \A l \in Done(c) : l \in Done(b) \cup {j}
        BY <3>1, <3>5, <4>1, <4>2
      <4>5. \A l \in Done(b) : l \in Done(c)
        BY <3>5, <4>1
      <4>6. j \in Done(c)
        BY <3>1, <3>2, <4>2, <4>3
      <4> HIDE DEF Done
      <4> QED BY <4>4, <4>5, <4>6
    <3>8. Done(b) \in SUBSET (1 .. Len(ts)) /\ Done(c) \in SUBSET (1 .. Len(ts))
      BY <1>3
    <3> DEFINE U == BatchTasks(ts, Done(c))
    <3>9. U = T \cup {ts[j]} /\ ts[j] \notin T /\ AreApart(U)
      <4> HIDE DEF Done, j
      <4>1. U = T \cup {ts[j]}
        BY <3>7 DEF BatchTasks
      <4> QED BY <3>2, <3>6, <3>8, <4>1, BatchIsApart
    <3>10. Ready(d, ts[j])
      <4> HIDE DEF Done, j, D
      <4> QED BY <3>2, <3>3 DEF SuitsAll
    <3>11. v[c] = Together(d, U)
      <4> HIDE DEF Done, D, v, j
      <4> QED BY <2>2, <3>3
    <3> HIDE DEF Done, D, v, k, j, T, d, U
    <3>12. PICK t : t = ts[j]
      OBVIOUS
    <3>13. Ready(Together(d, T), t) /\ Together(d, U) = Performed(Together(d, T), t)
      BY <2>3, <3>9, <3>10, <3>12, StepAppends, SMTT(30)
    <3> QED BY <2>2, <3>2, <3>11, <3>12, <3>13
  <2> QED BY <1>1, <2>1, <2>4, <2>5
<1>6. v[0] = w[0]
  <2>1. Done(0) = {}
    BY <1>1
  <2>2. D(0) = w[0] /\ 0 \in 0 .. Len(x) /\ IsDisk(D(0))
    BY <1>1, <1>2
  <2>4. v[0] = Together(D(0), BatchTasks(ts, Done(0)))
    BY <2>2
  <2> HIDE DEF Done, D, v
  <2>3. BatchTasks(ts, Done(0)) = {}
    BY <2>1 DEF BatchTasks
  <2> QED BY <2>2, <2>3, <2>4, TogetherNone, ZenonT(60)
<1>7. v[Len(x)] = Together(w[Len(q)], BatchTasks(ts, 1 .. Len(ts)))
  <2>1. D(Len(x)) = w[Len(q)]
    BY <1>1
  <2>2. Done(Len(x)) = 1 .. Len(ts)
    <3>1. \A i \in r + 1 .. Len(q) : i <= Len(x)
      BY <1>1
    <3>2. \A k \in 1 .. n : Len(q) + k <= Len(x)
      BY <1>1
    <3>3. ASSUME NEW j \in 1 .. Len(ts) PROVE j \in Done(Len(x))
      <4>1. CASE \E k \in 1 .. n : h[k] = j
        BY <3>2, <4>1
      <4>2. CASE \E i \in r + 1 .. Len(q) : KeyOf(q[i]) = KeyOf(ts[j])
        BY <3>1, <4>2
      <4> QED BY <4>1, <4>2
    <3> QED BY <3>3
  <2>3. Len(x) \in 0 .. Len(x)
    BY <1>1
  <2> HIDE DEF Done, D
  <2> QED BY <2>1, <2>2, <2>3
<1>8. v = [c \in 0 .. Len(x) |-> v[c]]
  OBVIOUS
<1> HIDE DEF v
<1>9. \A c \in 1 .. Len(x) : Ready(v[c - 1], x[c]) /\ v[c] = Performed(v[c - 1], x[c])
  <2>1. SUFFICES ASSUME NEW c \in 1 .. Len(x)
                 PROVE  Ready(v[c - 1], x[c]) /\ v[c] = Performed(v[c - 1], x[c])
    OBVIOUS
  <2>2. PICK b \in 0 .. Len(x) : c = b + 1 /\ c - 1 = b
    <3>1. c - 1 \in 0 .. Len(x) /\ c = (c - 1) + 1
      BY <1>1
    <3> QED BY <3>1
  <2>3. Ready(v[b], x[c]) /\ v[c] = Performed(v[b], x[c])
    BY <1>5, <2>2
  <2> QED BY <2>2, <2>3
<1>10. IsCourse(v, x)
  BY <1>4, <1>8, <1>9 DEF IsCourse
<1> QED BY <1>6, <1>7, <1>10
----------------------------------------------------------------------------
(* The execution of the tasks on their way.                                  *)

\* every file is in a folder
Tidy(d) == IsDisk(d) /\ \A p \in Paths : Content(d, p) # {} => p[1] \in d.folders

LEMMA PerformedIsTidy ==
    ASSUME NEW d, Tidy(d), NEW t, IsTask(t)
    PROVE  Tidy(Performed(d, t))
<1> DEFINE e == Performed(d, t)
<1>1. t.kind \in Kinds /\ IsDisk(d) /\ IsDisk(e)
  BY PerformedIsDisk DEF IsTask, Task, Tidy
<1>2. SUFFICES ASSUME NEW p \in Paths, Content(e, p) # {} PROVE p[1] \in e.folders
  BY <1>1 DEF Tidy
<1>3. CASE t.kind \in {"write", "create"}
  <2>1. e.folders = d.folders \cup {t.folder}
    BY <1>1, <1>3, WritePerformed
  <2>2. Content(e, p) = IF p = <<t.folder, t.file>> THEN {t.text} ELSE Content(d, p)
    BY <1>1, <1>3, WritePerformed
  <2> HIDE DEF e
  <2> QED BY <1>2, <2>1, <2>2 DEF Tidy
<1>4. CASE t.kind = "delete"
  BY <1>1, <1>2, <1>4, DeletePerformed DEF Tidy
<1>5. CASE t.kind = "rename"
  <2> DEFINE a == <<t.folder, t.file>>
             b == <<t.folder, t.to>>
  <2>1. a \in Paths /\ e.folders = d.folders
    BY <1>1, <1>5, RenamePerformed DEF IsTask, Task, Paths
  <2>2. /\ Content(d, a) = {} => Content(e, p) = Content(d, p)
        /\ Content(d, a) # {} =>
              Content(e, p) = IF p = b THEN Content(d, a) ELSE IF p = a THEN {} ELSE Content(d, p)
    BY <1>1, <1>5, RenamePerformed
  <2>3. p = b => p[1] = a[1]
    OBVIOUS
  <2> HIDE DEF a, b, e
  <2> QED BY <1>2, <2>1, <2>2, <2>3 DEF Tidy
<1>6. CASE t.kind = "remove"
  BY <1>1, <1>2, <1>6, RemovePerformed DEF Tidy
<1>7. CASE t.kind = "move"
  <2>1. CASE Moves(d, t)
    <3>1. e.folders = (d.folders \ {t.folder}) \cup {t.to}
      BY <1>1, <1>7, <2>1, MovePerformed
    <3>2. Content(e, p) = IF p[1] = t.to THEN Content(d, <<t.folder, p[2]>>)
                          ELSE IF p[1] = t.folder THEN {} ELSE Content(d, p)
      BY <1>1, <1>7, <2>1, MovePerformed
    <3> HIDE DEF e
    <3> QED BY <1>2, <3>1, <3>2 DEF Tidy
  <2>2. CASE ~Moves(d, t)
    BY <1>1, <1>2, <1>7, <2>2, MovePerformed DEF Tidy
  <2> QED BY <2>1, <2>2
<1> QED BY <1>1, <1>3, <1>4, <1>5, <1>6, <1>7 DEF Kinds

\* a write into a folder that is gone does nothing
LEMMA ExecutedIs ==
    ASSUME NEW d, IsDisk(d), NEW t, IsTask(t)
    PROVE  /\ Executed(d, t) = d \/ Executed(d, t) = Performed(d, t)
           /\ (t.kind \in {"write", "create"} => t.folder \in d.folders)
                 => Executed(d, t) = Performed(d, t)
<1>1. CASE t.kind \in {"write", "create"}
  <2>1. CASE t.folder \in d.folders
    <3>1. Ensured(d, t) = [files |-> d.files, folders |-> d.folders \cup {t.folder}]
      BY <1>1 DEF Ensured, IsDisk
    <3>2. d.folders \cup {t.folder} = d.folders
      BY <2>1
    <3>3. Ensured(d, t) = d
      BY <3>1, <3>2, Zenon DEF IsDisk
    <3> QED BY <3>3 DEF Performed
  <2>2. CASE t.folder \notin d.folders
    BY <1>1, <2>2 DEF Executed
  <2> QED BY <2>1, <2>2
<1>2. CASE t.kind \notin {"write", "create"}
  BY <1>2 DEF Performed, Ensured
<1> QED BY <1>1, <1>2

\* a task that does not find what it changes does nothing
LEMMA NotFound ==
    ASSUME NEW d, Tidy(d), NEW t, IsTask(t), ~Finds(d, t)
    PROVE  Ensured(d, t) = d /\ Performed(d, t) = d
<1>1. t.kind \in {"delete", "rename", "remove", "move"} /\ IsDisk(d)
  BY DEF Finds, IsTask, Task, Kinds, Tidy
<1>2. Ensured(d, t) = d
  BY <1>1 DEF Ensured
<1>3. IsDisk(Performed(d, t))
  BY <1>1, PerformedIsDisk
<1>4. CASE t.kind \in {"delete", "rename"}
  <2>1. Content(d, <<t.folder, t.file>>) = {}
    BY <1>4 DEF Finds, Content
  <2>2. CASE t.kind = "delete"
    <3>1. \A p \in Paths : Content(Performed(d, t), p) = Content(d, p)
      BY <1>1, <2>1, <2>2, DeletePerformed, ZenonT(60)
    <3>2. Performed(d, t).folders = d.folders
      BY <1>1, <2>2, DeletePerformed
    <3> QED BY <1>1, <1>2, <1>3, <3>1, <3>2, SameDisk
  <2>3. CASE t.kind = "rename"
    <3>1. \A p \in Paths : Content(Performed(d, t), p) = Content(d, p)
      BY <1>1, <2>1, <2>3, RenamePerformed
    <3>2. Performed(d, t).folders = d.folders
      BY <1>1, <2>3, RenamePerformed
    <3> QED BY <1>1, <1>2, <1>3, <3>1, <3>2, SameDisk
  <2> QED BY <1>4, <2>2, <2>3
<1>5. CASE t.kind = "remove"
  <2>1. t.folder \notin d.folders
    BY <1>5 DEF Finds
  <2>2. \A p \in Paths : Content(Performed(d, t), p) = Content(d, p)
    BY <1>1, <1>5, <2>1, RemovePerformed DEF Tidy
  <2>3. Performed(d, t).folders = d.folders
    <3>1. Performed(d, t).folders = d.folders \ {t.folder}
      BY <1>1, <1>5, RemovePerformed
    <3> QED BY <2>1, <3>1
  <2> QED BY <1>1, <1>2, <1>3, <2>2, <2>3, SameDisk
<1>6. CASE t.kind = "move"
  <2>1. ~Moves(d, t)
    BY <1>6 DEF Finds, Moves
  <2> QED BY <1>1, <1>2, <1>6, <2>1, MovePerformed
<1> QED BY <1>1, <1>4, <1>5, <1>6

\* the tasks of the queues
Tasks == {t \in Task : IsTask(t)}

LEMMA QueueOfTasks ==
    ASSUME NEW q \in Seq(Tasks)
    PROVE  AreTasks(q) /\ \A n \in 1 .. Len(q) : q[n] \in Tasks
BY DEF AreTasks, Tasks

KeysDiffer(q) == \A i, j \in 1 .. Len(q) : KeyOf(q[i]) = KeyOf(q[j]) => i = j

\* the tasks under execution change no common file
Separate(r) == \A i, j \in 1 .. Len(r) : i # j => ~Conflict(r[i], r[j])

\* their writes have a folder to write to
Housed(r, F) == \A i \in 1 .. Len(r) : r[i].kind \in {"write", "create"} => r[i].folder \in F

\* no two pages have the same clean name
PagesDiffer(c) == \A f, g \in FoldersOf(c) : f[2] = g[2] => f = g

Shown == [files |-> shown, folders |-> FoldersOf(shown)]

\* the tasks q lead from the disk d to the disk e, and every rename on the way is ready
LeadsTo(d, q, e) == \E w : IsCourse(w, q) /\ w[0] = d /\ w[Len(q)] = e

QueueInv ==
    /\ Inv
    /\ running \in Seq(Tasks)
    /\ pending \in Seq(Tasks)
    /\ KeysDiffer(pending)
    /\ Tidy(Disk)
    /\ PagesDiffer(shown)
    /\ ~overlapped => Separate(running) /\ Housed(running, folders)
    /\ ~displaced /\ ~overlapped => LeadsTo(Disk, running \o pending, Shown)

\* no notebook is loaded that has two pages of the same clean name: "Page clean names are
\* unique (uniqueScriptFolderName)", says reprefixPages, but a folder may be made otherwise
NotebooksDiffer == \A c \in Notebooks : PagesDiffer(c)

LEMMA InitLeads == NotebooksDiffer /\ Init => QueueInv
<1> SUFFICES ASSUME NotebooksDiffer, Init PROVE QueueInv
  OBVIOUS
<1>1. Inv /\ PagesDiffer(shown) /\ IsCollection(shown)
  BY InitHasNotebook DEF Init, NotebooksDiffer, Inv, IsNotebook
<1>2. Disk = Shown /\ IsDisk(Disk)
  BY <1>1 DEF Init, Disk, Shown, IsDisk
<1>3. Tidy(Disk)
  BY <1>2 DEF Tidy, Shown, Content, FoldersOf
<1>4. running = <<>> /\ pending = <<>> /\ running \o pending = <<>>
  BY DEF Init
<1>5. LeadsTo(Disk, <<>>, Shown)
  <2> DEFINE w == [n \in 0 .. 0 |-> Disk]
  <2>1. IsCourse(w, <<>>) /\ w[0] = Disk /\ w[Len(<<>>)] = Shown
    <3> HIDE DEF Disk
    <3> QED BY <1>2 DEF IsCourse
  <2> HIDE DEF w
  <2> QED BY <2>1 DEF LeadsTo
<1>6. LeadsTo(Disk, running \o pending, Shown)
  BY <1>4, <1>5
<1> QED BY <1>1, <1>3, <1>4, <1>6 DEF QueueInv, KeysDiffer, Separate, Housed

\* the oldest pending task: its place in the queue, and the queue without it
LEMMA HeadOfQueue ==
    ASSUME NEW r \in Seq(Tasks), NEW p \in Seq(Tasks), p # <<>>, NEW t, t = Head(p)
    PROVE  /\ t \in Tasks /\ Tail(p) \in Seq(Tasks) /\ Append(r, t) \in Seq(Tasks)
           /\ Append(r, t) \o Tail(p) = r \o p
           /\ Len(r) + 1 \in 1 .. Len(r \o p) /\ (r \o p)[Len(r) + 1] = t
           /\ \A n \in 1 .. Len(r) : (r \o p)[n] = r[n]
           /\ Len(r \o Tail(p)) = Len(r \o p) - 1
           /\ \A n \in 1 .. Len(r \o p) - 1 :
                 (r \o Tail(p))[n] = IF n < Len(r) + 1 THEN (r \o p)[n] ELSE (r \o p)[n + 1]
<1>1. t \in Tasks /\ t = p[1] /\ Tail(p) \in Seq(Tasks) /\ Append(r, t) \in Seq(Tasks)
  BY HeadTailProperties, AppendProperties
<1>2. /\ Len(p) \in Nat /\ Len(p) >= 1 /\ Len(r) \in Nat /\ Len(Tail(p)) = Len(p) - 1
      /\ Len(r \o p) = Len(r) + Len(p) /\ Len(r \o Tail(p)) = Len(r) + Len(p) - 1
      /\ Len(Append(r, t)) = Len(r) + 1
  BY <1>1, EmptySeq, LenProperties, ConcatProperties, HeadTailProperties, AppendProperties
<1>3. \A n \in 1 .. Len(p) - 1 : Tail(p)[n] = p[n + 1]
  BY <1>2, HeadTailProperties
<1>4. \A n \in 1 .. Len(r) + Len(p) : (r \o p)[n] = IF n <= Len(r) THEN r[n] ELSE p[n - Len(r)]
  BY <1>2, ConcatProperties
<1>5. \A n \in 1 .. Len(r) + Len(p) - 1 :
          (r \o Tail(p))[n] = IF n <= Len(r) THEN r[n] ELSE p[n - Len(r) + 1]
  <2>1. SUFFICES ASSUME NEW n \in 1 .. Len(r) + Len(p) - 1
                 PROVE  (r \o Tail(p))[n] = IF n <= Len(r) THEN r[n] ELSE p[n - Len(r) + 1]
    OBVIOUS
  <2>2. (r \o Tail(p))[n] = IF n <= Len(r) THEN r[n] ELSE Tail(p)[n - Len(r)]
    BY <1>1, <1>2, ConcatProperties
  <2> QED BY <1>2, <1>3, <2>2
<1>6. Append(r, t) \o Tail(p) = r \o p
  <2>1. Append(r, t) \o Tail(p) \in Seq(Tasks) /\ r \o p \in Seq(Tasks)
        /\ Len(Append(r, t) \o Tail(p)) = Len(r \o p)
    BY <1>1, <1>2, ConcatProperties
  <2>2. ASSUME NEW n \in 1 .. Len(r \o p) PROVE (Append(r, t) \o Tail(p))[n] = (r \o p)[n]
    <3>1. (Append(r, t) \o Tail(p))[n] =
              IF n <= Len(r) + 1 THEN Append(r, t)[n] ELSE Tail(p)[n - (Len(r) + 1)]
      BY <1>1, <1>2, <2>2, ConcatProperties
    <3>2. \A m \in 1 .. Len(r) + 1 : Append(r, t)[m] = IF m <= Len(r) THEN r[m] ELSE t
      BY <1>1, <1>2, AppendProperties
    <3> QED BY <1>1, <1>2, <1>3, <1>4, <3>1, <3>2
  <2> QED BY <2>1, <2>2, SeqEqual
<1>7. ASSUME NEW n \in 1 .. Len(r \o p) - 1
      PROVE  (r \o Tail(p))[n] = IF n < Len(r) + 1 THEN (r \o p)[n] ELSE (r \o p)[n + 1]
  BY <1>2, <1>4, <1>5
<1> QED BY <1>1, <1>2, <1>4, <1>6, <1>7

LEMMA TaskStartsLeads == QueueInv /\ Inv' /\ TaskStarts => QueueInv'
<1> SUFFICES ASSUME QueueInv, Inv', TaskStarts PROVE QueueInv'
  OBVIOUS
<1> DEFINE t == Head(pending)
           q == running \o pending
           k == Len(running) + 1
<1>1. /\ running \in Seq(Tasks) /\ pending \in Seq(Tasks) /\ KeysDiffer(pending)
      /\ Tidy(Disk) /\ PagesDiffer(shown)
      /\ ~overlapped => Separate(running) /\ Housed(running, folders)
      /\ ~displaced /\ ~overlapped => LeadsTo(Disk, q, Shown)
  BY DEF QueueInv
<1>2. /\ pending # <<>> /\ pending' = Tail(pending)
      /\ running' = IF Finds(Disk, t) THEN Append(running, t) ELSE running
      /\ folders' = Ensured(Disk, t).folders /\ files' = files
      /\ shown' = shown /\ displaced' = displaced
      /\ ~overlapped' => ~overlapped /\ \A i \in 1 .. Len(running) : ~Conflict(t, running[i])
  <2>1. DOMAIN running = 1 .. Len(running)
    BY <1>1, LenProperties
  <2> QED BY <2>1 DEF TaskStarts
<1>3. /\ t \in Tasks /\ Tail(pending) \in Seq(Tasks) /\ Append(running, t) \in Seq(Tasks)
      /\ Append(running, t) \o Tail(pending) = q
      /\ k \in 1 .. Len(q) /\ q[k] = t
      /\ \A n \in 1 .. Len(running) : q[n] = running[n]
      /\ Len(running \o Tail(pending)) = Len(q) - 1
      /\ \A n \in 1 .. Len(q) - 1 :
            (running \o Tail(pending))[n] = IF n < k THEN q[n] ELSE q[n + 1]
  BY <1>1, <1>2, HeadOfQueue
<1>4. /\ Len(running) \in Nat /\ q \in Seq(Tasks) /\ IsTask(t) /\ IsDisk(Disk) /\ AreTasks(q)
  BY <1>1, <1>3, LenProperties, ConcatProperties, QueueOfTasks DEF Tasks, Tidy
<1>5. Disk' = Ensured(Disk, t) /\ IsDisk(Ensured(Disk, t))
      /\ folders \subseteq folders'
      /\ (t.kind \in {"write", "create"} => t.folder \in folders')
  <2>1. IsDisk(Ensured(Disk, t)) /\ Ensured(Disk, t).files = files
    BY <1>4, EnsuredDisk DEF Ensured, Disk
  <2>2. Ensured(Disk, t) = [files |-> files, folders |-> folders']
    BY <1>2, <2>1 DEF IsDisk
  <2>3. folders' = folders \cup (IF t.kind \in {"write", "create"} THEN {t.folder} ELSE {})
    BY <1>2, <1>4, EnsuredDisk DEF Disk
  <2> QED BY <1>2, <2>1, <2>2, <2>3 DEF Disk
<1>6. running' \in Seq(Tasks) /\ pending' \in Seq(Tasks) /\ KeysDiffer(pending')
  <2>1. running' \in Seq(Tasks) /\ pending' \in Seq(Tasks)
    BY <1>1, <1>2, <1>3
  <2>2. /\ Len(pending') = Len(pending) - 1 /\ Len(pending) \in Nat
        /\ \A n \in 1 .. Len(pending) - 1 : pending'[n] = pending[n + 1]
    BY <1>1, <1>2, HeadTailProperties, LenProperties
  <2>3. KeysDiffer(pending')
    <3>1. SUFFICES ASSUME NEW i \in 1 .. Len(pending) - 1, NEW j \in 1 .. Len(pending) - 1,
                          KeyOf(pending'[i]) = KeyOf(pending'[j])
                   PROVE  i = j
      BY <2>2, Zenon DEF KeysDiffer
    <3>2. i + 1 \in 1 .. Len(pending) /\ j + 1 \in 1 .. Len(pending)
      BY <2>2
    <3>3. KeyOf(pending[i + 1]) = KeyOf(pending[j + 1])
      BY <2>2, <3>1
    <3>4. i + 1 = j + 1
      BY <1>1, <3>2, <3>3, Zenon DEF KeysDiffer
    <3> QED BY <3>4
  <2> QED BY <2>1, <2>3
<1>7. Tidy(Disk') /\ PagesDiffer(shown')
  BY <1>1, <1>2, <1>5 DEF Tidy, Disk, Content
<1>8. ASSUME ~overlapped' PROVE Separate(running') /\ Housed(running', folders')
  <2>1. Separate(running) /\ Housed(running, folders)
    BY <1>1, <1>2, <1>8
  <2>2. CASE Finds(Disk, t)
    <3>1. /\ running' = Append(running, t) /\ Len(running') = k
          /\ \A n \in 1 .. Len(running) : running'[n] = running[n]
          /\ running'[k] = t
      BY <1>1, <1>2, <1>3, <2>2, AppendProperties
    <3>2. \A n \in 1 .. k : n \in 1 .. Len(running) \/ n = k
      BY <1>4
    <3>3. \A n \in 1 .. Len(running) : ~Conflict(t, running[n]) /\ ~Conflict(running[n], t)
      BY <1>2, <1>8, ConflictIsMutual
    <3> HIDE DEF t, k
    <3>4. Separate(running')
      BY <2>1, <3>1, <3>2, <3>3 DEF Separate
    <3>5. Housed(running', folders')
      BY <1>5, <2>1, <3>1, <3>2 DEF Housed
    <3> QED BY <3>4, <3>5
  <2>3. CASE ~Finds(Disk, t)
    BY <1>2, <1>5, <2>1, <2>3 DEF Separate, Housed
  <2> QED BY <2>2, <2>3
<1>9. ASSUME ~displaced', ~overlapped'
      PROVE  LeadsTo(Disk', running' \o pending', Shown')
  <2>1. PICK w : IsCourse(w, q) /\ w[0] = Disk /\ w[Len(q)] = Shown
    BY <1>1, <1>2, <1>9 DEF LeadsTo
  <2>2. MayPass(q, k)
    BY <1>2, <1>3, <1>4, <1>9, ConflictIsMutual DEF MayPass
  <2>3. Shown' = Shown
    BY <1>2 DEF Shown
  <2>4. CASE Finds(Disk, t)
    <3>1. running' \o pending' = q
      BY <1>2, <1>3, <2>4
    <3>2. PICK v : IsCourse(v, q) /\ v[0] = Ensured(w[0], q[k]) /\ v[Len(q)] = w[Len(q)]
      <4>1. PICK x, i : x = q /\ i = k /\ i \in 1 .. Len(x)
        BY <1>3
      <4>2. AreTasks(x) /\ IsCourse(w, x) /\ MayPass(x, i)
        BY <1>4, <2>1, <2>2, <4>1
      <4>3. \E v : IsCourse(v, x) /\ v[0] = Ensured(w[0], x[i]) /\ v[Len(x)] = w[Len(x)]
        BY <4>1, <4>2, CourseEnsures
      <4> QED BY <4>1, <4>3
    <3>3. v[0] = Disk' /\ v[Len(q)] = Shown'
      BY <1>3, <1>5, <2>1, <2>3, <3>2
    <3> HIDE DEF q
    <3> QED BY <3>1, <3>2, <3>3 DEF LeadsTo
  <2>5. CASE ~Finds(Disk, t)
    <3> DEFINE r == running \o Tail(pending)
    <3>1. running' \o pending' = r
      BY <1>2, <2>5
    <3>2. PICK v : IsCourse(v, r) /\ v[0] = Performed(w[0], q[k]) /\ v[Len(r)] = w[Len(q)]
      <4>1. LeavesOut(r, q, k)
        BY <1>3 DEF LeavesOut
      <4>2. PICK x, y, i : x = q /\ y = r /\ i = k /\ i \in 1 .. Len(x)
        BY <1>3
      <4>3. AreTasks(x) /\ IsCourse(w, x) /\ MayPass(x, i)
        BY <1>4, <2>1, <2>2, <4>2
      <4>4. LeavesOut(y, x, i)
        BY <4>1, <4>2
      <4>6. i \in 1 .. Len(x)
        BY <4>2
      <4>5. \E v : IsCourse(v, y) /\ v[0] = Performed(w[0], x[i]) /\ v[Len(y)] = w[Len(x)]
        BY <4>3, <4>4, <4>6, CourseSkips
      <4> QED BY <4>2, <4>5
    <3>3. Performed(Disk, t) = Disk /\ Ensured(Disk, t) = Disk
      BY <1>1, <1>4, <2>5, NotFound
    <3>4. v[0] = Disk' /\ v[Len(r)] = Shown'
      BY <1>3, <1>5, <2>1, <2>3, <3>2, <3>3
    <3> HIDE DEF r
    <3> QED BY <3>1, <3>2, <3>4 DEF LeadsTo
  <2> QED BY <2>4, <2>5
<1> QED BY <1>6, <1>7, <1>8, <1>9 DEF QueueInv

\* the queue without a task under execution
LEMMA TakenFromQueue ==
    ASSUME NEW r \in Seq(Tasks), NEW p \in Seq(Tasks), NEW i \in 1 .. Len(r)
    PROVE  /\ RemoveAt(r, i) \in Seq(Tasks) /\ LeavesOut(RemoveAt(r, i), r, i)
           /\ r \o p \in Seq(Tasks) /\ i \in 1 .. Len(r \o p)
           /\ \A n \in 1 .. Len(r) : (r \o p)[n] = r[n]
           /\ LeavesOut(RemoveAt(r, i) \o p, r \o p, i)
<1> DEFINE a == SubSeq(r, 1, i - 1)
           b == SubSeq(r, i + 1, Len(r))
           x == RemoveAt(r, i)
<1>1. Len(r) \in Nat /\ Len(p) \in Nat /\ i \in Nat /\ i >= 1 /\ i <= Len(r)
  BY LenProperties
<1>2. /\ a \in Seq(Tasks) /\ Len(a) = i - 1 /\ \A n \in 1 .. i - 1 : a[n] = r[n]
  BY <1>1, LenProperties
<1>3. /\ b \in Seq(Tasks) /\ Len(b) = Len(r) - i /\ \A n \in 1 .. Len(r) - i : b[n] = r[i + n]
  BY <1>1, LenProperties
<1>4. x = a \o b
  BY DEF RemoveAt
<1> HIDE DEF a, b, x
<1>5. /\ x \in Seq(Tasks) /\ Len(x) = Len(r) - 1
      /\ \A n \in 1 .. Len(r) - 1 : x[n] = IF n <= i - 1 THEN a[n] ELSE b[n - (i - 1)]
  <2>1. /\ a \o b \in Seq(Tasks) /\ Len(a \o b) = Len(a) + Len(b)
        /\ \A n \in 1 .. Len(a) + Len(b) : (a \o b)[n] = IF n <= Len(a) THEN a[n] ELSE b[n - Len(a)]
    BY <1>2, <1>3, ConcatProperties
  <2>2. Len(a) + Len(b) = Len(r) - 1 /\ Len(a) = i - 1
    BY <1>1, <1>2, <1>3
  <2> QED BY <1>4, <2>1, <2>2
<1>6. ASSUME NEW n \in 1 .. Len(r) - 1 PROVE x[n] = IF n < i THEN r[n] ELSE r[n + 1]
  <2>1. CASE n < i
    BY <1>1, <1>2, <1>5, <2>1
  <2>2. CASE ~(n < i)
    <3>1. n - (i - 1) \in 1 .. Len(r) - i /\ i + (n - (i - 1)) = n + 1
      BY <1>1, <2>2
    <3> QED BY <1>1, <1>3, <1>5, <2>2, <3>1
  <2> QED BY <2>1, <2>2
<1>7. /\ r \o p \in Seq(Tasks) /\ Len(r \o p) = Len(r) + Len(p)
      /\ \A n \in 1 .. Len(r) + Len(p) : (r \o p)[n] = IF n <= Len(r) THEN r[n] ELSE p[n - Len(r)]
  BY ConcatProperties
<1>8. /\ Len(x \o p) = Len(r) - 1 + Len(p)
      /\ \A n \in 1 .. Len(r) - 1 + Len(p) :
            (x \o p)[n] = IF n <= Len(r) - 1 THEN x[n] ELSE p[n - (Len(r) - 1)]
  <2>1. /\ Len(x \o p) = Len(x) + Len(p)
        /\ \A n \in 1 .. Len(x) + Len(p) : (x \o p)[n] = IF n <= Len(x) THEN x[n] ELSE p[n - Len(x)]
    BY <1>5, ConcatProperties
  <2>2. Len(x) = Len(r) - 1
    BY <1>5
  <2> QED BY <2>1, <2>2
<1>9. ASSUME NEW n \in 1 .. Len(r \o p) - 1
      PROVE  (x \o p)[n] = IF n < i THEN (r \o p)[n] ELSE (r \o p)[n + 1]
  <2>1. n \in Nat /\ n >= 1 /\ n <= Len(r) + Len(p) - 1
    BY <1>1, <1>7
  <2>2. CASE n <= Len(r) - 1
    <3>1. (x \o p)[n] = IF n < i THEN r[n] ELSE r[n + 1]
      BY <1>1, <1>6, <1>8, <2>1, <2>2
    <3>2. (r \o p)[n] = r[n] /\ (r \o p)[n + 1] = r[n + 1]
      BY <1>1, <1>7, <2>1, <2>2
    <3> QED BY <3>1, <3>2
  <2>3. CASE n > Len(r) - 1
    <3>1. ~(n < i)
      BY <1>1, <2>1, <2>3
    <3>2. PICK m \in Int : m = n - (Len(r) - 1) /\ m = (n + 1) - Len(r)
      BY <1>1, <2>1
    <3>3. (x \o p)[n] = p[m]
      BY <1>1, <1>8, <2>1, <2>3, <3>2
    <3>4. (r \o p)[n + 1] = p[m]
      BY <1>1, <1>7, <2>1, <2>3, <3>2
    <3> QED BY <3>1, <3>3, <3>4
  <2>4. n <= Len(r) - 1 \/ n > Len(r) - 1
    BY <1>1, <2>1
  <2> QED BY <2>2, <2>3, <2>4
<1>10. LeavesOut(x, r, i)
  BY <1>5, <1>6 DEF LeavesOut
<1>11. LeavesOut(x \o p, r \o p, i)
  BY <1>1, <1>7, <1>8, <1>9 DEF LeavesOut
<1>12. i \in 1 .. Len(r \o p) /\ \A n \in 1 .. Len(r) : (r \o p)[n] = r[n]
  BY <1>1, <1>7
<1> QED BY <1>5, <1>7, <1>10, <1>11, <1>12 DEF x

LEMMA TaskEndsLeads ==
    ASSUME QueueInv, Inv', NEW i \in DOMAIN running, TaskEnds(i)
    PROVE  QueueInv'
<1> DEFINE t == running[i]
           q == running \o pending
           r == RemoveAt(running, i)
           x == r \o pending
           e == Executed(Disk, t)
<1>1. /\ running \in Seq(Tasks) /\ pending \in Seq(Tasks) /\ KeysDiffer(pending)
      /\ Tidy(Disk) /\ PagesDiffer(shown)
      /\ ~overlapped => Separate(running) /\ Housed(running, folders)
      /\ ~displaced /\ ~overlapped => LeadsTo(Disk, q, Shown)
  BY DEF QueueInv
<1>2. /\ running' = r /\ pending' = pending /\ shown' = shown
      /\ files' = e.files /\ folders' = e.folders
      /\ displaced' = displaced /\ overlapped' = overlapped
  BY DEF TaskEnds
<1>3. i \in 1 .. Len(running) /\ Len(running) \in Nat
  BY <1>1, LenProperties
<1>4. /\ r \in Seq(Tasks) /\ LeavesOut(r, running, i)
      /\ q \in Seq(Tasks) /\ i \in 1 .. Len(q) /\ LeavesOut(x, q, i)
      /\ \A n \in 1 .. Len(running) : q[n] = running[n]
  BY <1>1, <1>3, TakenFromQueue
<1>5. t \in Tasks /\ IsTask(t) /\ IsDisk(Disk) /\ AreTasks(q)
  BY <1>1, <1>3, <1>4, QueueOfTasks DEF Tasks, Tidy
<1>6. Tidy(e) /\ Disk' = e
  <2>1. e = Disk \/ e = Performed(Disk, t)
    BY <1>5, ExecutedIs
  <2>2. Tidy(e)
    <3> HIDE DEF e, t
    <3> QED BY <1>1, <1>5, <2>1, PerformedIsTidy
  <2>3. e = [files |-> e.files, folders |-> e.folders]
    <3> HIDE DEF e
    <3> QED BY <2>2 DEF Tidy, IsDisk
  <2> HIDE DEF e
  <2> QED BY <1>2, <2>2, <2>3 DEF Disk
<1>7. Len(r) = Len(running) - 1
      /\ \A n \in 1 .. Len(running) - 1 : r[n] = IF n < i THEN running[n] ELSE running[n + 1]
  BY <1>4 DEF LeavesOut
<1>8. ASSUME ~overlapped
      PROVE  /\ e = Performed(Disk, t)
             /\ \A n \in 1 .. Len(running) : n # i => ~Conflict(running[n], t)
             /\ Separate(r) /\ Housed(r, folders')
  <2>1. /\ \A n, m \in 1 .. Len(running) : n # m => ~Conflict(running[n], running[m])
        /\ \A n \in 1 .. Len(running) :
              running[n].kind \in {"write", "create"} => running[n].folder \in folders
    BY <1>1, <1>8 DEF Separate, Housed
  <2>2. e = Performed(Disk, t)
    BY <1>3, <1>5, <2>1, ExecutedIs DEF Disk
  <2>3. \A n \in 1 .. Len(running) : n # i => ~Conflict(running[n], t)
    BY <1>3, <2>1
  <2>4. \A n \in 1 .. Len(r) : \E m \in 1 .. Len(running) : r[n] = running[m] /\ m # i
                                                         /\ m = IF n < i THEN n ELSE n + 1
    BY <1>3, <1>7
  <2>5. Separate(r)
    <3>1. SUFFICES ASSUME NEW j \in 1 .. Len(r), NEW k \in 1 .. Len(r), j # k
                   PROVE  ~Conflict(r[j], r[k])
      BY DEF Separate
    <3>2. PICK m \in 1 .. Len(running) : r[j] = running[m] /\ m = IF j < i THEN j ELSE j + 1
      BY <2>4
    <3>3. PICK l \in 1 .. Len(running) : r[k] = running[l] /\ l = IF k < i THEN k ELSE k + 1
      BY <2>4
    <3>4. m # l
      BY <1>3, <1>7, <3>1, <3>2, <3>3
    <3> HIDE DEF r
    <3> QED BY <2>1, <3>2, <3>3, <3>4
  <2>6. Housed(r, folders')
    <3>1. SUFFICES ASSUME NEW j \in 1 .. Len(r), r[j].kind \in {"write", "create"}
                   PROVE  r[j].folder \in folders'
      BY DEF Housed
    <3>2. PICK m \in 1 .. Len(running) : r[j] = running[m] /\ m # i
      BY <2>4
    <3> DEFINE u == running[m]
    <3>3. u.folder \in folders /\ ~Conflict(u, t)
      BY <2>1, <2>3, <3>1, <3>2
    <3>4. folders' = (folders \ Drops(Disk, t)) \cup Adds(Disk, t)
      BY <1>2, <1>5, <2>2, FoldersPerformed DEF Disk
    <3>5. u.folder \notin Drops(Disk, t)
      <4>1. u.folder \in TouchedFolders(u)
        BY DEF TouchedFolders
      <4> HIDE DEF u, t
      <4> QED BY <1>5, <3>3, <4>1, RegionsApart, FoldersPerformed
    <3> QED BY <3>2, <3>3, <3>4, <3>5
  <2> QED BY <2>2, <2>3, <2>5, <2>6
<1>9. ASSUME ~displaced, ~overlapped PROVE LeadsTo(Disk', running' \o pending', Shown')
  <2>1. PICK w : IsCourse(w, q) /\ w[0] = Disk /\ w[Len(q)] = Shown
    BY <1>1, <1>9 DEF LeadsTo
  <2>2. MayPass(q, i)
    BY <1>3, <1>4, <1>8, <1>9 DEF MayPass
  <2>3. Shown' = Shown /\ running' \o pending' = x
    BY <1>2 DEF Shown
  <2>4. PICK y, z, k : y = q /\ z = x /\ k = i
    OBVIOUS
  <2>5. AreTasks(y) /\ IsCourse(w, y) /\ MayPass(y, k) /\ LeavesOut(z, y, k)
    BY <1>4, <1>5, <2>1, <2>2, <2>4
  <2>6. k \in 1 .. Len(y)
    BY <1>4, <2>4
  <2>7. \E v : IsCourse(v, z) /\ v[0] = Performed(w[0], y[k]) /\ v[Len(z)] = w[Len(y)]
    BY <2>5, <2>6, CourseSkips
  <2>8. y[k] = t /\ Performed(w[0], y[k]) = Disk' /\ w[Len(y)] = Shown'
    BY <1>3, <1>4, <1>6, <1>8, <1>9, <2>1, <2>3, <2>4
  <2> QED BY <2>3, <2>4, <2>7, <2>8 DEF LeadsTo
<1>10. Tidy(Disk')
  BY <1>6
<1> QED BY <1>1, <1>2, <1>4, <1>8, <1>9, <1>10 DEF QueueInv

LEMMA FunctionIsSeq ==
    ASSUME NEW S, NEW n \in Nat, NEW f \in [1 .. n -> S]
    PROVE  f \in Seq(S) /\ Len(f) = n
<1>1. f \in Seq(S)
  BY SeqDef
<1>2. DOMAIN f = 1 .. n /\ DOMAIN f = 1 .. Len(f) /\ Len(f) \in Nat
  BY <1>1, LenProperties
<1> QED BY <1>1, <1>2

\* x is the queue p after the calls ts: those that find their key in p take the place it has
\* there, the others, at the places h of ts, follow
IsScheduled(x, p, ts, n, h) ==
    /\ \A k, l \in 1 .. n : h[k] = h[l] => k = l
    /\ \A j \in 1 .. Len(ts) :
          (\E k \in 1 .. n : h[k] = j) <=> \A i \in 1 .. Len(p) : KeyOf(p[i]) # KeyOf(ts[j])
    /\ Len(x) = Len(p) + n
    /\ \A i \in 1 .. Len(p) : (\A j \in 1 .. Len(ts) : KeyOf(p[i]) # KeyOf(ts[j])) => x[i] = p[i]
    /\ \A i \in 1 .. Len(p), j \in 1 .. Len(ts) : KeyOf(p[i]) = KeyOf(ts[j]) => x[i] = ts[j]
    /\ \A k \in 1 .. n : x[Len(p) + k] = ts[h[k]]

LEMMA ScheduledIs ==
    ASSUME NEW p \in Seq(Tasks), NEW ts \in Seq(Tasks), IsBatch(ts)
    PROVE  /\ Scheduled(p, ts) \in Seq(Tasks)
           /\ \E n \in Nat : \E h \in [1 .. n -> 1 .. Len(ts)] :
                 IsScheduled(Scheduled(p, ts), p, ts, n, h)
<1> DEFINE Put(i) == IF \E j \in DOMAIN ts : KeyOf(ts[j]) = KeyOf(p[i])
                     THEN ts[CHOOSE j \in DOMAIN ts : KeyOf(ts[j]) = KeyOf(p[i])]
                     ELSE p[i]
           a == [i \in DOMAIN p |-> Put(i)]
           I == {j \in DOMAIN ts : \A i \in DOMAIN p : KeyOf(p[i]) # KeyOf(ts[j])}
           n == Cardinality(I)
           b == Selected(ts, I)
           x == Scheduled(p, ts)
<1>1. /\ DOMAIN p = 1 .. Len(p) /\ DOMAIN ts = 1 .. Len(ts) /\ Len(p) \in Nat /\ Len(ts) \in Nat
      /\ (\A i \in 1 .. Len(p) : p[i] \in Tasks) /\ (\A j \in 1 .. Len(ts) : ts[j] \in Tasks)
  BY LenProperties, QueueOfTasks
<1>2. x = a \o b
  BY DEF Scheduled
<1>3. ASSUME NEW i \in 1 .. Len(p)
      PROVE  /\ Put(i) \in Tasks
             /\ (\A j \in 1 .. Len(ts) : KeyOf(p[i]) # KeyOf(ts[j])) => Put(i) = p[i]
             /\ \A j \in 1 .. Len(ts) : KeyOf(p[i]) = KeyOf(ts[j]) => Put(i) = ts[j]
  <2>1. CASE \E j \in 1 .. Len(ts) : KeyOf(ts[j]) = KeyOf(p[i])
    <3> DEFINE c == CHOOSE j \in DOMAIN ts : KeyOf(ts[j]) = KeyOf(p[i])
    <3>1. c \in 1 .. Len(ts) /\ KeyOf(ts[c]) = KeyOf(p[i]) /\ Put(i) = ts[c]
      BY <1>1, <2>1
    <3> HIDE DEF c, Put
    <3>2. \A j \in 1 .. Len(ts) : j # c => KeyOf(ts[c]) # KeyOf(ts[j])
      BY <3>1 DEF IsBatch
    <3>3. \A j \in 1 .. Len(ts) : KeyOf(p[i]) = KeyOf(ts[j]) => Put(i) = ts[j]
      BY <3>1, <3>2
    <3> QED BY <1>1, <2>1, <3>1, <3>3
  <2>2. CASE ~\E j \in 1 .. Len(ts) : KeyOf(ts[j]) = KeyOf(p[i])
    BY <1>1, <2>2
  <2> QED BY <2>1, <2>2
<1>4. a \in Seq(Tasks) /\ Len(a) = Len(p) /\ \A i \in 1 .. Len(p) : a[i] = Put(i)
  <2>1. a \in [1 .. Len(p) -> Tasks]
    <3> HIDE DEF Put
    <3> QED BY <1>1, <1>3
  <2>2. \A i \in 1 .. Len(p) : a[i] = Put(i)
    <3> HIDE DEF Put
    <3> QED BY <1>1
  <2> HIDE DEF a
  <2> QED BY <1>1, <2>1, <2>2, FunctionIsSeq
<1>5. I \subseteq 1 .. Len(ts) /\ IsFiniteSet(I) /\ I \in SUBSET Nat
      /\ \A j \in 1 .. Len(ts) : j \in I <=> \A i \in 1 .. Len(p) : KeyOf(p[i]) # KeyOf(ts[j])
  <2>1. I \subseteq 1 .. Len(ts)
    BY <1>1
  <2>2. \A j \in 1 .. Len(ts) : j \in I <=> \A i \in 1 .. Len(p) : KeyOf(p[i]) # KeyOf(ts[j])
    BY <1>1
  <2> HIDE DEF I
  <2>3. IsFiniteSet(1 .. Len(ts))
    BY <1>1, FS_Interval
  <2>4. IsFiniteSet(I)
    BY <2>1, <2>3, FS_Subset
  <2> QED BY <1>1, <2>1, <2>2, <2>4
<1>6. n \in Nat /\ (\A S : (\A k \in 1 .. n : b[k] \in S) => b \in [1 .. n -> S]) /\ \E h \in [1 .. n -> I] :
                 /\ \A k \in 1 .. n : b[k] = ts[h[k]]
                 /\ \A k, l \in 1 .. n : h[k] = h[l] => k = l
                 /\ \A i \in I : \E k \in 1 .. n : h[k] = i
  <2>1. IsFiniteSet(I) /\ I \in SUBSET Nat
    BY <1>5
  <2>2. IsSelection(Selected(ts, I), ts, I)
    <3> HIDE DEF I
    <3> QED BY <2>1, SelectedOnce
  <2> HIDE DEF I
  <2> QED BY <2>2 DEF IsSelection
<1>7. PICK h \in [1 .. n -> I] :
                 /\ \A k \in 1 .. n : b[k] = ts[h[k]]
                 /\ \A k, l \in 1 .. n : h[k] = h[l] => k = l
                 /\ \A i \in I : \E k \in 1 .. n : h[k] = i
  <2> HIDE DEF I, n, b
  <2> QED BY <1>6
<1> HIDE DEF Put, a, I, n, b, x
<1>8. b \in Seq(Tasks) /\ Len(b) = n /\ \A k \in 1 .. n : b[k] = ts[h[k]]
  <2>1. \A k \in 1 .. n : b[k] = ts[h[k]] /\ b[k] \in Tasks
    BY <1>1, <1>5, <1>7
  <2>2. b \in [1 .. n -> Tasks]
    BY <1>6, <2>1
  <2> QED BY <1>6, <2>1, <2>2, FunctionIsSeq
<1>9. /\ x \in Seq(Tasks) /\ Len(x) = Len(p) + n
      /\ \A i \in 1 .. Len(p) + n : x[i] = IF i <= Len(p) THEN a[i] ELSE b[i - Len(p)]
  <2>1. /\ a \o b \in Seq(Tasks) /\ Len(a \o b) = Len(a) + Len(b)
        /\ \A i \in 1 .. Len(a) + Len(b) : (a \o b)[i] = IF i <= Len(a) THEN a[i] ELSE b[i - Len(a)]
    BY <1>4, <1>8, ConcatProperties
  <2> QED BY <1>2, <1>4, <1>8, <2>1
<1>10. h \in [1 .. n -> 1 .. Len(ts)]
  BY <1>5
<1>11. \A i \in 1 .. Len(p) : x[i] = Put(i)
  <2>1. \A i \in 1 .. Len(p) : i \in 1 .. Len(p) + n /\ i <= Len(p)
    BY <1>1, <1>6
  <2> QED BY <1>4, <1>9, <2>1
<1>12. ASSUME NEW k \in 1 .. n PROVE x[Len(p) + k] = ts[h[k]]
  <2>1. Len(p) + k \in 1 .. Len(p) + n /\ ~(Len(p) + k <= Len(p)) /\ (Len(p) + k) - Len(p) = k
    BY <1>1, <1>6
  <2> QED BY <1>8, <1>9, <2>1
<1>13. \A j \in 1 .. Len(ts) :
          (\E k \in 1 .. n : h[k] = j) <=> \A i \in 1 .. Len(p) : KeyOf(p[i]) # KeyOf(ts[j])
  BY <1>5, <1>7
<1>14. IsScheduled(x, p, ts, n, h)
  BY <1>3, <1>7, <1>9, <1>11, <1>12, <1>13 DEF IsScheduled
<1> QED BY <1>6, <1>9, <1>10, <1>14 DEF x

LEMMA ScheduledKeys ==
    ASSUME NEW p \in Seq(Tasks), KeysDiffer(p), NEW ts \in Seq(Tasks), IsBatch(ts)
    PROVE  KeysDiffer(Scheduled(p, ts))
<1> DEFINE x == Scheduled(p, ts)
<1>1. PICK n \in Nat : \E h \in [1 .. n -> 1 .. Len(ts)] : IsScheduled(x, p, ts, n, h)
  BY ScheduledIs
<1>2. PICK h \in [1 .. n -> 1 .. Len(ts)] : IsScheduled(x, p, ts, n, h)
  BY <1>1
<1> HIDE DEF x
<1>3. Len(p) \in Nat /\ Len(x) = Len(p) + n
  BY <1>2, LenProperties DEF IsScheduled
<1>4. ASSUME NEW i \in 1 .. Len(p) PROVE KeyOf(x[i]) = KeyOf(p[i])
  BY <1>2, ZenonT(60) DEF IsScheduled
<1>5. ASSUME NEW k \in 1 .. n
      PROVE  /\ KeyOf(x[Len(p) + k]) = KeyOf(ts[h[k]])
             /\ \A i \in 1 .. Len(p) : KeyOf(p[i]) # KeyOf(ts[h[k]])
  BY <1>2 DEF IsScheduled
<1>6. ASSUME NEW k \in 1 .. n, NEW l \in 1 .. n, KeyOf(ts[h[k]]) = KeyOf(ts[h[l]]) PROVE k = l
  <2>1. h[k] = h[l]
    BY <1>6 DEF IsBatch
  <2> QED BY <1>2, <2>1 DEF IsScheduled
<1>7. SUFFICES ASSUME NEW i \in 1 .. Len(x), NEW j \in 1 .. Len(x), KeyOf(x[i]) = KeyOf(x[j])
               PROVE  i = j
  BY DEF KeysDiffer, x
<1>8. \A m \in 1 .. Len(x) : m \in 1 .. Len(p) \/ \E k \in 1 .. n : m = Len(p) + k
  <2>1. SUFFICES ASSUME NEW m \in 1 .. Len(x), ~(m \in 1 .. Len(p)) PROVE \E k \in 1 .. n : m = Len(p) + k
    OBVIOUS
  <2>2. m - Len(p) \in 1 .. n /\ m = Len(p) + (m - Len(p))
    BY <1>3, <2>1
  <2> QED BY <2>2
<1>9. CASE i \in 1 .. Len(p) /\ j \in 1 .. Len(p)
  BY <1>4, <1>7, <1>9 DEF KeysDiffer
<1>10. CASE i \in 1 .. Len(p) /\ \E k \in 1 .. n : j = Len(p) + k
  BY <1>4, <1>5, <1>7, <1>10
<1>11. CASE j \in 1 .. Len(p) /\ \E k \in 1 .. n : i = Len(p) + k
  BY <1>4, <1>5, <1>7, <1>11
<1>12. CASE (\E k \in 1 .. n : i = Len(p) + k) /\ (\E k \in 1 .. n : j = Len(p) + k)
  <2>1. PICK k \in 1 .. n : i = Len(p) + k
    BY <1>12
  <2>2. PICK l \in 1 .. n : j = Len(p) + l
    BY <1>12
  <2>3. KeyOf(ts[h[k]]) = KeyOf(ts[h[l]])
    BY <1>5, <1>7, <2>1, <2>2
  <2> QED BY <1>6, <2>1, <2>2, <2>3
<1> QED BY <1>8, <1>9, <1>10, <1>11, <1>12

\* the calls ts bring the tasks on their way from what they lead to, to what the calls make of it
LEMMA ScheduledLeads ==
    ASSUME NEW r \in Seq(Tasks), NEW p \in Seq(Tasks), KeysDiffer(p),
           NEW ts \in Seq(Tasks), IsBatch(ts), ~Displaces(p, ts),
           NEW d, NEW e, LeadsTo(d, r \o p, e), SuitsAll(e, ts)
    PROVE  LeadsTo(d, r \o Scheduled(p, ts), Together(e, BatchTasks(ts, 1 .. Len(ts))))
<1>1. PICK q : q = r \o p
  OBVIOUS
<1>2. PICK s : s = Scheduled(p, ts)
  OBVIOUS
<1>3. PICK x : x = r \o s
  OBVIOUS
<1>4. PICK l : l = Len(r)
  OBVIOUS
<1>5. s \in Seq(Tasks) /\ \E n \in Nat : \E h \in [1 .. n -> 1 .. Len(ts)] : IsScheduled(s, p, ts, n, h)
  BY <1>2, ScheduledIs
<1>6. PICK n \in Nat : \E h \in [1 .. n -> 1 .. Len(ts)] : IsScheduled(s, p, ts, n, h)
  BY <1>5
<1>7. PICK h \in [1 .. n -> 1 .. Len(ts)] : IsScheduled(s, p, ts, n, h)
  BY <1>6
<1>8. PICK w : IsCourse(w, q) /\ w[0] = d /\ w[Len(q)] = e
  BY <1>1 DEF LeadsTo
<1>9. /\ l \in Nat /\ Len(p) \in Nat /\ Len(q) = l + Len(p) /\ q \in Seq(Tasks)
      /\ \A i \in 1 .. l + Len(p) : q[i] = IF i <= l THEN r[i] ELSE p[i - l]
  BY <1>1, <1>4, LenProperties, ConcatProperties
<1>10. Len(s) = Len(p) + n
  BY <1>7 DEF IsScheduled
<1>11. /\ Len(x) = l + Len(s)
       /\ \A i \in 1 .. l + Len(s) : x[i] = IF i <= l THEN r[i] ELSE s[i - l]
  BY <1>3, <1>4, <1>5, ConcatProperties
<1>12. AreTasks(q) /\ l \in 0 .. Len(q) /\ Len(x) = Len(q) + n
  BY <1>9, <1>10, <1>11, QueueOfTasks
<1>13. ASSUME NEW i \in l + 1 .. Len(q)
       PROVE  \E k \in 1 .. Len(p) : i = l + k /\ i - l = k /\ q[i] = p[k] /\ x[i] = s[k]
  <2>1. i - l \in 1 .. Len(p) /\ i = l + (i - l) /\ ~(i <= l)
        /\ i \in 1 .. l + Len(p) /\ i \in 1 .. l + Len(s)
    BY <1>9, <1>10
  <2>2. q[i] = p[i - l] /\ x[i] = s[i - l]
    BY <1>9, <1>11, <2>1
  <2> QED BY <2>1, <2>2
<1>14. ASSUME NEW k \in 1 .. Len(p) PROVE l + k \in l + 1 .. Len(q) /\ q[l + k] = p[k]
  <2>1. /\ l + k \in l + 1 .. Len(q) /\ ~(l + k <= l) /\ (l + k) - l = k
        /\ l + k \in 1 .. l + Len(p)
    BY <1>9
  <2> QED BY <1>9, <2>1
<1>15. ASSUME NEW i \in l + 1 .. Len(q), NEW j \in l + 1 .. Len(q), KeyOf(q[i]) = KeyOf(q[j])
       PROVE  i = j
  <2>1. PICK k \in 1 .. Len(p) : i = l + k /\ q[i] = p[k]
    BY <1>13
  <2>2. PICK m \in 1 .. Len(p) : j = l + m /\ q[j] = p[m]
    BY <1>13
  <2>3. k = m
    BY <1>15, <2>1, <2>2 DEF KeysDiffer
  <2> QED BY <2>1, <2>2, <2>3
<1>16. ASSUME NEW i \in l + 1 .. Len(q), NEW j \in 1 .. Len(ts), KeyOf(q[i]) = KeyOf(ts[j])
       PROVE  x[i] = ts[j] /\ Yields(q, i, ts[j])
  <2>1. PICK k \in 1 .. Len(p) : i = l + k /\ q[i] = p[k] /\ x[i] = s[k]
    BY <1>13
  <2>2. x[i] = ts[j]
    BY <1>7, <1>16, <2>1 DEF IsScheduled
  <2>3. k \in DOMAIN p /\ j \in DOMAIN ts /\ DOMAIN p = 1 .. Len(p)
    BY LenProperties
  <2>4. /\ \A m \in 1 .. Len(p) : m > k => ~Conflict(p[m], ts[j])
        /\ ~(p[k].kind = "remove" /\ ts[j].kind = "create")
    BY <1>16, <2>1, <2>3 DEF Displaces
  <2>5. ASSUME NEW a \in i + 1 .. Len(q) PROVE ~Conflict(q[a], ts[j])
    <3>1. a \in l + 1 .. Len(q)
      BY <1>9, <2>1
    <3>2. PICK m \in 1 .. Len(p) : a = l + m /\ q[a] = p[m]
      BY <1>13, <3>1
    <3>3. m > k
      BY <1>9, <2>1, <2>5, <3>2
    <3> QED BY <2>4, <3>2, <3>3
  <2> QED BY <2>1, <2>2, <2>4, <2>5 DEF Yields
<1>17. ASSUME NEW j \in 1 .. Len(ts)
       PROVE  (\E k \in 1 .. n : h[k] = j) <=> \A i \in l + 1 .. Len(q) : KeyOf(q[i]) # KeyOf(ts[j])
  <2>1. (\E k \in 1 .. n : h[k] = j) <=> \A k \in 1 .. Len(p) : KeyOf(p[k]) # KeyOf(ts[j])
    BY <1>7 DEF IsScheduled
  <2>2. (\A k \in 1 .. Len(p) : KeyOf(p[k]) # KeyOf(ts[j]))
           => \A i \in l + 1 .. Len(q) : KeyOf(q[i]) # KeyOf(ts[j])
    BY <1>13
  <2>3. (\A i \in l + 1 .. Len(q) : KeyOf(q[i]) # KeyOf(ts[j]))
           => \A k \in 1 .. Len(p) : KeyOf(p[k]) # KeyOf(ts[j])
    BY <1>14
  <2> QED BY <2>1, <2>2, <2>3
<1>18. ASSUME NEW i \in 1 .. Len(q),
              i <= l \/ \A j \in 1 .. Len(ts) : KeyOf(q[i]) # KeyOf(ts[j])
       PROVE  x[i] = q[i]
  <2>1. CASE i <= l
    <3>1. i \in 1 .. l + Len(p) /\ i \in 1 .. l + Len(s)
      BY <1>9, <1>10
    <3> QED BY <1>9, <1>11, <2>1, <3>1
  <2>2. CASE ~(i <= l)
    <3>1. i \in l + 1 .. Len(q)
      BY <1>9, <2>2
    <3>2. PICK k \in 1 .. Len(p) : q[i] = p[k] /\ x[i] = s[k]
      BY <1>13, <3>1
    <3>3. \A j \in 1 .. Len(ts) : KeyOf(p[k]) # KeyOf(ts[j])
      BY <1>18, <2>2, <3>2
    <3> QED BY <1>7, <3>2, <3>3 DEF IsScheduled
  <2> QED BY <2>1, <2>2
<1>19. ASSUME NEW k \in 1 .. n PROVE x[Len(q) + k] = ts[h[k]]
  <2>1. /\ Len(q) + k \in 1 .. l + Len(s) /\ ~(Len(q) + k <= l)
        /\ (Len(q) + k) - l = Len(p) + k
    BY <1>9, <1>10
  <2>2. x[Len(q) + k] = s[Len(p) + k]
    BY <1>11, <2>1
  <2> QED BY <1>7, <2>2 DEF IsScheduled
<1>20. \A k, m \in 1 .. n : h[k] = h[m] => k = m
  BY <1>7 DEF IsScheduled
<1>21. SuitsAll(w[Len(q)], ts)
  BY <1>8
<1>22. Schedules(x, q, l, ts, n, h)
  BY <1>12, <1>15, <1>16, <1>17, <1>18, <1>19, <1>20, ZenonT(60) DEF Schedules
<1>23. \E v : IsCourse(v, x) /\ v[0] = w[0]
              /\ v[Len(x)] = Together(w[Len(q)], BatchTasks(ts, 1 .. Len(ts)))
  <2>1. AreTasks(q) /\ l \in 0 .. Len(q)
    BY <1>12
  <2>2. IsCourse(w, q)
    BY <1>8
  <2> QED BY <2>1, <2>2, <1>21, <1>22, CourseSchedules, SMTT(30)
<1> QED BY <1>2, <1>3, <1>8, <1>23 DEF LeadsTo
----------------------------------------------------------------------------
(* What the reducer writes is what it shows: the calls of one action, made   *)
(* of the old notebook, give the new one.                                    *)

AsDisk(c) == [files |-> c, folders |-> FoldersOf(c)]

Fits(c, ts) ==
    /\ ts \in Seq(Tasks)
    /\ IsBatch(ts)
    /\ SuitsAll(Shown, ts)
    /\ Together(Shown, BatchTasks(ts, 1 .. Len(ts))) = AsDisk(c)
    /\ PagesDiffer(c)

LEMMA PersistsLeads ==
    ASSUME QueueInv, Inv', NEW c, NEW ts, Persists(c, ts), Fits(c, ts)
    PROVE  QueueInv'
<1>1. /\ running \in Seq(Tasks) /\ pending \in Seq(Tasks) /\ KeysDiffer(pending)
      /\ Tidy(Disk)
      /\ ~overlapped => Separate(running) /\ Housed(running, folders)
      /\ ~displaced /\ ~overlapped => LeadsTo(Disk, running \o pending, Shown)
  BY DEF QueueInv
<1>2. /\ shown' = c /\ pending' = Scheduled(pending, ts) /\ running' = running
      /\ files' = files /\ folders' = folders /\ overlapped' = overlapped
      /\ displaced' = (displaced \/ Displaces(pending, ts))
  BY DEF Persists
<1>3. /\ ts \in Seq(Tasks) /\ IsBatch(ts) /\ SuitsAll(Shown, ts) /\ PagesDiffer(c)
      /\ Together(Shown, BatchTasks(ts, 1 .. Len(ts))) = AsDisk(c)
  BY DEF Fits
<1>4. pending' \in Seq(Tasks) /\ KeysDiffer(pending')
  BY <1>1, <1>2, <1>3, ScheduledIs, ScheduledKeys
<1>5. Disk' = Disk /\ Shown' = AsDisk(c)
  BY <1>2 DEF Disk, Shown, AsDisk
<1>6. ASSUME ~displaced', ~overlapped' PROVE LeadsTo(Disk', running' \o pending', Shown')
  <2>1. ~displaced /\ ~overlapped /\ ~Displaces(pending, ts)
    BY <1>2, <1>6
  <2>2. LeadsTo(Disk, running \o pending, Shown)
    BY <1>1, <2>1
  <2>3. LeadsTo(Disk, running \o Scheduled(pending, ts),
                Together(Shown, BatchTasks(ts, 1 .. Len(ts))))
    BY <1>1, <1>3, <2>1, <2>2, ScheduledLeads
  <2> QED BY <1>2, <1>3, <1>5, <2>3
<1>7. Tidy(Disk') /\ PagesDiffer(shown')
  BY <1>1, <1>2, <1>3, <1>5
<1> QED BY <1>1, <1>2, <1>4, <1>6, <1>7 DEF QueueInv

LEMMA ShownIsDisk ==
    ASSUME NEW c, IsCollection(c)
    PROVE  IsDisk(AsDisk(c)) /\ AsDisk(c).files = c /\ AsDisk(c).folders = FoldersOf(c)
BY DEF IsDisk, AsDisk

\* an action that makes a single call
LEMMA SingleFits ==
    ASSUME IsCollection(shown), NEW t, IsTask(t), Ready(Shown, t),
           t.kind = "create" => t.folder \notin FoldersOf(shown),
           NEW c, PagesDiffer(c), Performed(Shown, t) = AsDisk(c)
    PROVE  Fits(c, <<t>>)
<1> DEFINE ts == <<t>>
<1>1. ts \in Seq(Tasks) /\ Len(ts) = 1 /\ ts[1] = t
  BY DEF Tasks, IsTask
<1>2. \A j \in 1 .. Len(ts) : j = 1
  BY <1>1
<1>3. IsDisk(Shown) /\ Shown.folders = FoldersOf(shown)
  BY ShownIsDisk DEF Shown, AsDisk
<1> HIDE DEF ts
<1>4. IsBatch(ts)
  BY <1>1, <1>2, QueueOfTasks DEF IsBatch
<1>5. SuitsAll(Shown, ts)
  BY <1>1, <1>2, <1>3 DEF SuitsAll
<1>6. BatchTasks(ts, 1 .. Len(ts)) = {t}
  BY <1>1 DEF BatchTasks
<1>7. Together(Shown, BatchTasks(ts, 1 .. Len(ts))) = Performed(Shown, t)
  <2>1. PICK T : T = BatchTasks(ts, 1 .. Len(ts))
    OBVIOUS
  <2>2. T = {} \cup {t} /\ t \notin {} /\ AreApart(T)
    BY <1>4, <1>6, <2>1, BatchIsApart
  <2>3. Performed(Together(Shown, {}), t) = Together(Shown, T)
    BY <1>3, <2>2, TogetherMore
  <2> QED BY <1>3, <2>1, <2>3, TogetherNone
<1> QED BY <1>1, <1>4, <1>5, <1>7 DEF Fits, ts

LEMMA PathsOfShown ==
    ASSUME Inv
    PROVE  /\ IsCollection(shown) /\ IsDisk(Shown) /\ Shown.files = shown
           /\ Shown.folders = FoldersOf(shown) /\ FoldersOf(shown) \subseteq FolderNames
           /\ \A p \in DOMAIN shown :
                 /\ p = <<p[1], p[2]>> /\ p \in Paths
                 /\ p[1] \in FolderNames /\ p[2] \in FileNames /\ shown[p] \in Texts
                 /\ p[1] \in FoldersOf(shown) /\ p[2] \in FilesOf(shown, p[1])
<1>1. IsCollection(shown)
  BY DEF Inv, IsNotebook
<1>2. FoldersOf(shown) \subseteq FolderNames
  BY FoldersAreFinite DEF Inv
<1>3. IsDisk(Shown) /\ Shown.files = shown /\ Shown.folders = FoldersOf(shown)
  BY <1>1, ShownIsDisk DEF Shown, AsDisk
<1>4. \A p \in DOMAIN shown :
         /\ p = <<p[1], p[2]>> /\ p \in Paths
         /\ p[1] \in FolderNames /\ p[2] \in FileNames /\ shown[p] \in Texts
  BY <1>1 DEF IsCollection, Paths
<1>5. \A p \in DOMAIN shown : p[1] \in FoldersOf(shown) /\ p[2] \in FilesOf(shown, p[1])
  BY DEF FoldersOf, FilesOf
<1> QED BY <1>1, <1>2, <1>3, <1>4, <1>5

\* two disks are the same when the files are the same and in the same folders
LEMMA BecomesDisk ==
    ASSUME NEW e, IsDisk(e), NEW c, IsCollection(c), e.folders = FoldersOf(c),
           \A p \in Paths : Content(e, p) = IF p \in DOMAIN c THEN {c[p]} ELSE {}
    PROVE  e = AsDisk(c)
<1>1. IsDisk(AsDisk(c)) /\ AsDisk(c).folders = FoldersOf(c)
  BY ShownIsDisk
<1>2. \A p \in Paths : Content(AsDisk(c), p) = IF p \in DOMAIN c THEN {c[p]} ELSE {}
  BY ShownIsDisk DEF Content
<1> QED BY <1>1, <1>2, SameDisk

\* a script is written to what a collection shows
LEMMA WriteOnDisk ==
    ASSUME NEW c, IsCollection(c), NEW t, IsTask(t), t.kind \in {"write", "create"},
           NEW x, x = With(c, <<t.folder, t.file>>, t.text)
    PROVE  /\ IsCollection(x)
           /\ FoldersOf(x) = FoldersOf(c) \cup {t.folder}
           /\ Performed(AsDisk(c), t) = AsDisk(x)
<1> DEFINE p == <<t.folder, t.file>>
           e == Performed(AsDisk(c), t)
<1>1. p \in Paths /\ t.text \in Texts /\ p[1] = t.folder
  BY DEF IsTask, Task, Paths
<1>2. DOMAIN x = DOMAIN c \cup {p} /\ \A q \in DOMAIN x : x[q] = IF q = p THEN t.text ELSE c[q]
  BY DEF With
<1>3. IsCollection(x)
  BY <1>1 DEF With, IsCollection
<1>4. IsDisk(AsDisk(c)) /\ AsDisk(c).files = c /\ AsDisk(c).folders = FoldersOf(c)
  BY ShownIsDisk
<1>5. IsDisk(e) /\ e.folders = FoldersOf(c) \cup {t.folder}
      /\ \A q \in Paths : Content(e, q) = IF q = p THEN {t.text} ELSE Content(AsDisk(c), q)
  BY <1>4, WritePerformed
<1> HIDE DEF p, e
<1>6. FoldersOf(x) = FoldersOf(c) \cup {t.folder}
  <2>1. \A g : g \in FoldersOf(x) <=> \E q \in DOMAIN x : g = q[1]
    BY DEF FoldersOf
  <2>2. \A g : g \in FoldersOf(c) <=> \E q \in DOMAIN c : g = q[1]
    BY DEF FoldersOf
  <2> QED BY <1>1, <1>2, <2>1, <2>2
<1>7. \A q \in Paths : Content(e, q) = IF q \in DOMAIN x THEN {x[q]} ELSE {}
  BY <1>2, <1>4, <1>5 DEF Content
<1>8. e = AsDisk(x)
  BY <1>3, <1>5, <1>6, <1>7, BecomesDisk
<1> QED BY <1>3, <1>6, <1>8 DEF e

LEMMA WriteFits ==
    ASSUME Inv, PagesDiffer(shown), NEW f \in FoldersOf(shown), NEW s \in FileNames, NEW x \in Texts
    PROVE  Fits(With(shown, <<f, s>>, x), <<WriteScript(f, s, x)>>)
<1> DEFINE t == WriteScript(f, s, x)
           c == With(shown, <<f, s>>, x)
<1>1. IsCollection(shown) /\ Shown = AsDisk(shown) /\ f \in FolderNames
  BY PathsOfShown DEF Shown, AsDisk
<1>2. /\ IsTask(t) /\ t.kind = "write" /\ t.folder = f /\ t.file = s /\ t.text = x
  BY <1>1 DEF IsTask, Task, Kinds, WriteScript
<1>3. c = With(shown, <<t.folder, t.file>>, t.text)
  BY <1>2
<1> HIDE DEF t, c
<1>4. FoldersOf(c) = FoldersOf(shown) /\ Performed(Shown, t) = AsDisk(c)
  <2>1. FoldersOf(c) = FoldersOf(shown) \cup {t.folder} /\ Performed(Shown, t) = AsDisk(c)
    BY <1>1, <1>2, <1>3, WriteOnDisk
  <2> QED BY <1>2, <2>1
<1>5. PagesDiffer(c) /\ Ready(Shown, t)
  BY <1>2, <1>4 DEF PagesDiffer, Ready
<1> QED BY <1>1, <1>2, <1>4, <1>5, SingleFits DEF t, c

LEMMA RemoveScriptFits ==
    ASSUME Inv, PagesDiffer(shown), NEW p \in DOMAIN shown, FilesOf(shown, p[1]) # {p[2]}
    PROVE  Fits(Without(shown, {p}), <<RemoveScript(p[1], p[2])>>)
<1> DEFINE t == RemoveScript(p[1], p[2])
           c == Without(shown, {p})
           e == Performed(Shown, t)
<1>1. p = <<p[1], p[2]>> /\ p \in Paths /\ IsCollection(shown) /\ IsDisk(Shown)
      /\ Shown.files = shown /\ Shown.folders = FoldersOf(shown)
      /\ p[1] \in FolderNames /\ p[2] \in FileNames
  BY PathsOfShown
<1>2. /\ IsTask(t) /\ t.kind = "delete" /\ t.folder = p[1] /\ t.file = p[2]
  BY <1>1, TextAssumption DEF IsTask, Task, Kinds, RemoveScript
<1>3. DOMAIN c = DOMAIN shown \ {p} /\ \A q \in DOMAIN c : c[q] = shown[q]
  BY DEF Without
<1>4. IsCollection(c)
  BY <1>1 DEF Without, IsCollection
<1>5. FoldersOf(c) = FoldersOf(shown)
  <2>1. PICK q \in DOMAIN shown : q[1] = p[1] /\ q[2] # p[2]
    <3>1. PICK s \in FilesOf(shown, p[1]) : s # p[2]
      BY PathsOfShown
    <3> QED BY <3>1 DEF FilesOf
  <2>2. q \in DOMAIN c
    BY <1>3, <2>1
  <2>3. \A g : g \in FoldersOf(c) <=> \E r \in DOMAIN c : g = r[1]
    BY DEF FoldersOf
  <2>4. \A g : g \in FoldersOf(shown) <=> \E r \in DOMAIN shown : g = r[1]
    BY DEF FoldersOf
  <2> HIDE DEF c
  <2>5. FoldersOf(c) \subseteq FoldersOf(shown)
    BY <1>3, <2>3, <2>4
  <2>6. ASSUME NEW g \in FoldersOf(shown) PROVE g \in FoldersOf(c)
    <3>1. PICK r \in DOMAIN shown : g = r[1]
      BY <2>4
    <3>2. CASE r = p
      BY <2>1, <2>2, <2>3, <3>1, <3>2
    <3>3. CASE r # p
      <4>1. r \in DOMAIN c
        BY <1>3, <3>1, <3>3
      <4> QED BY <2>3, <3>1, <4>1
    <3> QED BY <3>2, <3>3
  <2> QED BY <2>5, <2>6
<1> HIDE DEF t, c
<1>6. IsDisk(e) /\ e.folders = FoldersOf(c)
      /\ \A q \in Paths : Content(e, q) = IF q = p THEN {} ELSE Content(Shown, q)
  BY <1>1, <1>2, <1>5, DeletePerformed
<1>7. \A q \in Paths : Content(e, q) = IF q \in DOMAIN c THEN {c[q]} ELSE {}
  BY <1>1, <1>3, <1>6 DEF Content
<1>8. e = AsDisk(c)
  <2> HIDE DEF e
  <2> QED BY <1>4, <1>6, <1>7, BecomesDisk
<1>9. PagesDiffer(c) /\ Ready(Shown, t)
  BY <1>2, <1>5 DEF PagesDiffer, Ready
<1> QED BY <1>1, <1>2, <1>8, <1>9, SingleFits DEF t, c

LEMMA RemoveFolderFits ==
    ASSUME Inv, PagesDiffer(shown), NEW f \in FoldersOf(shown)
    PROVE  Fits(Without(shown, InFolder(shown, f)), <<RemoveFolder(f)>>)
<1> DEFINE t == RemoveFolder(f)
           c == Without(shown, InFolder(shown, f))
           e == Performed(Shown, t)
<1>1. IsCollection(shown) /\ IsDisk(Shown) /\ Shown.files = shown
      /\ Shown.folders = FoldersOf(shown) /\ f \in FolderNames
  BY PathsOfShown
<1>2. /\ IsTask(t) /\ t.kind = "remove" /\ t.folder = f
  BY <1>1, TextAssumption DEF IsTask, Task, Kinds, RemoveFolder
<1>3. /\ DOMAIN c = {q \in DOMAIN shown : q[1] # f}
      /\ \A q \in DOMAIN c : c[q] = shown[q]
  BY DEF Without, InFolder
<1>4. IsCollection(c)
  BY <1>1 DEF Without, IsCollection
<1>5. FoldersOf(c) = FoldersOf(shown) \ {f}
  <2>1. \A g : g \in FoldersOf(c) <=> \E r \in DOMAIN c : g = r[1]
    BY DEF FoldersOf
  <2>2. \A g : g \in FoldersOf(shown) <=> \E r \in DOMAIN shown : g = r[1]
    BY DEF FoldersOf
  <2> HIDE DEF c
  <2> QED BY <1>3, <2>1, <2>2
<1> HIDE DEF t, c
<1>6. IsDisk(e) /\ e.folders = FoldersOf(c)
      /\ \A q \in Paths : Content(e, q) = IF q[1] = f THEN {} ELSE Content(Shown, q)
  <2>1. IsDisk(e) /\ e.folders = Shown.folders \ {f}
        /\ \A q \in Paths : Content(e, q) = IF q[1] = f THEN {} ELSE Content(Shown, q)
    BY <1>1, <1>2, RemovePerformed
  <2> QED BY <1>1, <1>5, <2>1
<1>7. \A q \in Paths : Content(e, q) = IF q \in DOMAIN c THEN {c[q]} ELSE {}
  BY <1>1, <1>3, <1>6 DEF Content
<1>8. e = AsDisk(c)
  <2> HIDE DEF e
  <2> QED BY <1>4, <1>6, <1>7, BecomesDisk
<1>9. PagesDiffer(c) /\ Ready(Shown, t)
  BY <1>2, <1>5 DEF PagesDiffer, Ready
<1> QED BY <1>1, <1>2, <1>8, <1>9, SingleFits DEF t, c

LEMMA RenameFits ==
    ASSUME Inv, PagesDiffer(shown), NEW p \in DOMAIN shown, NEW s \in FileNames,
           s # p[2], <<p[1], s>> \notin DOMAIN shown
    PROVE  Fits(With(Without(shown, {p}), <<p[1], s>>, shown[p]), <<MoveScript(p[1], p[2], s)>>)
<1> DEFINE t == MoveScript(p[1], p[2], s)
           r == <<p[1], s>>
           v == Without(shown, {p})
           c == With(v, r, shown[p])
           e == Performed(Shown, t)
<1>1. p = <<p[1], p[2]>> /\ p \in Paths /\ IsCollection(shown) /\ IsDisk(Shown)
      /\ Shown.files = shown /\ Shown.folders = FoldersOf(shown)
      /\ p[1] \in FolderNames /\ p[2] \in FileNames /\ shown[p] \in Texts
  BY PathsOfShown
<1>2. /\ IsTask(t) /\ t.kind = "rename" /\ t.folder = p[1] /\ t.file = p[2] /\ t.to = s
  BY <1>1, TextAssumption DEF IsTask, Task, Kinds, MoveScript
<1>3. r \in Paths /\ r # p /\ r[1] = p[1] /\ r \notin DOMAIN shown
  BY <1>1 DEF Paths
<1>4. DOMAIN v = DOMAIN shown \ {p} /\ (\A q \in DOMAIN v : v[q] = shown[q]) /\ IsCollection(v)
  BY <1>1 DEF Without, IsCollection
<1>5. DOMAIN c = DOMAIN v \cup {r} /\ \A q \in DOMAIN c : c[q] = IF q = r THEN shown[p] ELSE v[q]
  BY DEF With
<1>6. IsCollection(c)
  <2> HIDE DEF v, r
  <2> QED BY <1>1, <1>3, <1>4 DEF With, IsCollection
<1> HIDE DEF v, r, c
<1>7. FoldersOf(c) = FoldersOf(shown)
  <2>1. \A g : g \in FoldersOf(c) <=> \E q \in DOMAIN c : g = q[1]
    BY DEF FoldersOf
  <2>2. \A g : g \in FoldersOf(shown) <=> \E q \in DOMAIN shown : g = q[1]
    BY DEF FoldersOf
  <2>3. DOMAIN c = (DOMAIN shown \ {p}) \cup {r} /\ r[1] = p[1]
    BY <1>3, <1>4, <1>5
  <2>4. FoldersOf(c) \subseteq FoldersOf(shown)
    BY <2>1, <2>2, <2>3
  <2>5. ASSUME NEW g \in FoldersOf(shown) PROVE g \in FoldersOf(c)
    <3>1. PICK q \in DOMAIN shown : g = q[1]
      BY <2>2
    <3>2. CASE q = p
      BY <2>1, <2>3, <3>1, <3>2
    <3>3. CASE q # p
      <4>1. q \in DOMAIN c
        BY <2>3, <3>1, <3>3
      <4> QED BY <2>1, <3>1, <4>1
    <3> QED BY <3>2, <3>3
  <2> QED BY <2>4, <2>5
<1>8. Content(Shown, p) = {shown[p]} /\ Content(Shown, r) = {}
  BY <1>1, <1>3 DEF Content
<1>9. Ready(Shown, t)
  BY <1>1, <1>2, <1>8 DEF Ready, r
<1> HIDE DEF t
<1>10. IsDisk(e) /\ e.folders = FoldersOf(c)
       /\ \A q \in Paths : Content(e, q) =
             IF q = r THEN {shown[p]} ELSE IF q = p THEN {} ELSE Content(Shown, q)
  <2>1. IsDisk(e) /\ e.folders = FoldersOf(shown)
    BY <1>1, <1>2, RenamePerformed
  <2>2. \A q \in Paths : Content(e, q) =
             IF q = r THEN Content(Shown, p) ELSE IF q = p THEN {} ELSE Content(Shown, q)
    <3>1. <<t.folder, t.file>> = p /\ <<t.folder, t.to>> = r
      BY <1>1, <1>2 DEF r
    <3>2. Content(Shown, p) # {}
      BY <1>8
    <3> QED BY <1>1, <1>2, <3>1, <3>2, RenamePerformed
  <2> QED BY <1>7, <1>8, <2>1, <2>2
<1>11. \A q \in Paths : Content(e, q) = IF q \in DOMAIN c THEN {c[q]} ELSE {}
  BY <1>1, <1>3, <1>4, <1>5, <1>10, ZenonT(60) DEF Content
<1>12. e = AsDisk(c)
  <2> HIDE DEF e
  <2> QED BY <1>6, <1>10, <1>11, BecomesDisk
<1>13. PagesDiffer(c)
  BY <1>7 DEF PagesDiffer
<1>14. t.kind # "create"
  BY <1>2
<1> QED BY <1>1, <1>2, <1>9, <1>12, <1>13, <1>14, SingleFits DEF t, c, r, v
----------------------------------------------------------------------------
(* Actions that make several calls.                                          *)

\* the calls ts are the tasks T, each of them once
Lists(ts, T) ==
    /\ ts \in Seq(Tasks)
    /\ \A j, k \in 1 .. Len(ts) : ts[j] = ts[k] => j = k
    /\ \A j \in 1 .. Len(ts) : ts[j] \in T
    /\ \A t \in T : \E j \in 1 .. Len(ts) : ts[j] = t

\* the tasks T make the collection c of what the notebook shows
Makes(T, c) ==
    /\ AreApart(T)
    /\ \A t, u \in T : KeyOf(t) = KeyOf(u) => t = u
    /\ \A t \in T : Ready(Shown, t) /\ (t.kind = "create" => t.folder \notin FoldersOf(shown))
    /\ Together(Shown, T) = AsDisk(c)
    /\ PagesDiffer(c)

LEMMA ListFits ==
    ASSUME NEW ts, NEW T, Lists(ts, T), NEW c, Makes(T, c)
    PROVE  Fits(c, ts)
<1>1. ts \in Seq(Tasks) /\ Len(ts) \in Nat /\ AreTasks(ts)
  BY LenProperties, QueueOfTasks DEF Lists
<1>2. IsBatch(ts)
  BY <1>1 DEF IsBatch, Lists, Makes, AreApart
<1>3. SuitsAll(Shown, ts)
  BY DEF SuitsAll, Shown, Lists, Makes
<1>4. BatchTasks(ts, 1 .. Len(ts)) = T
  BY DEF BatchTasks, Lists
<1> QED BY <1>1, <1>2, <1>3, <1>4 DEF Fits, Makes

LEMMA SelectedLists ==
    ASSUME NEW s, NEW I \in SUBSET Nat, IsFiniteSet(I),
           \A i \in I : s[i] \in Tasks, \A i, j \in I : s[i] = s[j] => i = j,
           NEW T, T = {s[i] : i \in I}
    PROVE  Lists(Selected(s, I), T)
<1> DEFINE b == Selected(s, I)
           n == Cardinality(I)
<1>1. IsSelection(b, s, I)
  BY SelectedOnce
<1> HIDE DEF b, n
<1>2. /\ n \in Nat
      /\ \A S : (\A k \in 1 .. n : b[k] \in S) => b \in [1 .. n -> S]
  BY <1>1 DEF IsSelection, n
<1>3. PICK h \in [1 .. n -> I] :
          /\ \A k \in 1 .. n : b[k] = s[h[k]]
          /\ \A k, l \in 1 .. n : h[k] = h[l] => k = l
          /\ \A i \in I : \E k \in 1 .. n : h[k] = i
  BY <1>1 DEF IsSelection, n
<1>4. \A k \in 1 .. n : b[k] \in Tasks
  BY <1>3
<1>5. b \in Seq(Tasks) /\ Len(b) = n
  BY <1>2, <1>4, FunctionIsSeq
<1>6. ASSUME NEW k \in 1 .. n
      PROVE  h[k] \in I /\ b[k] = s[h[k]]
  BY <1>3
<1>7. ASSUME NEW j \in 1 .. n, NEW k \in 1 .. n, b[j] = b[k] PROVE j = k
  <2>1. h[j] \in I /\ h[k] \in I /\ b[j] = s[h[j]] /\ b[k] = s[h[k]]
    BY <1>6
  <2>2. s[h[j]] = s[h[k]]
    BY <1>7, <2>1
  <2>3. h[j] = h[k]
    BY <2>1, <2>2
  <2> QED BY <1>3, <2>3
<1>8. \A t \in T : \E j \in 1 .. n : b[j] = t
  BY <1>3
<1>9. \A j \in 1 .. n : b[j] \in T
  BY <1>6
<1> QED BY <1>5, <1>7, <1>8, <1>9 DEF Lists, b

LEMMA ConcatLists ==
    ASSUME NEW a, NEW A, Lists(a, A), NEW b, NEW B, Lists(b, B), A \cap B = {},
           NEW T, T = A \cup B
    PROVE  Lists(a \o b, T)
<1> DEFINE ts == a \o b
<1>1. a \in Seq(Tasks) /\ b \in Seq(Tasks) /\ Len(a) \in Nat /\ Len(b) \in Nat
  BY LenProperties DEF Lists
<1>2. /\ ts \in Seq(Tasks) /\ Len(ts) = Len(a) + Len(b)
      /\ \A i \in 1 .. Len(a) + Len(b) : ts[i] = IF i <= Len(a) THEN a[i] ELSE b[i - Len(a)]
  BY <1>1, ConcatProperties
<1> HIDE DEF ts
<1>3. \A i \in 1 .. Len(ts) :
         \/ i \in 1 .. Len(a) /\ ts[i] = a[i] /\ ts[i] \in A
         \/ \E k \in 1 .. Len(b) : i = Len(a) + k /\ ts[i] = b[k] /\ ts[i] \in B
  <2>1. SUFFICES ASSUME NEW i \in 1 .. Len(ts), i \notin 1 .. Len(a)
                 PROVE  \E k \in 1 .. Len(b) : i = Len(a) + k /\ ts[i] = b[k] /\ ts[i] \in B
    BY <1>1, <1>2 DEF Lists
  <2>2. PICK k \in 1 .. Len(b) : k = i - Len(a)
    BY <1>1, <1>2, <2>1
  <2>3. i = Len(a) + k /\ ts[i] = b[k]
    BY <1>1, <1>2, <2>1, <2>2
  <2> QED BY <2>3 DEF Lists
<1>4. \A i \in 1 .. Len(a) : i \in 1 .. Len(ts) /\ ts[i] = a[i]
  BY <1>1, <1>2
<1>5. ASSUME NEW k \in 1 .. Len(b) PROVE \E i \in 1 .. Len(ts) : ts[i] = b[k]
  <2>1. PICK i : i = Len(a) + k
    OBVIOUS
  <2>2. i \in 1 .. Len(a) + Len(b) /\ ~(i <= Len(a)) /\ i - Len(a) = k
    BY <1>1, <2>1
  <2> QED BY <1>2, <2>2
<1>6. \A i, j \in 1 .. Len(ts) : ts[i] = ts[j] => i = j
  BY <1>3 DEF Lists
<1>7. ASSUME NEW t \in T PROVE \E j \in 1 .. Len(ts) : ts[j] = t
  <2>1. CASE t \in A
    <3>1. PICK i \in 1 .. Len(a) : a[i] = t
      BY <2>1 DEF Lists
    <3> QED BY <1>4, <3>1
  <2>2. CASE t \in B
    <3>1. PICK k \in 1 .. Len(b) : b[k] = t
      BY <2>2 DEF Lists
    <3> QED BY <1>5, <3>1
  <2> QED BY <2>1, <2>2
<1>8. \A j \in 1 .. Len(ts) : ts[j] \in T
  BY <1>3
<1> QED BY <1>2, <1>6, <1>7, <1>8 DEF Lists, ts

LEMMA SingleLists ==
    ASSUME NEW t \in Tasks
    PROVE  Lists(<<t>>, {t})
<1>1. <<t>> \in Seq(Tasks) /\ Len(<<t>>) = 1 /\ <<t>>[1] = t
  OBVIOUS
<1>2. 1 .. 1 = {1}
  OBVIOUS
<1> QED BY <1>1, <1>2 DEF Lists

\* a task that changes one file
LEMMA RegionOfOne ==
    ASSUME NEW t, IsTask(t), t.kind \in {"write", "create", "delete"}
    PROVE  Region(t) = {<<t.folder, t.file>>} /\ <<t.folder, t.file>> \in Paths
<1>1. t.folder \in FolderNames /\ t.file \in FileNames
  BY DEF IsTask, Task
<1>2. \A p \in Paths : p = <<p[1], p[2]>>
  BY DEF Paths
<1>3. <<t.folder, t.file>> \in Paths
  BY <1>1 DEF Paths
<1>4. \A p : p \in Region(t) <=> p \in Paths /\ p[1] = t.folder /\ p[2] = t.file
  BY DEF Region, TouchedFolders, TouchedFiles, WholeFolder
<1> QED BY <1>2, <1>3, <1>4

\* the scripts of a page get other prefixes
LEMMA ReorderLeads ==
    ASSUME QueueInv, Inv', NEW f \in FoldersOf(shown), NEW o \in Orders(FilesOf(shown, f)),
           ReorderScripts(f, o)
    PROVE  QueueInv'
<1> DEFINE F == FilesOf(shown, f)
           n == Prefixed(o)
           moved == {i \in DOMAIN o : o[i] # n[i]}
           D == {i \in moved : \A j \in moved : n[j] # o[i]}
           g == [p \in DOMAIN shown |->
                    IF p[1] = f THEN <<f, n[PlaceOf(p[2], o)]>> ELSE p]
           next == Relocated(shown, g)
           del == [i \in DOMAIN o |-> RemoveScript(f, o[i])]
           wri == [i \in DOMAIN o |-> WriteScript(f, n[i], shown[<<f, o[i]>>])]
           A == {del[i] : i \in D}
           B == {wri[i] : i \in moved}
           T == A \cup B
           ts == Selected(del, D) \o Selected(wri, moved)
<1>1. Persists(next, ts)
  BY Zenon DEF ReorderScripts
<1>2. /\ Inv /\ PagesDiffer(shown) /\ IsCollection(shown) /\ IsDisk(Shown)
      /\ Shown.files = shown /\ Shown.folders = FoldersOf(shown) /\ f \in FolderNames
  BY PathsOfShown DEF QueueInv
<1>3. /\ F \subseteq FileNames /\ Cardinality(F) \in Nat
  BY <1>2, FilesAreFinite DEF Inv
<1>4. /\ DOMAIN o = 1 .. Cardinality(F) /\ IsFiniteSet(DOMAIN o)
      /\ \A i \in DOMAIN o : o[i] \in F /\ o[i] \in FileNames
      /\ \A i, j \in DOMAIN o : o[i] = o[j] => i = j
      /\ \A a \in F : PlaceOf(a, o) \in DOMAIN o /\ o[PlaceOf(a, o)] = a
  <2>1. DOMAIN o = 1 .. Cardinality(F) /\ (\A i \in DOMAIN o : o[i] \in F)
        /\ \A a \in F : PlaceOf(a, o) \in DOMAIN o /\ o[PlaceOf(a, o)] = a
    BY <1>3, OrderNumbers
  <2>2. \A i, j \in DOMAIN o : o[i] = o[j] => i = j
    BY DEF Orders
  <2>3. IsFiniteSet(1 .. Cardinality(F))
    BY <1>3, FS_Interval
  <2> QED BY <1>3, <2>1, <2>2, <2>3
<1>5. /\ \A i \in DOMAIN o : n[i] \in FileNames
      /\ \A i, j \in DOMAIN o : n[i] = n[j] => i = j
  <2>1. \A i \in DOMAIN o : n[i] = <<i, o[i][2]>>
    BY DEF Prefixed
  <2> QED BY <1>3, <1>4, <2>1 DEF FileNames
<1>6. \A s \in F : <<f, s>> \in DOMAIN shown
  <2>1. \A p \in DOMAIN shown : p = <<p[1], p[2]>>
    BY <1>2, PathsOfShown
  <2> QED BY <2>1 DEF FilesOf
<1>7. \A i \in DOMAIN o : /\ <<f, o[i]>> \in DOMAIN shown /\ shown[<<f, o[i]>>] \in Texts
                          /\ <<f, o[i]>> \in Paths /\ <<f, n[i]>> \in Paths
  BY <1>2, <1>4, <1>5, <1>6, PathsOfShown DEF Paths
<1>8. /\ moved \in SUBSET DOMAIN o /\ D \in SUBSET DOMAIN o /\ D \in SUBSET moved
      /\ \A i \in DOMAIN o : i \in moved <=> o[i] # n[i]
      /\ \A i \in moved : i \in D <=> \A j \in moved : n[j] # o[i]
  OBVIOUS
<1>9. \A i \in DOMAIN o :
         /\ IsTask(del[i]) /\ del[i].kind = "delete" /\ del[i].folder = f /\ del[i].file = o[i]
         /\ IsTask(wri[i]) /\ wri[i].kind = "write" /\ wri[i].folder = f /\ wri[i].file = n[i]
         /\ wri[i].text = shown[<<f, o[i]>>]
  BY <1>2, <1>4, <1>5, <1>7, TextAssumption DEF IsTask, Task, Kinds, RemoveScript, WriteScript
<1>10. next = Relocated(shown, g)
  OBVIOUS
<1>11. /\ \A p \in DOMAIN shown : p[1] # f => g[p] = p
       /\ \A i \in DOMAIN o : g[<<f, o[i]>>] = <<f, n[i]>>
       /\ \A p \in DOMAIN shown : p[1] = f => \E i \in DOMAIN o : p = <<f, o[i]>>
  <2>1. \A p \in DOMAIN shown : p[1] # f => g[p] = p
    OBVIOUS
  <2>2. ASSUME NEW i \in DOMAIN o PROVE g[<<f, o[i]>>] = <<f, n[i]>>
    <3>1. PlaceOf(o[i], o) = i
      BY <1>4
    <3> QED BY <1>7, <3>1
  <2>3. ASSUME NEW p \in DOMAIN shown, p[1] = f PROVE \E i \in DOMAIN o : p = <<f, o[i]>>
    <3>1. p[2] \in F /\ p = <<f, p[2]>>
      BY <1>2, <2>3, PathsOfShown
    <3> QED BY <1>4, <3>1
  <2> QED BY <2>1, <2>2, <2>3
<1>12. DOMAIN g = DOMAIN shown /\ g = [p \in DOMAIN shown |-> g[p]]
  OBVIOUS
<1> HIDE DEF F, n, moved, D, g, next, del, wri, A, B, T, ts
<1>13. g \in [DOMAIN shown -> Paths] /\ \A p, q \in DOMAIN shown : g[p] = g[q] => p = q
  <2>1. ASSUME NEW p \in DOMAIN shown
        PROVE  /\ g[p] \in Paths
               /\ \/ p[1] # f /\ g[p] = p
                  \/ \E i \in DOMAIN o : p = <<f, o[i]>> /\ g[p] = <<f, n[i]>>
    <3>1. CASE p[1] # f
      BY <1>2, <1>11, <3>1, PathsOfShown
    <3>2. CASE p[1] = f
      <4>1. PICK i \in DOMAIN o : p = <<f, o[i]>>
        BY <1>11, <3>2
      <4>2. g[p] = <<f, n[i]>>
        BY <1>11, <4>1
      <4> QED BY <1>7, <4>1, <4>2
    <3> QED BY <3>1, <3>2
  <2>2. ASSUME NEW p \in DOMAIN shown, NEW q \in DOMAIN shown, g[p] = g[q]
        PROVE  p = q
    BY <1>5, <2>1, <2>2
  <2> QED BY <1>12, <2>1, <2>2
<1>14. /\ IsCollection(next) /\ DOMAIN next = {g[p] : p \in DOMAIN shown}
       /\ \A p \in DOMAIN shown : next[g[p]] = shown[p]
  <2>1. /\ IsCollection(Relocated(shown, g)) /\ DOMAIN Relocated(shown, g) = {g[p] : p \in DOMAIN shown}
        /\ \A p \in DOMAIN shown : Relocated(shown, g)[g[p]] = shown[p]
    BY <1>2, <1>13, RelocatedApart
  <2> QED BY <1>10, <2>1
<1>15. FoldersOf(next) = FoldersOf(shown)
  <2>1. ASSUME NEW p \in DOMAIN shown PROVE g[p][1] = p[1] /\ g[p] \in DOMAIN next
    <3>1. CASE p[1] # f
      BY <1>11, <1>14, <3>1
    <3>2. CASE p[1] = f
      <4>1. PICK i \in DOMAIN o : p = <<f, o[i]>>
        BY <1>11, <3>2
      <4>2. g[p] = <<f, n[i]>>
        BY <1>11, <4>1
      <4> QED BY <1>14, <4>1, <4>2
    <3> QED BY <3>1, <3>2
  <2>2. \A a : a \in FoldersOf(next) <=> \E q \in DOMAIN next : a = q[1]
    BY DEF FoldersOf
  <2>3. \A a : a \in FoldersOf(shown) <=> \E q \in DOMAIN shown : a = q[1]
    BY DEF FoldersOf
  <2>4. ASSUME NEW a \in FoldersOf(next) PROVE a \in FoldersOf(shown)
    <3>1. PICK p \in DOMAIN shown : a = g[p][1]
      BY <1>14, <2>2
    <3> QED BY <2>1, <2>3, <3>1
  <2>5. ASSUME NEW a \in FoldersOf(shown) PROVE a \in FoldersOf(next)
    <3>1. PICK p \in DOMAIN shown : a = p[1]
      BY <2>3
    <3> QED BY <2>1, <2>2, <3>1
  <2> QED BY <2>4, <2>5
<1>16. Lists(ts, T)
  <2>1. Lists(Selected(del, D), A)
    <3>1. D \in SUBSET Nat /\ IsFiniteSet(D)
      BY <1>3, <1>4, <1>8, FS_Subset
    <3>2. \A i \in D : del[i] \in Tasks
      BY <1>8, <1>9 DEF Tasks, IsTask
    <3>3. ASSUME NEW i \in D, NEW j \in D, del[i] = del[j] PROVE i = j
      <4>1. i \in DOMAIN o /\ j \in DOMAIN o
        BY <1>8
      <4>2. o[i] = o[j]
        BY <1>9, <3>3, <4>1
      <4> QED BY <1>4, <4>1, <4>2
    <3> QED BY <3>1, <3>2, <3>3, SelectedLists DEF A
  <2>2. Lists(Selected(wri, moved), B)
    <3>1. moved \in SUBSET Nat /\ IsFiniteSet(moved)
      BY <1>3, <1>4, <1>8, FS_Subset
    <3>2. \A i \in moved : wri[i] \in Tasks
      BY <1>8, <1>9 DEF Tasks, IsTask
    <3>3. ASSUME NEW i \in moved, NEW j \in moved, wri[i] = wri[j] PROVE i = j
      <4>1. i \in DOMAIN o /\ j \in DOMAIN o
        BY <1>8
      <4>2. n[i] = n[j]
        BY <1>9, <3>3, <4>1
      <4> QED BY <1>5, <4>1, <4>2
    <3> QED BY <3>1, <3>2, <3>3, SelectedLists DEF B
  <2>3. \A t \in A : t.kind = "delete"
    <3>1. \A i \in D : del[i].kind = "delete"
      BY <1>8, <1>9
    <3> QED BY <3>1 DEF A
  <2>4. \A t \in B : t.kind = "write"
    <3>1. \A i \in moved : wri[i].kind = "write"
      BY <1>8, <1>9
    <3> QED BY <3>1 DEF B
  <2>5. A \cap B = {}
    BY <2>3, <2>4
  <2> QED BY <2>1, <2>2, <2>5, ConcatLists DEF T, ts
<1>17. \A t \in T : (\E i \in D : t = del[i]) \/ (\E i \in moved : t = wri[i])
  BY DEF T, A, B
<1>18. ASSUME NEW i \in D
       PROVE  /\ i \in DOMAIN o /\ del[i] \in T /\ \A j \in moved : n[j] # o[i]
              /\ Region(del[i]) = {<<f, o[i]>>}
  <2>1. i \in DOMAIN o /\ del[i] \in T /\ \A j \in moved : n[j] # o[i]
    BY <1>8 DEF T, A
  <2>2. Region(del[i]) = {<<f, o[i]>>}
    BY <1>9, <2>1, RegionOfOne
  <2> QED BY <2>1, <2>2
<1>19. ASSUME NEW i \in moved
       PROVE  /\ i \in DOMAIN o /\ wri[i] \in T
              /\ Region(wri[i]) = {<<f, n[i]>>}
  <2>1. i \in DOMAIN o /\ wri[i] \in T
    BY <1>8 DEF T, B
  <2>2. Region(wri[i]) = {<<f, n[i]>>}
    BY <1>9, <2>1, RegionOfOne
  <2> QED BY <2>1, <2>2
<1>20. ASSUME NEW t \in T
       PROVE  /\ IsTask(t) /\ t.folder = f /\ (t.kind = "delete" \/ t.kind = "write")
              /\ Ready(Shown, t)
  <2>1. CASE \E i \in D : t = del[i]
    <3>1. PICK i \in DOMAIN o : t = del[i]
      BY <1>18, <2>1
    <3> QED BY <1>9, <3>1 DEF Ready
  <2>2. CASE \E i \in moved : t = wri[i]
    <3>1. PICK i \in DOMAIN o : t = wri[i]
      BY <1>19, <2>2
    <3> QED BY <1>9, <3>1 DEF Ready
  <2> QED BY <1>17, <2>1, <2>2
<1>21. ASSUME NEW t \in T, NEW u \in T, t # u PROVE t.file # u.file
  <2>1. CASE (\E i \in D : t = del[i]) /\ (\E j \in D : u = del[j])
    <3>1. PICK i \in D : t = del[i]
      BY <2>1
    <3>2. PICK j \in D : u = del[j]
      BY <2>1
    <3>3. i \in DOMAIN o /\ j \in DOMAIN o
      BY <3>1, <3>2, <1>18, <1>19
    <3>4. t.file = o[i] /\ u.file = o[j]
      BY <1>9, <3>1, <3>2, <3>3
    <3>5. i # j
      BY <1>21, <3>1, <3>2
    <3> QED BY <1>4, <3>3, <3>4, <3>5
  <2>2. CASE (\E i \in moved : t = wri[i]) /\ (\E j \in moved : u = wri[j])
    <3>1. PICK i \in moved : t = wri[i]
      BY <2>2
    <3>2. PICK j \in moved : u = wri[j]
      BY <2>2
    <3>3. i \in DOMAIN o /\ j \in DOMAIN o
      BY <3>1, <3>2, <1>18, <1>19
    <3>4. t.file = n[i] /\ u.file = n[j]
      BY <1>9, <3>1, <3>2, <3>3
    <3>5. i # j
      BY <1>21, <3>1, <3>2
    <3> QED BY <1>5, <3>3, <3>4, <3>5
  <2>3. CASE (\E i \in D : t = del[i]) /\ (\E j \in moved : u = wri[j])
    <3>1. PICK i \in D : t = del[i]
      BY <2>3
    <3>2. PICK j \in moved : u = wri[j]
      BY <2>3
    <3>3. i \in DOMAIN o /\ j \in DOMAIN o
      BY <3>1, <3>2, <1>18, <1>19
    <3>4. t.file = o[i] /\ u.file = n[j]
      BY <1>9, <3>1, <3>2, <3>3
    <3> QED BY <1>18, <3>1, <3>2, <3>4
  <2>4. CASE (\E i \in moved : t = wri[i]) /\ (\E j \in D : u = del[j])
    <3>1. PICK i \in moved : t = wri[i]
      BY <2>4
    <3>2. PICK j \in D : u = del[j]
      BY <2>4
    <3>3. i \in DOMAIN o /\ j \in DOMAIN o
      BY <3>1, <3>2, <1>18, <1>19
    <3>4. t.file = n[i] /\ u.file = o[j]
      BY <1>9, <3>1, <3>2, <3>3
    <3> QED BY <1>18, <3>1, <3>2, <3>4
  <2> QED BY <1>17, <2>1, <2>2, <2>3, <2>4
<1>22. ASSUME NEW t \in T, NEW u \in T, t # u PROVE ~Conflict(t, u) /\ KeyOf(t) # KeyOf(u)
  BY <1>20, <1>21, <1>22 DEF Conflict, KeyOf, WholeFolder, TouchedFiles
<1>23. AreApart(T) /\ \A t, u \in T : KeyOf(t) = KeyOf(u) => t = u
  BY <1>20, <1>22 DEF AreApart
<1> DEFINE e == Together(Shown, T)
<1>24. /\ IsDisk(e) /\ e.folders = (Shown.folders \ AllDrops(Shown, T)) \cup AllAdds(Shown, T)
       /\ \A t \in T : \A p \in Region(t) : Content(e, p) = Content(Performed(Shown, t), p)
       /\ \A p \in Paths : (\A t \in T : p \notin Region(t)) => Content(e, p) = Content(Shown, p)
  BY <1>2, <1>23, TogetherIsDisk
<1> HIDE DEF e
<1>25. e.folders = FoldersOf(next)
  <2>1. \A t \in T : Drops(Shown, t) = {} /\ Adds(Shown, t) \subseteq {f}
    BY <1>20 DEF Drops, Adds, Moves
  <2>2. AllDrops(Shown, T) = {} /\ AllAdds(Shown, T) \subseteq {f}
    BY <2>1 DEF AllDrops, AllAdds
  <2> QED BY <1>2, <1>15, <1>24, <2>2
<1>26. ASSUME NEW p \in Paths
       PROVE  Content(e, p) = IF p \in DOMAIN next THEN {next[p]} ELSE {}
  <2>1. CASE \E i \in moved : p = <<f, n[i]>>
    <3>1. PICK i \in moved : p = <<f, n[i]>>
      BY <2>1
    <3>2. Content(e, p) = {shown[<<f, o[i]>>]}
      BY <1>2, <1>9, <1>19, <1>24, <3>1, WritePerformed
    <3>3. p \in DOMAIN next /\ next[p] = shown[<<f, o[i]>>]
      BY <1>7, <1>11, <1>14, <1>19, <3>1
    <3> QED BY <3>2, <3>3
  <2>2. CASE \E i \in D : p = <<f, o[i]>>
    <3>1. PICK i \in D : p = <<f, o[i]>>
      BY <2>2
    <3>2. Content(e, p) = {}
      BY <1>2, <1>9, <1>18, <1>24, <3>1, DeletePerformed
    <3>3. ASSUME NEW q \in DOMAIN shown, g[q] = p PROVE FALSE
      <4>1. q[1] = f
        BY <1>11, <3>1, <3>3
      <4>2. PICK j \in DOMAIN o : q = <<f, o[j]>>
        BY <1>11, <4>1
      <4>3. n[j] = o[i]
        BY <1>11, <3>1, <3>3, <4>2
      <4>4. j \notin moved
        BY <1>18, <3>1, <4>3
      <4>5. o[j] = n[j]
        BY <1>8, <4>2, <4>4
      <4>6. i = j
        BY <1>4, <1>18, <3>1, <4>2, <4>3, <4>5
      <4> QED BY <1>8, <3>1, <4>4, <4>6
    <3>4. p \notin DOMAIN next
      BY <1>14, <3>3
    <3> QED BY <3>2, <3>4
  <2>3. CASE ~(\E i \in moved : p = <<f, n[i]>>) /\ ~(\E i \in D : p = <<f, o[i]>>)
    <3>1. \A t \in T : p \notin Region(t)
      BY <1>17, <1>18, <1>19, <2>3
    <3>2. Content(e, p) = IF p \in DOMAIN shown THEN {shown[p]} ELSE {}
      BY <1>2, <1>24, <3>1 DEF Content
    <3>3. ASSUME NEW q \in DOMAIN shown, g[q] = p PROVE q = p
      <4>1. CASE q[1] # f
        BY <1>11, <3>3, <4>1
      <4>2. CASE q[1] = f
        <5>1. PICK j \in DOMAIN o : q = <<f, o[j]>>
          BY <1>11, <4>2
        <5>2. p = <<f, n[j]>>
          BY <1>11, <3>3, <5>1
        <5>3. o[j] = n[j]
          BY <1>8, <2>3, <5>1, <5>2
        <5> QED BY <5>1, <5>2, <5>3
      <4> QED BY <4>1, <4>2
    <3>4. ASSUME p \in DOMAIN shown PROVE g[p] = p
      <4>1. CASE p[1] # f
        BY <1>11, <3>4, <4>1
      <4>2. CASE p[1] = f
        <5>1. PICK i \in DOMAIN o : p = <<f, o[i]>>
          BY <1>11, <3>4, <4>2
        <5>2. g[p] = <<f, n[i]>>
          BY <1>11, <5>1
        <5>3. ASSUME i \in moved PROVE FALSE
          <6>1. i \notin D
            BY <2>3, <5>1
          <6>2. PICK j \in moved : n[j] = o[i]
            BY <1>8, <5>3, <6>1
          <6> QED BY <2>3, <5>1, <6>2
        <5> QED BY <1>8, <5>1, <5>2, <5>3
      <4> QED BY <4>1, <4>2
    <3> QED BY <1>14, <3>2, <3>3, <3>4
  <2> QED BY <2>1, <2>2, <2>3
<1>27. e = AsDisk(next)
  BY <1>14, <1>24, <1>25, <1>26, BecomesDisk
<1>28. PagesDiffer(next)
  BY <1>2, <1>15 DEF PagesDiffer
<1>29. Makes(T, next)
  BY <1>20, <1>23, <1>27, <1>28 DEF Makes, e
<1> QED BY <1>1, <1>16, <1>29, ListFits, PersistsLeads

\* n renames the pages in the order o: no page gets the name of another one, old or new
Renames(o, n) ==
    /\ n \in [DOMAIN o -> FolderNames]
    /\ \A i, j \in DOMAIN o : n[i] = n[j] => i = j
    /\ \A i, j \in DOMAIN o : n[i] = o[j] => i = j

PageMoves(o, n, I) == {MoveFolder(o[i], n[i]) : i \in {j \in I : o[j] # n[j]}}

LEMMA PageOrder ==
    ASSUME Inv, NEW o \in Orders(FoldersOf(shown))
    PROVE  /\ DOMAIN o \in SUBSET Nat /\ IsFiniteSet(DOMAIN o)
           /\ \A i \in DOMAIN o : o[i] \in FoldersOf(shown) /\ o[i] \in FolderNames
           /\ \A i, j \in DOMAIN o : o[i] = o[j] => i = j
           /\ \A a \in FoldersOf(shown) : PlaceOf(a, o) \in DOMAIN o /\ o[PlaceOf(a, o)] = a
           /\ \A i \in DOMAIN o : PlaceOf(o[i], o) = i
<1> DEFINE S == FoldersOf(shown)
<1>1. S \subseteq FolderNames /\ Cardinality(S) \in Nat
  BY FoldersAreFinite DEF Inv
<1>2. /\ DOMAIN o = 1 .. Cardinality(S) /\ (\A i \in DOMAIN o : o[i] \in S)
      /\ \A a \in S : PlaceOf(a, o) \in DOMAIN o /\ o[PlaceOf(a, o)] = a
  BY <1>1, OrderNumbers
<1>3. \A i, j \in DOMAIN o : o[i] = o[j] => i = j
  BY DEF Orders
<1>4. IsFiniteSet(1 .. Cardinality(S))
  BY <1>1, FS_Interval
<1>5. \A i \in DOMAIN o : PlaceOf(o[i], o) = i
  BY <1>2, <1>3
<1> QED BY <1>1, <1>2, <1>3, <1>4, <1>5

\* what the moves of pages make of the notebook
LEMMA PagesMove ==
    ASSUME Inv, NEW o \in Orders(FoldersOf(shown)), NEW n, Renames(o, n),
           NEW T, T = PageMoves(o, n, DOMAIN o), NEW c, c = PagesNamed(shown, o, n)
    PROVE  /\ IsCollection(c)
           /\ \A f : f \in FoldersOf(c) <=> \E i \in DOMAIN o : f = n[i]
           /\ AreApart(T)
           /\ \A t, u \in T : KeyOf(t) = KeyOf(u) => t = u
           /\ \A t \in T : t.kind = "move" /\ Ready(Shown, t)
           /\ Together(Shown, T) = AsDisk(c)
<1> DEFINE g == [p \in DOMAIN shown |-> <<n[PlaceOf(p[1], o)], p[2]>>]
           m == [i \in DOMAIN o |-> MoveFolder(o[i], n[i])]
           I == {i \in DOMAIN o : o[i] # n[i]}
           e == Together(Shown, T)
<1>1. /\ \A i \in DOMAIN o : o[i] \in FoldersOf(shown) /\ o[i] \in FolderNames /\ n[i] \in FolderNames
      /\ \A i, j \in DOMAIN o : o[i] = o[j] => i = j
      /\ \A i, j \in DOMAIN o : n[i] = n[j] => i = j
      /\ \A i, j \in DOMAIN o : n[i] = o[j] => i = j
      /\ \A i \in DOMAIN o : PlaceOf(o[i], o) = i
      /\ \A a \in FoldersOf(shown) : PlaceOf(a, o) \in DOMAIN o /\ o[PlaceOf(a, o)] = a
  BY PageOrder DEF Renames
<1>2. /\ IsCollection(shown) /\ IsDisk(Shown) /\ Shown.files = shown
      /\ Shown.folders = FoldersOf(shown)
  BY PathsOfShown
<1>3. \A i \in DOMAIN o : i \in I <=> o[i] # n[i]
  OBVIOUS
<1>4. \A p \in DOMAIN shown : \E i \in DOMAIN o : p = <<o[i], p[2]>> /\ p[1] = o[i] /\ p[2] \in FileNames
  <2>1. \A p \in DOMAIN shown : p = <<p[1], p[2]>> /\ p[1] \in FoldersOf(shown) /\ p[2] \in FileNames
    BY PathsOfShown
  <2> QED BY <1>1, <2>1
<1>5. ASSUME NEW i \in DOMAIN o, NEW p \in DOMAIN shown, p[1] = o[i]
      PROVE  g[p] = <<n[i], p[2]>>
  <2>1. PlaceOf(p[1], o) = i
    BY <1>1, <1>5
  <2> QED BY <2>1
<1>6. DOMAIN g = DOMAIN shown /\ g = [p \in DOMAIN shown |-> g[p]]
  OBVIOUS
<1>7. c = Relocated(shown, g)
  BY DEF PagesNamed
<1>8. \A i \in DOMAIN o : /\ m[i].kind = "move" /\ m[i].folder = o[i] /\ m[i].to = n[i]
                          /\ o[i] # n[i] => IsTask(m[i])
  BY <1>1, TextAssumption DEF MoveFolder, IsTask, Task, Kinds
<1>9. \A t : t \in T <=> \E i \in I : t = m[i]
  BY DEF PageMoves
<1>10. I \subseteq DOMAIN o
  OBVIOUS
<1> HIDE DEF g, m, I, e
<1>11. g \in [DOMAIN shown -> Paths] /\ \A p, q \in DOMAIN shown : g[p] = g[q] => p = q
  <2>1. ASSUME NEW p \in DOMAIN shown PROVE g[p] \in Paths
    <3>1. PICK i \in DOMAIN o : p[1] = o[i] /\ p[2] \in FileNames
      BY <1>4
    <3>2. g[p] = <<n[i], p[2]>>
      BY <1>5, <3>1
    <3> QED BY <1>1, <3>1, <3>2 DEF Paths
  <2>2. ASSUME NEW p \in DOMAIN shown, NEW q \in DOMAIN shown, g[p] = g[q]
        PROVE  p = q
    <3>1. PICK i \in DOMAIN o : p = <<o[i], p[2]>> /\ p[1] = o[i]
      BY <1>4
    <3>2. PICK j \in DOMAIN o : q = <<o[j], q[2]>> /\ q[1] = o[j]
      BY <1>4
    <3>3. g[p] = <<n[i], p[2]>> /\ g[q] = <<n[j], q[2]>>
      BY <1>5, <3>1, <3>2
    <3>4. n[i] = n[j] /\ p[2] = q[2]
      <4>1. <<n[i], p[2]>> = <<n[j], q[2]>>
        BY <2>2, <3>3
      <4> QED BY <4>1
    <3>5. i = j
      BY <1>1, <3>4
    <3> QED BY <3>1, <3>2, <3>4, <3>5
  <2> QED BY <1>6, <2>1, <2>2
<1>12. /\ IsCollection(c) /\ DOMAIN c = {g[p] : p \in DOMAIN shown}
       /\ \A p \in DOMAIN shown : c[g[p]] = shown[p]
  <2>1. /\ IsCollection(Relocated(shown, g)) /\ DOMAIN Relocated(shown, g) = {g[p] : p \in DOMAIN shown}
        /\ \A p \in DOMAIN shown : Relocated(shown, g)[g[p]] = shown[p]
    BY <1>2, <1>11, RelocatedApart
  <2> QED BY <1>7, <2>1
<1>13. \A f : f \in FoldersOf(c) <=> \E i \in DOMAIN o : f = n[i]
  <2>1. \A a : a \in FoldersOf(c) <=> \E q \in DOMAIN c : a = q[1]
    BY DEF FoldersOf
  <2>2. \A a : a \in FoldersOf(shown) <=> \E q \in DOMAIN shown : a = q[1]
    BY DEF FoldersOf
  <2>3. ASSUME NEW f \in FoldersOf(c) PROVE \E i \in DOMAIN o : f = n[i]
    <3>1. PICK p \in DOMAIN shown : f = g[p][1]
      BY <1>12, <2>1
    <3>2. PICK i \in DOMAIN o : p[1] = o[i]
      BY <1>4
    <3>3. g[p] = <<n[i], p[2]>>
      BY <1>5, <3>2
    <3> QED BY <3>1, <3>3
  <2>4. ASSUME NEW i \in DOMAIN o PROVE n[i] \in FoldersOf(c)
    <3>1. PICK p \in DOMAIN shown : o[i] = p[1]
      BY <1>1, <2>2
    <3>2. g[p] = <<n[i], p[2]>> /\ g[p] \in DOMAIN c
      BY <1>5, <1>12, <3>1
    <3>3. g[p][1] = n[i]
      BY <3>2
    <3> QED BY <2>1, <3>2, <3>3
  <2> QED BY <2>3, <2>4
<1>14. ASSUME NEW t \in T
       PROVE  \E i \in DOMAIN o : /\ i \in I /\ t = m[i] /\ o[i] # n[i] /\ IsTask(t)
                                  /\ t.kind = "move" /\ t.folder = o[i] /\ t.to = n[i]
  BY <1>3, <1>8, <1>9, <1>10
<1>15. ASSUME NEW t \in T PROVE t.kind = "move" /\ Moves(Shown, t) /\ Ready(Shown, t)
  <2>1. PICK i \in DOMAIN o : /\ o[i] # n[i] /\ IsTask(t)
                              /\ t.kind = "move" /\ t.folder = o[i] /\ t.to = n[i]
    BY <1>14
  <2>2. t.folder \in Shown.folders
    BY <1>1, <1>2, <2>1
  <2>3. FolderIsFree(Shown, t.to)
    <3>1. SUFFICES ASSUME NEW p \in DOMAIN shown, p[1] = n[i] PROVE FALSE
      BY <1>2, <2>1 DEF FolderIsFree, InFolder
    <3>2. PICK j \in DOMAIN o : p[1] = o[j]
      BY <1>4
    <3>3. i = j
      BY <1>1, <3>1, <3>2
    <3> QED BY <2>1, <3>1, <3>2, <3>3
  <2> QED BY <2>1, <2>2, <2>3 DEF Moves, Ready
<1>16. ASSUME NEW t \in T, NEW u \in T, t # u PROVE ~Conflict(t, u) /\ KeyOf(t) # KeyOf(u)
  <2>1. PICK i \in DOMAIN o : t = m[i] /\ t.kind = "move" /\ t.folder = o[i] /\ t.to = n[i]
    BY <1>14
  <2>2. PICK j \in DOMAIN o : u = m[j] /\ u.kind = "move" /\ u.folder = o[j] /\ u.to = n[j]
    BY <1>14
  <2>3. i # j
    BY <1>16, <2>1, <2>2
  <2>4. o[i] # o[j] /\ n[i] # n[j] /\ n[i] # o[j] /\ n[j] # o[i]
    BY <1>1, <2>3
  <2> QED BY <2>1, <2>2, <2>4 DEF Conflict, KeyOf, TouchedFolders
<1>17. AreApart(T) /\ \A t, u \in T : KeyOf(t) = KeyOf(u) => t = u
  BY <1>14, <1>16 DEF AreApart
<1>18. /\ IsDisk(e) /\ e.folders = (Shown.folders \ AllDrops(Shown, T)) \cup AllAdds(Shown, T)
       /\ \A t \in T : \A p \in Region(t) : Content(e, p) = Content(Performed(Shown, t), p)
       /\ \A p \in Paths : (\A t \in T : p \notin Region(t)) => Content(e, p) = Content(Shown, p)
  BY <1>2, <1>17, TogetherIsDisk DEF e
<1>19. /\ \A f : f \in AllDrops(Shown, T) <=> \E i \in I : f = o[i]
       /\ \A f : f \in AllAdds(Shown, T) <=> \E i \in I : f = n[i]
  <2>1. ASSUME NEW i \in I
        PROVE  m[i] \in T /\ Drops(Shown, m[i]) = {o[i]} /\ Adds(Shown, m[i]) = {n[i]}
    <3>1. m[i] \in T /\ m[i].kind = "move" /\ m[i].folder = o[i] /\ m[i].to = n[i]
      BY <1>8, <1>9, <1>10
    <3> QED BY <1>15, <3>1 DEF Adds, Drops
  <2>2. \A t \in T : \E i \in I : t = m[i]
    BY <1>9
  <2>3. \A f : f \in AllDrops(Shown, T) <=> \E t \in T : f \in Drops(Shown, t)
    BY DEF AllDrops
  <2>4. \A f : f \in AllAdds(Shown, T) <=> \E t \in T : f \in Adds(Shown, t)
    BY DEF AllAdds
  <2>5. ASSUME NEW f PROVE f \in AllDrops(Shown, T) <=> \E i \in I : f = o[i]
    <3>1. ASSUME f \in AllDrops(Shown, T) PROVE \E i \in I : f = o[i]
      <4>1. PICK t \in T : f \in Drops(Shown, t)
        BY <2>3, <3>1
      <4>2. PICK i \in I : t = m[i]
        BY <2>2
      <4> QED BY <2>1, <4>1, <4>2
    <3>2. ASSUME NEW i \in I, f = o[i] PROVE f \in AllDrops(Shown, T)
      BY <2>1, <2>3, <3>2
    <3> QED BY <3>1, <3>2
  <2>6. ASSUME NEW f PROVE f \in AllAdds(Shown, T) <=> \E i \in I : f = n[i]
    <3>1. ASSUME f \in AllAdds(Shown, T) PROVE \E i \in I : f = n[i]
      <4>1. PICK t \in T : f \in Adds(Shown, t)
        BY <2>4, <3>1
      <4>2. PICK i \in I : t = m[i]
        BY <2>2
      <4> QED BY <2>1, <4>1, <4>2
    <3>2. ASSUME NEW i \in I, f = n[i] PROVE f \in AllAdds(Shown, T)
      BY <2>1, <2>4, <3>2
    <3> QED BY <3>1, <3>2
  <2> QED BY <2>5, <2>6
<1>20. e.folders = FoldersOf(c)
  <2>1. ASSUME NEW f PROVE f \in e.folders <=> \E i \in DOMAIN o : f = n[i]
    <3>1. f \in FoldersOf(shown) <=> \E i \in DOMAIN o : f = o[i]
      BY <1>1
    <3>2. f \in e.folders <=>
             \/ (\E i \in DOMAIN o : f = o[i]) /\ ~\E i \in I : f = o[i]
             \/ \E i \in I : f = n[i]
      BY <1>2, <1>18, <1>19, <3>1
    <3>3. ((\E i \in DOMAIN o : f = o[i]) /\ ~\E i \in I : f = o[i])
             => \E i \in DOMAIN o : f = n[i]
      BY <1>3
    <3>4. ASSUME NEW i \in DOMAIN o, f = n[i], i \notin I
          PROVE  f = o[i] /\ ~\E j \in I : f = o[j]
      BY <1>1, <1>3, <1>10, <3>4
    <3> QED BY <1>10, <3>2, <3>3, <3>4
  <2> QED BY <1>13, <2>1
<1>21. ASSUME NEW p \in Paths
       PROVE  Content(e, p) = IF p \in DOMAIN c THEN {c[p]} ELSE {}
  <2>1. ASSUME NEW q \in DOMAIN shown, g[q] = p
        PROVE  \E j \in DOMAIN o : q = <<o[j], p[2]>> /\ p[1] = n[j]
    <3>1. PICK j \in DOMAIN o : q = <<o[j], q[2]>> /\ q[1] = o[j]
      BY <1>4
    <3>2. p = <<n[j], q[2]>>
      BY <1>5, <2>1, <3>1
    <3>3. p[1] = n[j] /\ p[2] = q[2]
      BY <3>2
    <3> QED BY <3>1, <3>3
  <2>2. p \in DOMAIN c <=> \E q \in DOMAIN shown : g[q] = p
    BY <1>12
  <2>3. p = <<p[1], p[2]>> /\ p[2] \in FileNames
    BY DEF Paths
  <2>4. ASSUME NEW j \in DOMAIN o, p[1] = n[j], <<o[j], p[2]>> \in DOMAIN shown
        PROVE  p \in DOMAIN c /\ c[p] = shown[<<o[j], p[2]>>]
    <3>1. PICK q \in DOMAIN shown : q = <<o[j], p[2]>>
      BY <2>4
    <3>2. q[1] = o[j] /\ q[2] = p[2]
      BY <3>1
    <3>3. g[q] = p
      BY <1>5, <2>3, <2>4, <3>2
    <3> QED BY <1>12, <3>1, <3>3
  <2>5. CASE \E i \in I : p[1] = n[i]
    <3>1. PICK i \in I : p[1] = n[i]
      BY <2>5
    <3>2. i \in DOMAIN o /\ m[i] \in T /\ IsTask(m[i]) /\ m[i].kind = "move"
          /\ m[i].folder = o[i] /\ m[i].to = n[i] /\ Moves(Shown, m[i])
      BY <1>3, <1>8, <1>9, <1>10, <1>15
    <3>3. p \in Region(m[i])
      BY <3>1, <3>2 DEF Region, TouchedFolders, WholeFolder
    <3>4. Content(e, p) = Content(Shown, <<o[i], p[2]>>)
      BY <1>2, <1>18, <3>1, <3>2, <3>3, MovePerformed
    <3>5. CASE <<o[i], p[2]>> \in DOMAIN shown
      BY <1>2, <2>4, <3>1, <3>2, <3>4, <3>5 DEF Content
    <3>6. CASE <<o[i], p[2]>> \notin DOMAIN shown
      <4>1. ASSUME NEW q \in DOMAIN shown, g[q] = p PROVE FALSE
        <5>1. PICK j \in DOMAIN o : q = <<o[j], p[2]>> /\ p[1] = n[j]
          BY <2>1, <4>1
        <5>2. i = j
          BY <1>1, <3>1, <3>2, <5>1
        <5> QED BY <3>6, <5>1, <5>2
      <4> QED BY <1>2, <2>2, <3>4, <3>6, <4>1 DEF Content
    <3> QED BY <3>5, <3>6
  <2>6. CASE (\E i \in I : p[1] = o[i]) /\ ~(\E i \in I : p[1] = n[i])
    <3>1. PICK i \in I : p[1] = o[i]
      BY <2>6
    <3>2. i \in DOMAIN o /\ m[i] \in T /\ IsTask(m[i]) /\ m[i].kind = "move"
          /\ m[i].folder = o[i] /\ m[i].to = n[i] /\ Moves(Shown, m[i])
      BY <1>3, <1>8, <1>9, <1>10, <1>15
    <3>3. p \in Region(m[i])
      BY <3>1, <3>2 DEF Region, TouchedFolders, WholeFolder
    <3>4. p[1] # n[i]
      BY <2>6, <3>1
    <3>5. Content(e, p) = {}
      <4>1. PICK t \in T : t = m[i]
        BY <3>2
      <4>2. Content(e, p) = Content(Performed(Shown, t), p)
        BY <1>18, <3>3, <4>1
      <4>3. IsTask(t) /\ t.kind = "move" /\ t.folder = o[i] /\ t.to = n[i] /\ Moves(Shown, t)
        BY <3>2, <4>1
      <4>4. \A r \in Paths : Content(Performed(Shown, t), r) =
                IF r[1] = t.to THEN Content(Shown, <<t.folder, r[2]>>)
                ELSE IF r[1] = t.folder THEN {} ELSE Content(Shown, r)
        BY <1>2, <4>3, MovePerformed
      <4>5. Content(Performed(Shown, t), p) = {}
        BY <3>1, <3>4, <4>3, <4>4
      <4> QED BY <4>2, <4>5
    <3>6. ASSUME NEW q \in DOMAIN shown, g[q] = p PROVE FALSE
      <4>1. PICK j \in DOMAIN o : q = <<o[j], p[2]>> /\ p[1] = n[j]
        BY <2>1, <3>6
      <4>2. j = i
        BY <1>1, <3>1, <3>2, <4>1
      <4> QED BY <3>4, <4>1, <4>2
    <3> QED BY <2>2, <3>5, <3>6
  <2>7. CASE ~(\E i \in I : p[1] = o[i]) /\ ~(\E i \in I : p[1] = n[i])
    <3>1. ASSUME NEW t \in T PROVE p \notin Region(t)
      <4>1. PICK i \in I : t.kind = "move" /\ t.folder = o[i] /\ t.to = n[i]
        BY <1>14
      <4> QED BY <2>7, <4>1 DEF Region, TouchedFolders
    <3>2. Content(e, p) = IF p \in DOMAIN shown THEN {shown[p]} ELSE {}
      BY <1>2, <1>18, <3>1 DEF Content
    <3>3. ASSUME NEW q \in DOMAIN shown, g[q] = p PROVE q = p
      <4>1. PICK j \in DOMAIN o : q = <<o[j], p[2]>> /\ p[1] = n[j]
        BY <2>1, <3>3
      <4>2. o[j] = n[j]
        BY <1>3, <2>7, <4>1
      <4> QED BY <2>3, <4>1, <4>2
    <3>4. ASSUME p \in DOMAIN shown
          PROVE  p \in DOMAIN c /\ c[p] = shown[p]
      <4>1. PICK i \in DOMAIN o : p[1] = o[i]
        BY <1>4, <3>4
      <4>2. o[i] = n[i]
        BY <1>3, <2>7, <4>1
      <4>3. <<o[i], p[2]>> = p
        BY <2>3, <4>1
      <4> QED BY <2>4, <3>4, <4>1, <4>2, <4>3
    <3> QED BY <2>2, <3>2, <3>3, <3>4
  <2> QED BY <2>5, <2>6, <2>7
<1>22. e = AsDisk(c)
  BY <1>12, <1>18, <1>20, <1>21, BecomesDisk
<1> QED BY <1>12, <1>13, <1>15, <1>17, <1>22 DEF e

LEMMA MovesList ==
    ASSUME Inv, NEW o \in Orders(FoldersOf(shown)), NEW n, Renames(o, n),
           NEW I \in SUBSET DOMAIN o, NEW T, T = PageMoves(o, n, I)
    PROVE  Lists(FolderMoves(o, n, I), T)
<1> DEFINE m == [i \in DOMAIN o |-> MoveFolder(o[i], n[i])]
           J == {i \in I : o[i] # n[i]}
<1>1. J \in SUBSET Nat /\ IsFiniteSet(J) /\ J \subseteq DOMAIN o
  <2>1. J \in SUBSET DOMAIN o
    OBVIOUS
  <2> HIDE DEF J
  <2> QED BY <2>1, PageOrder, FS_Subset
<1>2. ASSUME NEW i \in J
      PROVE  m[i] \in Tasks /\ m[i].folder = o[i] /\ m[i] = MoveFolder(o[i], n[i]) /\ i \in DOMAIN o
  <2>1. i \in DOMAIN o /\ o[i] # n[i] /\ o[i] \in FolderNames /\ n[i] \in FolderNames
    BY PageOrder DEF Renames
  <2> QED BY <2>1, TextAssumption DEF MoveFolder, Tasks, IsTask, Task, Kinds
<1>3. FolderMoves(o, n, I) = Selected(m, J)
  BY DEF FolderMoves
<1>4. T = {MoveFolder(o[i], n[i]) : i \in J}
  BY DEF PageMoves
<1> HIDE DEF m, J
<1>5. ASSUME NEW i \in J, NEW j \in J, m[i] = m[j] PROVE i = j
  <2>1. o[i] = o[j]
    BY <1>2, <1>5
  <2> QED BY <1>2, <2>1, PageOrder
<1>6. T = {m[i] : i \in J}
  BY <1>2, <1>4
<1> QED BY <1>1, <1>2, <1>3, <1>5, <1>6, SelectedLists

\* the pages get the prefixes of their places
LEMMA PrefixedRenames ==
    ASSUME Inv, PagesDiffer(shown), NEW o \in Orders(FoldersOf(shown))
    PROVE  /\ Renames(o, Prefixed(o))
           /\ \A i \in DOMAIN o : Prefixed(o)[i] = <<i, o[i][2]>>
<1> DEFINE n == Prefixed(o)
<1>1. \A i \in DOMAIN o : n[i] = <<i, o[i][2]>>
  BY DEF Prefixed
<1>2. \A i \in DOMAIN o : i \in Nat /\ o[i] \in FoldersOf(shown) /\ o[i] \in FolderNames
  BY PageOrder
<1>3. n = [i \in DOMAIN o |-> n[i]]
  BY DEF Prefixed
<1> HIDE DEF n
<1>4. \A i \in DOMAIN o : n[i] \in FolderNames /\ n[i][1] = i /\ n[i][2] = o[i][2]
  BY <1>1, <1>2 DEF FolderNames
<1>5. n \in [DOMAIN o -> FolderNames]
  BY <1>3, <1>4
<1>6. \A i, j \in DOMAIN o : n[i] = n[j] => i = j
  BY <1>4
<1>7. ASSUME NEW i \in DOMAIN o, NEW j \in DOMAIN o, n[i] = o[j] PROVE i = j
  <2>1. o[i][2] = o[j][2]
    BY <1>4, <1>7
  <2>2. o[i] = o[j]
    BY <1>2, <2>1 DEF PagesDiffer
  <2> QED BY <2>2, PageOrder
<1> QED BY <1>1, <1>5, <1>6, <1>7 DEF Renames, n

LEMMA ReorderFoldersLeads ==
    ASSUME QueueInv, Inv', NEW o \in Orders(FoldersOf(shown)), ReorderScriptFolders(o)
    PROVE  QueueInv'
<1>1. Inv /\ PagesDiffer(shown)
  BY DEF QueueInv
<1>2. PICK n : n = Prefixed(o)
  OBVIOUS
<1>3. Persists(PagesNamed(shown, o, n), FolderMoves(o, n, DOMAIN o))
  BY <1>2, Zenon DEF ReorderScriptFolders
<1>4. PICK c : c = PagesNamed(shown, o, n)
  OBVIOUS
<1>5. PICK T : T = PageMoves(o, n, DOMAIN o)
  OBVIOUS
<1>6. Renames(o, n) /\ \A i \in DOMAIN o : n[i] = <<i, o[i][2]>>
  BY <1>1, <1>2, PrefixedRenames
<1>7. Lists(FolderMoves(o, n, DOMAIN o), T)
  BY <1>1, <1>5, <1>6, MovesList
<1>8. /\ \A f : f \in FoldersOf(c) <=> \E i \in DOMAIN o : f = n[i]
      /\ AreApart(T)
      /\ \A t, u \in T : KeyOf(t) = KeyOf(u) => t = u
      /\ \A t \in T : t.kind = "move" /\ Ready(Shown, t)
      /\ Together(Shown, T) = AsDisk(c)
  BY <1>1, <1>4, <1>5, <1>6, PagesMove
<1>9. PagesDiffer(c)
  <2>1. SUFFICES ASSUME NEW f \in FoldersOf(c), NEW g \in FoldersOf(c), f[2] = g[2] PROVE f = g
    BY DEF PagesDiffer
  <2>2. PICK i \in DOMAIN o : f = n[i]
    BY <1>8
  <2>3. PICK j \in DOMAIN o : g = n[j]
    BY <1>8
  <2>4. o[i][2] = o[j][2]
    BY <1>6, <2>1, <2>2, <2>3
  <2>5. o[i] = o[j]
    BY <1>1, <2>4, PageOrder DEF PagesDiffer
  <2> QED BY <1>1, <2>2, <2>3, <2>5, PageOrder
<1>10. Makes(T, c)
  BY <1>8, <1>9 DEF Makes
<1> QED BY <1>3, <1>4, <1>7, <1>10, ListFits, PersistsLeads

LEMMA RenameFolderLeads ==
    ASSUME QueueInv, Inv', NEW o \in Orders(FoldersOf(shown)), NEW c \in PageNames,
           NEW i \in DOMAIN o, RenameScriptFolder(o, i, c)
    PROVE  QueueInv'
<1>1. Inv /\ PagesDiffer(shown)
  BY DEF QueueInv
<1>2. PICK n : n = [Prefixed(o) EXCEPT ![i] = <<i, c>>]
  OBVIOUS
<1>3. PICK x : x = PagesNamed(shown, o, n)
  OBVIOUS
<1>4. PICK t : t = MoveFolder(o[i], n[i])
  OBVIOUS
<1>5. PICK T : T = PageMoves(o, n, DOMAIN o)
  OBVIOUS
<1>6. PICK R : R = PageMoves(o, n, DOMAIN o \ {i})
  OBVIOUS
<1>7. Persists(x, <<t>> \o FolderMoves(o, n, DOMAIN o \ {i}))
  BY <1>2, <1>3, <1>4, Zenon DEF RenameScriptFolder
<1>8. c \notin CleanNames(FoldersOf(shown))
  BY DEF RenameScriptFolder
<1>9. /\ \A k \in DOMAIN o : k \in Nat /\ o[k] \in FoldersOf(shown) /\ o[k] \in FolderNames
      /\ \A k, j \in DOMAIN o : o[k] = o[j] => k = j
  BY <1>1, PageOrder
<1>10. /\ Renames(o, Prefixed(o))
       /\ \A k \in DOMAIN o : Prefixed(o)[k] = <<k, o[k][2]>>
  BY <1>1, PrefixedRenames
<1>11. /\ n[i] = <<i, c>>
       /\ \A k \in DOMAIN o : k # i => n[k] = <<k, o[k][2]>>
       /\ n \in [DOMAIN o -> FolderNames]
  <2>1. Prefixed(o) \in [DOMAIN o -> FolderNames]
    BY <1>10 DEF Renames
  <2>2. <<i, c>> \in FolderNames
    BY <1>9 DEF FolderNames
  <2> QED BY <1>2, <1>10, <2>1, <2>2
<1>12. \A f \in FoldersOf(shown) : f[2] # c
  BY <1>8 DEF CleanNames
<1>13. ASSUME NEW k \in DOMAIN o, NEW j \in DOMAIN o, n[k][2] = n[j][2] PROVE k = j
  <2>1. CASE k # i /\ j # i
    <3>1. o[k][2] = o[j][2]
      BY <1>11, <1>13, <2>1
    <3> QED BY <1>1, <1>9, <3>1 DEF PagesDiffer
  <2>2. CASE k = i \/ j = i
    BY <1>9, <1>11, <1>12, <1>13, <2>2
  <2> QED BY <2>1, <2>2
<1>14. ASSUME NEW k \in DOMAIN o, NEW j \in DOMAIN o, n[k] = o[j] PROVE k = j
  <2>1. k # i
    BY <1>9, <1>11, <1>12, <1>14
  <2>2. o[k][2] = o[j][2]
    BY <1>11, <1>14, <2>1
  <2> QED BY <1>1, <1>9, <2>2 DEF PagesDiffer
<1>15. Renames(o, n)
  BY <1>11, <1>13, <1>14 DEF Renames
<1>16. Lists(FolderMoves(o, n, DOMAIN o \ {i}), R)
  <2>1. DOMAIN o \ {i} \in SUBSET DOMAIN o
    OBVIOUS
  <2> QED BY <1>1, <1>6, <1>15, <2>1, MovesList
<1>17. /\ \A f : f \in FoldersOf(x) <=> \E k \in DOMAIN o : f = n[k]
       /\ AreApart(T)
       /\ \A u, v \in T : KeyOf(u) = KeyOf(v) => u = v
       /\ \A u \in T : u.kind = "move" /\ Ready(Shown, u)
       /\ Together(Shown, T) = AsDisk(x)
  BY <1>1, <1>3, <1>5, <1>15, PagesMove
<1>18. T = {t} \cup R /\ t \notin R /\ t \in T
  <2>1. o[i] # n[i]
    BY <1>9, <1>11, <1>12
  <2>2. T = {t} \cup R
    BY <1>4, <1>5, <1>6, <2>1 DEF PageMoves
  <2>3. t.folder = o[i]
    BY <1>4 DEF MoveFolder
  <2>4. \A u \in R : u.folder # o[i]
    <3>1. ASSUME NEW u \in R PROVE u.folder # o[i]
      <4>1. PICK k \in DOMAIN o \ {i} : u = MoveFolder(o[k], n[k])
        BY <1>6 DEF PageMoves
      <4>2. u.folder = o[k]
        BY <4>1 DEF MoveFolder
      <4> QED BY <1>9, <4>1, <4>2
    <3> QED BY <3>1
  <2> QED BY <2>2, <2>3, <2>4
<1>19. Lists(<<t>> \o FolderMoves(o, n, DOMAIN o \ {i}), T)
  <2>1. t \in Tasks
    BY <1>17, <1>18 DEF AreApart, Tasks, IsTask
  <2>2. Lists(<<t>>, {t})
    BY <2>1, SingleLists
  <2>3. {t} \cap R = {}
    BY <1>18
  <2> QED BY <1>16, <1>18, <2>2, <2>3, ConcatLists
<1>20. PagesDiffer(x)
  <2>1. SUFFICES ASSUME NEW f \in FoldersOf(x), NEW g \in FoldersOf(x), f[2] = g[2] PROVE f = g
    BY DEF PagesDiffer
  <2>2. PICK k \in DOMAIN o : f = n[k]
    BY <1>17
  <2>3. PICK j \in DOMAIN o : g = n[j]
    BY <1>17
  <2> QED BY <1>13, <2>1, <2>2, <2>3
<1>21. Makes(T, x)
  BY <1>17, <1>20 DEF Makes
<1> QED BY <1>7, <1>19, <1>21, ListFits, PersistsLeads

LEMMA CreateFolderLeads ==
    ASSUME QueueInv, Inv', NEW o \in Orders(FoldersOf(shown)), NEW c \in PageNames,
           NEW s \in ScriptNames, CreateScriptFolder(o, c, s)
    PROVE  QueueInv'
<1> DEFINE S == FoldersOf(shown)
<1>1. Inv /\ PagesDiffer(shown) /\ Cardinality(S) \in Nat
  BY FoldersAreFinite DEF QueueInv, Inv
<1>2. PICK n : n = Prefixed(o)
  OBVIOUS
<1>3. PICK x : x = PagesNamed(shown, o, n)
  OBVIOUS
<1>4. PICK f : f = <<Cardinality(S) + 1, c>>
  OBVIOUS
<1>5. PICK t : t = NewFolder(f, <<1, s>>)
  OBVIOUS
<1>6. PICK y : y = With(x, <<f, <<1, s>>>>, EmptyText)
  OBVIOUS
<1>7. PICK T : T = PageMoves(o, n, DOMAIN o)
  OBVIOUS
<1>8. PICK U : U = T \cup {t}
  OBVIOUS
<1>9. Persists(y, Append(FolderMoves(o, n, DOMAIN o), t))
  BY <1>2, <1>3, <1>4, <1>5, <1>6, Zenon DEF CreateScriptFolder
<1>10. c \notin CleanNames(S)
  BY DEF CreateScriptFolder
<1>11. /\ \A k \in DOMAIN o : o[k] \in S
       /\ \A k, j \in DOMAIN o : o[k] = o[j] => k = j
  BY <1>1, PageOrder
<1>12. Renames(o, n) /\ \A k \in DOMAIN o : n[k] = <<k, o[k][2]>>
  BY <1>1, <1>2, PrefixedRenames
<1>13. /\ IsTask(t) /\ t \in Tasks /\ t.kind = "create" /\ t.folder = f /\ t.file = <<1, s>>
       /\ t.text = EmptyText /\ f[2] = c
  BY <1>1, <1>4, <1>5, TextAssumption DEF NewFolder, Tasks, IsTask, Task, Kinds, FolderNames, FileNames
<1>14. /\ IsCollection(x)
       /\ \A g : g \in FoldersOf(x) <=> \E k \in DOMAIN o : g = n[k]
       /\ AreApart(T)
       /\ \A u, v \in T : KeyOf(u) = KeyOf(v) => u = v
       /\ \A u \in T : u.kind = "move" /\ Ready(Shown, u)
       /\ Together(Shown, T) = AsDisk(x)
  BY <1>1, <1>3, <1>7, <1>12, PagesMove
<1>15. \A g \in S : g[2] # c
  BY <1>10 DEF CleanNames
<1>16. \A k \in DOMAIN o : f # o[k] /\ f # n[k] /\ n[k][2] # c
  BY <1>11, <1>12, <1>13, <1>15
<1>17. ASSUME NEW u \in T PROVE ~Conflict(u, t) /\ ~Conflict(t, u) /\ KeyOf(u) # KeyOf(t) /\ u # t
  <2>1. PICK k \in DOMAIN o : u = MoveFolder(o[k], n[k])
    BY <1>7 DEF PageMoves
  <2>2. u.kind = "move" /\ u.folder = o[k] /\ u.to = n[k]
    BY <2>1 DEF MoveFolder
  <2> QED BY <1>13, <1>16, <2>2 DEF Conflict, KeyOf, TouchedFolders
<1>18. AreApart(U) /\ t \notin T /\ \A u, v \in U : KeyOf(u) = KeyOf(v) => u = v
  BY <1>8, <1>13, <1>14, <1>17 DEF AreApart
<1>19. /\ FoldersOf(y) = FoldersOf(x) \cup {f}
       /\ Performed(AsDisk(x), t) = AsDisk(y)
  <2>1. y = With(x, <<t.folder, t.file>>, t.text)
    BY <1>6, <1>13
  <2>2. FoldersOf(y) = FoldersOf(x) \cup {t.folder} /\ Performed(AsDisk(x), t) = AsDisk(y)
    BY <1>13, <1>14, <2>1, WriteOnDisk, ZenonT(60)
  <2> QED BY <1>13, <2>2
<1>20. Together(Shown, U) = AsDisk(y)
  <2>1. IsDisk(Shown)
    BY <1>1, PathsOfShown
  <2>2. Performed(Together(Shown, T), t) = Together(Shown, U)
    BY <1>8, <1>18, <2>1, TogetherMore
  <2> QED BY <1>14, <1>19, <2>2
<1>21. Lists(Append(FolderMoves(o, n, DOMAIN o), t), U)
  <2>1. Lists(FolderMoves(o, n, DOMAIN o), T)
    BY <1>1, <1>7, <1>12, MovesList
  <2>2. Lists(<<t>>, {t})
    BY <1>13, SingleLists
  <2>3. T \cap {t} = {}
    BY <1>18
  <2>4. Lists(FolderMoves(o, n, DOMAIN o) \o <<t>>, U)
    BY <1>8, <2>1, <2>2, <2>3, ConcatLists
  <2>5. FolderMoves(o, n, DOMAIN o) \in Seq(Tasks)
    BY <2>1 DEF Lists
  <2>6. Append(FolderMoves(o, n, DOMAIN o), t) = FolderMoves(o, n, DOMAIN o) \o <<t>>
    BY <1>13, <2>5, AppendIsConcat
  <2> QED BY <2>4, <2>6
<1>22. PagesDiffer(y)
  <2>1. SUFFICES ASSUME NEW g \in FoldersOf(y), NEW h \in FoldersOf(y), g[2] = h[2] PROVE g = h
    BY DEF PagesDiffer
  <2>2. \A a \in FoldersOf(y) : a = f \/ \E k \in DOMAIN o : a = n[k]
    BY <1>14, <1>19
  <2>3. CASE g = f \/ h = f
    BY <1>13, <1>16, <2>1, <2>2, <2>3
  <2>4. CASE g # f /\ h # f
    <3>1. PICK k \in DOMAIN o : g = n[k]
      BY <2>2, <2>4
    <3>2. PICK j \in DOMAIN o : h = n[j]
      BY <2>2, <2>4
    <3>3. o[k][2] = o[j][2]
      BY <1>12, <2>1, <3>1, <3>2
    <3>4. o[k] = o[j]
      BY <1>1, <1>11, <3>3 DEF PagesDiffer
    <3> QED BY <1>11, <3>1, <3>2, <3>4
  <2> QED BY <2>3, <2>4
<1>23. Makes(U, y)
  <2>1. f \notin S
    BY <1>13, <1>15
  <2>2. \A u \in U : Ready(Shown, u) /\ (u.kind = "create" => u.folder \notin S)
    BY <1>8, <1>13, <1>14, <2>1 DEF Ready
  <2> QED BY <1>18, <1>20, <1>22, <2>2 DEF Makes
<1> QED BY <1>9, <1>21, <1>23, ListFits, PersistsLeads
----------------------------------------------------------------------------
(* The steps keep the tasks on their way to what the notebook shows.         *)

LEMMA ScriptActionLeads == QueueInv /\ ScriptAction => QueueInv'
<1> SUFFICES ASSUME QueueInv, ScriptAction PROVE QueueInv'
  OBVIOUS
<1>1. Inv /\ PagesDiffer(shown) /\ Inv'
  BY ScriptActionKeeps DEF QueueInv
<1>2. /\ IsCollection(shown)
      /\ \A p \in DOMAIN shown :
            /\ p = <<p[1], p[2]>> /\ p[2] \in FileNames /\ shown[p] \in Texts
            /\ p[1] \in FoldersOf(shown) /\ p[2] \in FilesOf(shown, p[1])
  BY <1>1, PathsOfShown
<1>3. ASSUME NEW p \in DOMAIN shown, NEW t \in Texts, SetScriptText(p, t) PROVE QueueInv'
  <2>1. Persists(With(shown, p, t), <<WriteScript(p[1], p[2], t)>>)
    BY <1>3, Zenon DEF SetScriptText
  <2>2. Fits(With(shown, <<p[1], p[2]>>, t), <<WriteScript(p[1], p[2], t)>>)
    BY <1>1, <1>2, WriteFits
  <2>3. With(shown, <<p[1], p[2]>>, t) = With(shown, p, t)
    BY <1>2
  <2> QED BY <1>1, <2>1, <2>2, <2>3, PersistsLeads
<1>4. ASSUME NEW f \in FoldersOf(shown), NEW n \in 1 .. MaxPrefix, NEW c \in ScriptNames,
             NEW t \in Texts, CreateScript(f, n, c, t)
      PROVE  QueueInv'
  <2>1. PICK s : s = <<n, c>>
    OBVIOUS
  <2>2. s \in FileNames
    BY <2>1, BoundsAssumption DEF FileNames
  <2>3. Persists(With(shown, <<f, s>>, t), <<WriteScript(f, s, t)>>)
    BY <1>4, <2>1, Zenon DEF CreateScript
  <2> QED BY <1>1, <2>2, <2>3, WriteFits, PersistsLeads
<1>5. ASSUME NEW p \in DOMAIN shown, DeleteScript(p) PROVE QueueInv'
  <2>1. CASE FilesOf(shown, p[1]) # {p[2]}
    <3>1. Persists(Without(shown, {p}), <<RemoveScript(p[1], p[2])>>)
      BY <1>5, <2>1, Zenon DEF DeleteScript
    <3> QED BY <1>1, <2>1, <3>1, RemoveScriptFits, PersistsLeads
  <2>2. CASE FilesOf(shown, p[1]) = {p[2]}
    <3>1. Persists(Without(shown, InFolder(shown, p[1])), <<RemoveFolder(p[1])>>)
      BY <1>5, <2>2, Zenon DEF DeleteScript
    <3> QED BY <1>1, <1>2, <3>1, RemoveFolderFits, PersistsLeads
  <2> QED BY <2>1, <2>2
<1>6. ASSUME NEW p \in DOMAIN shown, NEW c \in ScriptNames, RenameScript(p, c) PROVE QueueInv'
  <2>1. PICK s : s = <<p[2][1], c>>
    OBVIOUS
  <2>2. s \in FileNames /\ s[2] = c
    BY <1>2, <2>1 DEF FileNames
  <2>3. CASE s # p[2]
    <3>1. Persists(With(Without(shown, {p}), <<p[1], s>>, shown[p]),
                   <<MoveScript(p[1], p[2], s)>>)
      BY <1>6, <2>1, <2>3, Zenon DEF RenameScript
    <3>2. c \notin CleanNames(FilesOf(shown, p[1]) \ {p[2]})
      BY <1>6, Zenon DEF RenameScript
    <3>3. s \notin FilesOf(shown, p[1])
      BY <2>2, <2>3, <3>2 DEF CleanNames
    <3>4. <<p[1], s>> \notin DOMAIN shown
      <4>1. \A q \in DOMAIN shown : q[1] = p[1] => q[2] \in FilesOf(shown, p[1])
        BY DEF FilesOf
      <4> QED BY <3>3, <4>1
    <3> QED BY <1>1, <2>2, <2>3, <3>1, <3>4, RenameFits, PersistsLeads
  <2>4. CASE s = p[2]
    <3>1. Persists(shown, <<WriteScript(p[1], p[2], shown[p])>>)
      BY <1>6, <2>1, <2>4, Zenon DEF RenameScript
    <3>2. Fits(With(shown, <<p[1], p[2]>>, shown[p]), <<WriteScript(p[1], p[2], shown[p])>>)
      BY <1>1, <1>2, WriteFits
    <3>3. With(shown, p, shown[p]) = shown
      BY <1>2 DEF With, IsCollection
    <3>4. <<p[1], p[2]>> = p
      BY <1>2
    <3> QED BY <1>1, <3>1, <3>2, <3>3, <3>4, PersistsLeads
  <2> QED BY <2>3, <2>4
<1>7. ASSUME NEW f \in FoldersOf(shown), NEW o \in Orders(FilesOf(shown, f)),
             ReorderScripts(f, o)
      PROVE  QueueInv'
  BY <1>1, <1>7, ReorderLeads
<1> QED BY <1>3, <1>4, <1>5, <1>6, <1>7 DEF ScriptAction

LEMMA FolderActionLeads == QueueInv /\ FolderAction => QueueInv'
<1> SUFFICES ASSUME QueueInv, FolderAction PROVE QueueInv'
  OBVIOUS
<1>1. Inv /\ PagesDiffer(shown) /\ Inv'
  BY FolderActionKeeps DEF QueueInv
<1>2. ASSUME NEW f \in FoldersOf(shown), DeleteScriptFolder(f) PROVE QueueInv'
  <2>1. Persists(Without(shown, InFolder(shown, f)), <<RemoveFolder(f)>>)
    BY <1>2, Zenon DEF DeleteScriptFolder
  <2> QED BY <1>1, <2>1, RemoveFolderFits, PersistsLeads
<1> QED BY <1>1, <1>2, CreateFolderLeads, RenameFolderLeads, ReorderFoldersLeads DEF FolderAction

LEMMA TaskActionLeads == QueueInv /\ TaskAction => QueueInv'
BY OtherStepKeeps, TaskStartsLeads, TaskEndsLeads DEF TaskAction, QueueInv

LEMMA StutterLeads == QueueInv /\ UNCHANGED vars => QueueInv'
<1> SUFFICES ASSUME QueueInv, UNCHANGED vars PROVE QueueInv'
  OBVIOUS
<1>1. /\ shown' = shown /\ pending' = pending /\ running' = running /\ files' = files
      /\ folders' = folders /\ displaced' = displaced /\ overlapped' = overlapped
  BY DEF vars
<1>2. Inv'
  BY OtherStepKeeps DEF QueueInv
<1>3. Disk' = Disk /\ Shown' = Shown
  BY <1>1 DEF Disk, Shown
<1> QED BY <1>1, <1>2, <1>3 DEF QueueInv

LEMMA QueueInvariant == NotebooksDiffer => (Spec => []QueueInv)
<1>1. QueueInv /\ [Next]_vars => QueueInv'
  BY ScriptActionLeads, FolderActionLeads, TaskActionLeads, StutterLeads, Zenon DEF Next
<1>2. NotebooksDiffer /\ Init => QueueInv
  BY InitLeads
<1>3. QueueInv /\ [][Next]_vars => []QueueInv
  BY <1>1, PTL
<1> QED BY <1>2, <1>3, PTL DEF Spec
----------------------------------------------------------------------------
(* The notebook on display has a text for each of finitely many scripts,     *)
(* whatever the reducer is asked for.                                        *)
THEOREM TypeCorrect == Spec => []TypeOK
<1>1. Inv => TypeOK
  BY Zenon DEF Inv, Rest, TypeOK, IsNotebook
<1> QED BY NotebookInvariant, <1>1, PTL

(* Neither DELETE_SCRIPT nor DELETE_SCRIPT_FOLDER ever takes the last script *)
(* away: "Prevent deleting the last remaining page".                         *)
THEOREM NotebookHasScript == Spec => []NotebookIsNeverEmpty
<1>1. Inv => NotebookIsNeverEmpty
  BY DEF Inv, IsNotebook, NotebookIsNeverEmpty
<1> QED BY NotebookInvariant, <1>1, PTL
(* Whatever actions the user takes, and however far their tasks have got,    *)
(* the tasks on their way, performed in order, make the files into what the  *)
(* notebook shows.  The notebook must not be loaded with two pages of the    *)
(* same clean name: reprefixPages would move one of them onto the folder of  *)
(* the other.                                                                *)
THEOREM TasksLeadThere == NotebooksDiffer => (Spec => []TasksLeadToNotebook)
<1>1. QueueInv => TasksLeadToNotebook
  <2>1. SUFFICES ASSUME QueueInv, ~displaced, ~overlapped PROVE Replayed = Shown
    BY DEF TasksLeadToNotebook, Shown
  <2>2. PICK q : q = running \o pending
    OBVIOUS
  <2>3. LeadsTo(Disk, q, Shown) /\ running \in Seq(Tasks) /\ pending \in Seq(Tasks)
    BY <2>1, <2>2 DEF QueueInv
  <2>4. PICK w : IsCourse(w, q) /\ w[0] = Disk /\ w[Len(q)] = Shown
    BY <2>3 DEF LeadsTo
  <2>5. Len(q) \in Nat
    BY <2>2, <2>3, ConcatProperties, LenProperties
  <2>6. Replay(Disk, q) = w[Len(q)]
    BY <2>4, <2>5, ReplayOf DEF IsCourse
  <2> QED BY <2>2, <2>4, <2>6 DEF Replayed
<1> QED BY QueueInvariant, <1>1, PTL

(* "The new clean base is disambiguated unique within the folder, so the     *)
(* destination is free" (renameScript), and renameScriptFolder's "destination*)
(* the caller guarantees is free": no rename that waits or runs meets a file *)
(* under its new name, as long as the tasks keep the order of the calls.     *)
THEOREM RenameTargetsAreFree == NotebooksDiffer => (Spec => []RenameTargetIsFreeInOrder)
<1>1. QueueInv => RenameTargetIsFreeInOrder
  <2>1. SUFFICES ASSUME QueueInv, ~displaced, ~overlapped, NEW i \in DOMAIN running
                 PROVE  /\ running[i].kind = "rename" =>
                              <<running[i].folder, running[i].to>> \notin DOMAIN files
                        /\ running[i].kind = "move" => FolderIsFree(Disk, running[i].to)
    BY DEF RenameTargetIsFreeInOrder, RenameTargetIsFree
  <2>2. PICK q : q = running \o pending
    OBVIOUS
  <2>3. /\ LeadsTo(Disk, q, Shown) /\ Separate(running)
        /\ running \in Seq(Tasks) /\ pending \in Seq(Tasks)
    BY <2>1, <2>2 DEF QueueInv
  <2>4. PICK w : IsCourse(w, q) /\ w[0] = Disk
    BY <2>3 DEF LeadsTo
  <2>5. PICK t : t = running[i]
    OBVIOUS
  <2>6. /\ i \in 1 .. Len(running) /\ Len(running) \in Nat /\ Len(pending) \in Nat
        /\ q \in Seq(Tasks) /\ Len(q) = Len(running) + Len(pending)
        /\ \A k \in 1 .. Len(running) + Len(pending) :
              q[k] = IF k <= Len(running) THEN running[k] ELSE pending[k - Len(running)]
    BY <2>2, <2>3, ConcatProperties, LenProperties
  <2>7. \A k \in 1 .. Len(running) : k \in 1 .. Len(q) /\ q[k] = running[k]
    BY <2>6
  <2>8. q[i] = t /\ IsTask(t) /\ AreTasks(q) /\ i \in 1 .. Len(q) /\ i - 1 \in 0 .. Len(q)
        /\ 0 \in 0 .. Len(q)
    BY <2>5, <2>6, <2>7, QueueOfTasks, SMTT(30) DEF AreTasks
  <2>9. IsDisk(w[0]) /\ IsDisk(w[i - 1]) /\ Ready(w[i - 1], t)
    BY <2>4, <2>8 DEF IsCourse
  <2>10. \A n \in 0 + 1 .. i - 1 : ~Conflict(t, q[n])
    <3>1. SUFFICES ASSUME NEW n \in 1 .. i - 1 PROVE ~Conflict(running[i], running[n])
      BY <2>5, <2>6, <2>7
    <3>2. n \in 1 .. Len(running) /\ i # n
      BY <2>6
    <3> QED BY <2>3, <2>6, <3>2 DEF Separate
  <2>11. PICK b \in 0 .. Len(q) : b = i - 1
    BY <2>8
  <2>12. Agree(w[0], w[b], t)
    <3>1. b \in 0 .. Len(q) /\ \A n \in 0 + 1 .. b : ~Conflict(t, q[n])
      BY <2>10, <2>11
    <3> QED BY <2>4, <2>8, <3>1, CourseKeeps
  <2>13. Ready(Disk, t)
    <3>1. Agree(w[b], w[0], t)
      BY <2>12 DEF Agree
    <3> QED BY <2>4, <2>8, <2>9, <2>11, <3>1, ReadyAlike
  <2> QED BY <2>5, <2>13 DEF Ready, Moves, Content, Disk
<1> QED BY QueueInvariant, <1>1, PTL
=============================================================================
