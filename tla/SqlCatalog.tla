----------------------------- MODULE SqlCatalog -----------------------------
(* The catalog of the SQL core: scripts are analysed one by one, and their    *)
(* analyses are loaded into a catalog that the analysis of every other script *)
(* resolves its table names in.  Analysing allocates the ids of databases and *)
(* schemas, loading registers them; the two are separate calls (the editor    *)
(* analyses in a CodeMirror transaction, the notebook's reducer loads later), *)
(* so that other scripts are analysed, loaded and dropped in between.         *)
(*                                                                            *)
(* Abstractions: a text is the tables it creates and one table it reads from; *)
(* of an object id the entry and the name are kept; names are compared by     *)
(* value (the lifetime of the buffers they point into is left out); columns,  *)
(* functions, common table expressions and the name search index are left     *)
(* out, and so is the table a script publishes as dashql.script."<path>",     *)
(* which is registered like any other.                                        *)
EXTENDS Naturals, FiniteSets, Functions

CONSTANTS
    Scripts,     \* the scripts of a connection, which are also the catalog entries
    Rank,        \* script -> the rank it is loaded with, ties broken by the entry id
    Texts,       \* the texts a script may have
    NoName,      \* the empty name
    Nothing,     \* stands for nullptr
    MaxVersion,  \* bound: the version of the catalog
    MaxId        \* bound: the next database id and the next schema id

ASSUME RanksAreAnOrder == /\ Rank \in [Scripts -> Nat]
                          /\ \A s, t \in Scripts : Rank[s] = Rank[t] => s = t
ASSUME TextsNameTables ==
    \A text \in Texts : /\ IsFiniteSet(text.creates)
                        /\ \A name \in text.creates \cup {text.reads} :
                               name = <<name[1], name[2], name[3]>>
ASSUME BoundsAreNumbers == MaxVersion \in Nat \ {0} /\ MaxId \in Nat

VARIABLES
    analysis,      \* script -> its analyzed_script
    loaded,        \* script -> what the analysis of its catalog entry declares
    synced,        \* script -> whether its entry holds its analyzed_script
    bySchema,      \* entries_by_schema
    byQualified,   \* entries_by_qualified_schema
    databases,     \* the declared databases: name -> id
    schemas,       \* the declared schemas: <<database, schema>> -> <<database id, schema id>>
    nextDatabaseId, nextSchemaId,
    version        \* the version of the catalog

indexes == <<bySchema, byQualified>>
declarations == <<databases, schemas>>
counters == <<nextDatabaseId, nextSchemaId>>
vars == <<analysis, loaded, synced, bySchema, byQualified, databases, schemas,
          nextDatabaseId, nextSchemaId, version>>

SchemaOf(name) == <<name[1], name[2]>>

SchemasOf(creates) == {SchemaOf(name) : name \in creates}

DatabasesOf(creates) == {name[1] : name \in creates}

Names == {NoName} \cup UNION {{name[1], name[2], name[3]} :
                                 name \in UNION {text.creates \cup {text.reads} : text \in Texts}}

Ids == 0 .. MaxId

\* what the analysis of a text may declare to other scripts
Declarations(text) ==
    [creates : {text.creates},
     databases : [DatabasesOf(text.creates) -> Ids],
     schemas : [SchemasOf(text.creates) -> Ids \X Ids]]

ASSUME NothingIsNoDeclaration == \A text \in Texts : Nothing \notin Declarations(text)

\* what other scripts see of an analysis
Declared(a) == [creates |-> a.text.creates, databases |-> a.databases, schemas |-> a.schemas]

Entries == {s \in Scripts : loaded[s] # Nothing}

Init ==
    /\ analysis = [s \in Scripts |-> Nothing]
    /\ loaded = [s \in Scripts |-> Nothing]
    /\ synced = [s \in Scripts |-> FALSE]
    /\ bySchema = {} /\ byQualified = {}
    /\ databases = <<>> /\ schemas = <<>>
    /\ nextDatabaseId = 0 /\ nextSchemaId = 0
    /\ version = 1

-----------------------------------------------------------------------------
(* Resolution of a table name.  A result is the set of tables that may come   *)
(* first; a table is the entry that declares it and its name.                 *)

\* mutant: the entries of highest rank
ForemostOfHighestRank(entries) == {s \in entries : \A t \in entries : Rank[s] >= Rank[t]}

\* the entries that are visited first
Foremost(entries) == {s \in entries : \A t \in entries : Rank[s] <= Rank[t]}

InSchema(creates, schema) == {name \in creates : name[2] = schema}

Everywhere(creates, table) == {name \in creates : name[3] = table}

\* CatalogEntry::ResolveTable
ResolveInEntry(creates, name) ==
    IF name \in creates THEN {name}
    ELSE IF name[1] # NoName THEN {}
    ELSE IF name[2] = NoName THEN Everywhere(creates, name[3])
    ELSE InSchema(creates, name[2])

\* of the matches of each entry, those of the first entry that has any
FirstMatch(matches) ==
    LET matching == {s \in DOMAIN matches : matches[s] # {}}
    IN  UNION {{s} \X matches[s] : s \in Foremost(matching)}

\* Catalog::ResolveTable, for the analysis of script s
ResolveInCatalog(s, name) ==
    LET qualified == {t \in Scripts \ {s} : <<name[1], name[2], t>> \in byQualified}
        unqualified == {t \in Scripts \ {s} : <<name[2], t>> \in bySchema}
        direct == FirstMatch([t \in qualified |-> loaded[t].creates \cap {name}])
    IN  IF direct # {} \/ name[1] # NoName THEN direct
        ELSE IF name[2] # NoName
             THEN FirstMatch([t \in unqualified |-> InSchema(loaded[t].creates, name[2])])
             ELSE FirstMatch([t \in Entries |-> Everywhere(loaded[t].creates, name[3])])

\* the own script first, then the catalog
Resolutions(s, text) ==
    LET own == {s} \X ResolveInEntry(text.creates, text.reads)
        found == IF own # {} THEN own ELSE ResolveInCatalog(s, text.reads)
    IN  IF found # {} THEN found ELSE {Nothing}

-----------------------------------------------------------------------------
(* The operations on scripts and on the catalog.                              *)

\* mutant: the counter is read, not incremented
NumberedAlike(names, first) == [n \in names |-> first]

\* consecutive ids for names that are not declared
Numbered(names, first) ==
    CHOOSE ids \in [names -> first .. first + Cardinality(names) - 1] :
        \A m, n \in names : ids[m] = ids[n] => m = n

\* the text is replaced and analysed against the catalog as it is
Analyze(s, text) ==
    LET newDatabases == DatabasesOf(text.creates) \ DOMAIN databases
        newSchemas == SchemasOf(text.creates) \ DOMAIN schemas
        databaseIds == [d \in DatabasesOf(text.creates) |->
                           IF d \in DOMAIN databases THEN databases[d]
                           ELSE Numbered(newDatabases, nextDatabaseId)[d]]
        schemaIds == [k \in SchemasOf(text.creates) |->
                         IF k \in DOMAIN schemas THEN schemas[k]
                         ELSE <<databaseIds[k[1]], Numbered(newSchemas, nextSchemaId)[k]>>]
    IN  /\ nextDatabaseId + Cardinality(newDatabases) <= MaxId
        /\ nextSchemaId + Cardinality(newSchemas) <= MaxId
        /\ \E table \in Resolutions(s, text) :
               analysis' = [analysis EXCEPT ![s] =
                   [text |-> text, databases |-> databaseIds, schemas |-> schemaIds,
                    table |-> table, version |-> version]]
        /\ synced' = [synced EXCEPT ![s] = FALSE]
        /\ nextDatabaseId' = nextDatabaseId + Cardinality(newDatabases)
        /\ nextSchemaId' = nextSchemaId + Cardinality(newSchemas)
        /\ UNCHANGED <<loaded, indexes, declarations, version>>

\* the declared names whose ids differ from those of an analysis
Conflicts(declared, ids) == {n \in DOMAIN declared \cap DOMAIN ids : declared[n] # ids[n]}

\* the names that are not declared yet are declared with their ids
Extended(declared, ids) ==
    [n \in DOMAIN declared \cup DOMAIN ids |-> IF n \in DOMAIN declared THEN declared[n] ELSE ids[n]]

QualifiedKeys(s, keys) == {<<k[1], k[2], s>> : k \in keys}

SchemaKeys(s, keys) == {<<k[2], s>> : k \in keys}

\* mutant: the version stays
BumpNothing == version < MaxVersion /\ version' = version

Bump == version < MaxVersion /\ version' = version + 1

\* mutant: an entry that is updated keeps its earlier analysis
RegisterOnce(s) ==
    /\ loaded' = [loaded EXCEPT ![s] = IF @ = Nothing THEN Declared(analysis[s]) ELSE @]
    /\ synced' = [synced EXCEPT ![s] = TRUE]
    /\ Bump

Register(s) ==
    /\ loaded' = [loaded EXCEPT ![s] = Declared(analysis[s])]
    /\ synced' = [synced EXCEPT ![s] = TRUE]
    /\ Bump

\* LoadScript of a script that is not loaded
LoadFirst(s) ==
    /\ analysis[s] # Nothing /\ loaded[s] = Nothing
    /\ Conflicts(databases, analysis[s].databases) = {}
    /\ Conflicts(schemas, analysis[s].schemas) = {}
    /\ databases' = Extended(databases, analysis[s].databases)
    /\ schemas' = Extended(schemas, analysis[s].schemas)
    /\ byQualified' = byQualified \cup QualifiedKeys(s, DOMAIN analysis[s].schemas)
    /\ bySchema' = bySchema \cup SchemaKeys(s, DOMAIN analysis[s].schemas)
    /\ Register(s)
    /\ UNCHANGED <<analysis, counters>>

\* CATALOG_ID_OUT_OF_SYNC: what was visited before the conflict stays declared
LoadFails(s) ==
    /\ analysis[s] # Nothing /\ loaded[s] = Nothing
    /\ \/ /\ Conflicts(databases, analysis[s].databases) # {}
          /\ \E visited \in SUBSET (DOMAIN analysis[s].databases \ DOMAIN databases) :
                 databases' = Extended(databases, Restrict(analysis[s].databases, visited))
          /\ UNCHANGED schemas
       \/ /\ Conflicts(databases, analysis[s].databases) = {}
          /\ Conflicts(schemas, analysis[s].schemas) # {}
          /\ databases' = Extended(databases, analysis[s].databases)
          /\ \E visited \in SUBSET (DOMAIN analysis[s].schemas \ DOMAIN schemas) :
                 schemas' = Extended(schemas, Restrict(analysis[s].schemas, visited))
    /\ UNCHANGED <<analysis, loaded, synced, indexes, counters, version>>

\* mutant: other entries that have the schema are not looked for
OrphansAll(keys, index) == keys

\* the schemas that no entry has any more
Orphans(keys, index) == {k \in keys : \A t \in Scripts : <<k[1], k[2], t>> \notin index}

\* UpdateScript: LoadScript of a script that is loaded with another analysis
Update(s) ==
    LET old == loaded[s]
        new == Declared(analysis[s])
        gone == DOMAIN old.schemas \ DOMAIN new.schemas
        added == DOMAIN new.schemas \ DOMAIN old.schemas
        left == byQualified \ QualifiedKeys(s, gone)
        declared == Extended(databases, Restrict(new.databases,
                                                 DOMAIN new.databases \ DOMAIN old.databases))
        deadDatabases == {d \in DOMAIN old.databases \ DOMAIN new.databases :
                              \A key \in byQualified' : key[1] # d}
    IN  /\ analysis[s] # Nothing /\ loaded[s] # Nothing /\ ~synced[s]
        /\ byQualified' = left \cup QualifiedKeys(s, added)
        /\ bySchema' = (bySchema \ SchemaKeys(s, gone)) \cup SchemaKeys(s, added)
        /\ schemas' = Extended(Restrict(schemas, DOMAIN schemas \ Orphans(gone, left)),
                               Restrict(new.schemas, added))
        /\ databases' = Restrict(declared, DOMAIN declared \ deadDatabases)
        /\ Register(s)
        /\ UNCHANGED <<analysis, counters>>

\* mutant: the index by schema name keeps the entry
DropKeepsIndex(s) ==
    /\ loaded[s] # Nothing
    /\ byQualified' = byQualified \ QualifiedKeys(s, DOMAIN loaded[s].schemas)
    /\ loaded' = [loaded EXCEPT ![s] = Nothing]
    /\ synced' = [synced EXCEPT ![s] = FALSE]
    /\ Bump
    /\ UNCHANGED <<analysis, bySchema, declarations, counters>>

\* DropScript, also by the destructor of the script
Drop(s) ==
    /\ loaded[s] # Nothing
    /\ byQualified' = byQualified \ QualifiedKeys(s, DOMAIN loaded[s].schemas)
    /\ bySchema' = bySchema \ SchemaKeys(s, DOMAIN loaded[s].schemas)
    /\ loaded' = [loaded EXCEPT ![s] = Nothing]
    /\ synced' = [synced EXCEPT ![s] = FALSE]
    /\ Bump
    /\ UNCHANGED <<analysis, declarations, counters>>

\* Clear
Clear ==
    /\ bySchema' = {} /\ byQualified' = {}
    /\ loaded' = [s \in Scripts |-> Nothing]
    /\ synced' = [s \in Scripts |-> FALSE]
    /\ Bump
    /\ UNCHANGED <<analysis, declarations, counters>>

Next ==
    \/ \E s \in Scripts :
           \/ \E text \in Texts : Analyze(s, text)
           \/ LoadFirst(s) \/ LoadFails(s) \/ Update(s) \/ Drop(s)
    \/ Clear

Spec == Init /\ [][Next]_vars

-----------------------------------------------------------------------------
(* Properties.                                                                *)

Table == Scripts \X (Names \X Names \X Names)

\* The variables are functions of their scripts, names or schemas; ids and counters are within
\* their bounds; no analysis is newer than the catalog; a loaded analysis is one of a text, and
\* the entry of a script that is in sync declares what the script's own analysis does.
TypeOK ==
    /\ \A a \in {analysis[s] : s \in Scripts} \ {Nothing} :
           /\ a.text \in Texts /\ Declared(a) \in Declarations(a.text)
           /\ a.table \in Table \cup {Nothing}
           /\ a.version \in 1 .. version
    /\ \A s \in Scripts : /\ loaded[s] = Nothing \/ \E text \in Texts : loaded[s] \in Declarations(text)
                          /\ synced[s] => loaded[s] = Declared(analysis[s])
    /\ DOMAIN analysis = Scripts /\ DOMAIN loaded = Scripts /\ synced \in [Scripts -> BOOLEAN]
    /\ bySchema \subseteq Names \X Scripts
    /\ byQualified \subseteq Names \X Names \X Scripts
    /\ DOMAIN databases \subseteq Names /\ databases \in [DOMAIN databases -> Ids]
    /\ DOMAIN schemas \subseteq Names \X Names /\ schemas \in [DOMAIN schemas -> Ids \X Ids]
    /\ nextDatabaseId \in Ids /\ nextSchemaId \in Ids /\ version \in 1 .. MaxVersion

\* The qualified index holds exactly the schemas of the loaded analyses, and the index by
\* schema name never leads to an entry that is gone or lacks the schema: entries.at() would
\* throw.  Loads, updates that move tables between schemas, and drops maintain them separately.
IndexesFollowEntries ==
    /\ byQualified = UNION {QualifiedKeys(s, DOMAIN loaded[s].schemas) : s \in Entries}
    /\ bySchema \subseteq UNION {SchemaKeys(s, DOMAIN loaded[s].schemas) : s \in Entries}

\* What a loaded script references is declared: an update of one script does not erase a
\* database or a schema that another one still uses (UpdateScript asserts the database).
ReferencedIsDeclared ==
    \A s \in Entries : /\ DOMAIN loaded[s].schemas \subseteq DOMAIN schemas
                       /\ DOMAIN loaded[s].databases \subseteq DOMAIN databases

Analyses == ({analysis[s] : s \in Scripts} \cup {loaded[s] : s \in Scripts}) \ {Nothing}

Pairs(map) == {<<n, map[n]>> : n \in DOMAIN map}

AllDatabaseIds == Pairs(databases) \cup UNION {Pairs(a.databases) : a \in Analyses}

AllSchemaIds == Pairs(schemas) \cup UNION {Pairs(a.schemas) : a \in Analyses}

\* An id stands for one name, in the catalog, in the loaded analyses and in those that are
\* not loaded yet: Flatten merges the nodes of all entries by their ids.
IdsNameOneThing ==
    /\ \A p, q \in AllDatabaseIds : p[2] = q[2] => p[1] = q[1]
    /\ \A p, q \in AllSchemaIds : p[2][2] = q[2][2] => p[1] = q[1]

\* The entries that declare a table, whatever the indexes say
Declaring(s, name) == {t \in Entries \ {s} : name \in loaded[t].creates}

\* An analysis of the current version has resolved a fully qualified name as a search through
\* all scripts would, now: to its own table, or else to the one of lowest rank, or to none.
\* A script that keeps its version keeps valid references although others come and go.
QualifiedNamesAreCurrent ==
    \A s \in Scripts :
        LET made == analysis[s]
            name == made.text.reads
            others == Declaring(s, name)
        IN  (made # Nothing /\ made.version = version /\ name[1] # NoName) =>
                \/ made.table = <<s, name>> /\ name \in made.text.creates
                \/ made.table = Nothing /\ name \notin made.text.creates /\ others = {}
                \/ /\ name \notin made.text.creates
                   /\ \E t \in others : /\ made.table = <<t, name>>
                                        /\ \A o \in others : Rank[t] <= Rank[o]

\* The version protects all references: an analysis of the current version would resolve its
\* name to the same table again, so every change that matters to a lookup bumps the version.
VersionProtectsReferences ==
    \A s \in Scripts : (analysis[s] # Nothing /\ analysis[s].version = version) =>
        analysis[s].table \in Resolutions(s, analysis[s].text)

\* An entry is in the index by schema name for every schema it has, so that a name without
\* its database is looked up in all entries.  UpdateScript erases the key of a schema that
\* disappears from one database although the script has it in another.
SchemaIndexIsComplete ==
    \A s \in Entries : SchemaKeys(s, DOMAIN loaded[s].schemas) \subseteq bySchema
=============================================================================
