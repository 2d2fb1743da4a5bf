-------------------------- MODULE SqlCatalogProofs --------------------------
(* Theorems about SqlCatalog, for any scripts, ranks, texts and bounds: its   *)
(* types; that the indexes follow the entries; that what a loaded script      *)
(* references stays declared; that an id stands for one name; and that an     *)
(* analysis of the current version holds references that a lookup would find. *)
EXTENDS SqlCatalog, FiniteSetTheorems, FunctionTheorems, WellFoundedInduction, TLAPS

-----------------------------------------------------------------------------
(* Maps                                                                       *)

\* a map from some of the names to values
IsMap(f, names, values) == DOMAIN f \subseteq names /\ f \in [DOMAIN f -> values]

\* map h has the names of f and g, and its values are theirs
Joins(h, f, g) == DOMAIN h = DOMAIN f \cup DOMAIN g /\ Pairs(h) \subseteq Pairs(f) \cup Pairs(g)

\* A map that is extended keeps its values and takes others from what extends it.
LEMMA ExtendedMap ==
    ASSUME NEW names, NEW values, NEW f, IsMap(f, names, values), NEW g, IsMap(g, names, values)
    PROVE  IsMap(Extended(f, g), names, values) /\ Joins(Extended(f, g), f, g)
  BY DEF IsMap, Extended, Pairs, Joins

\* A map that is restricted to some of its names keeps their values.
LEMMA RestrictedMap ==
    ASSUME NEW names, NEW values, NEW f, IsMap(f, names, values), NEW S \in SUBSET DOMAIN f
    PROVE  /\ IsMap(Restrict(f, S), names, values)
           /\ DOMAIN Restrict(f, S) = S
           /\ Pairs(Restrict(f, S)) \subseteq Pairs(f)
  BY DEF IsMap, Restrict, Pairs

\* Consecutive ids are within their range, and different names get different ones.
LEMMA NumberedApart ==
    ASSUME NEW names, IsFiniteSet(names), NEW first \in Nat
    PROVE  /\ Cardinality(names) \in Nat
           /\ Numbered(names, first) \in [names -> first .. first + Cardinality(names) - 1]
           /\ \A m, n \in names :
                  Numbered(names, first)[m] = Numbered(names, first)[n] => m = n
<1> DEFINE size == Cardinality(names)
           Apart(ids) == \A m, n \in names : ids[m] = ids[n] => m = n
<1>1. size \in Nat /\ ExistsBijection(1 .. size, names)
  BY FS_CardinalityType
<1>2. ExistsBijection(names, 1 .. size)
  BY <1>1, Fun_ExistsBijSymmetric
<1>3. PICK f : f \in Bijection(names, 1 .. size)
  BY <1>2 DEF ExistsBijection
<1>4. f \in [names -> 1 .. size] /\ Apart(f)
  BY <1>3 DEF Bijection, Injection, IsInjective
<1> DEFINE ids == [n \in names |-> first + f[n] - 1]
<1>5. ids \in [names -> first .. first + size - 1] /\ Apart(ids)
  BY <1>1, <1>4
<1> HIDE DEF ids
<1>6. \E g \in [names -> first .. first + size - 1] : Apart(g)
  BY <1>5
<1>7. QED
  BY <1>1, <1>6 DEF Numbered

-----------------------------------------------------------------------------
(* Texts and what their analyses declare                                      *)

\* The tables of a text have names of three parts, and it creates finitely many of them.
LEMMA TextNames ==
    ASSUME NEW text \in Texts
    PROVE  /\ \A name \in text.creates \cup {text.reads} : name \in Names \X Names \X Names
           /\ DatabasesOf(text.creates) \subseteq Names
           /\ SchemasOf(text.creates) \subseteq Names \X Names
           /\ \A k \in SchemasOf(text.creates) : k[1] \in DatabasesOf(text.creates)
           /\ \A d \in DatabasesOf(text.creates) : \E k \in SchemasOf(text.creates) : k[1] = d
<1>1. \A name \in text.creates \cup {text.reads} :
         /\ name = <<name[1], name[2], name[3]>>
         /\ name[1] \in Names /\ name[2] \in Names /\ name[3] \in Names
  BY TextsNameTables DEF Names
<1>2. \A name \in text.creates : SchemaOf(name) \in SchemasOf(text.creates)
  BY DEF SchemasOf
<1>3. \A name \in text.creates \cup {text.reads} : name \in Names \X Names \X Names
  BY <1>1
<1>4. DatabasesOf(text.creates) \subseteq Names
  BY <1>1 DEF DatabasesOf
<1>5. /\ SchemasOf(text.creates) \subseteq Names \X Names
      /\ \A k \in SchemasOf(text.creates) : k[1] \in DatabasesOf(text.creates)
  BY <1>1 DEF DatabasesOf, SchemasOf, SchemaOf
<1>6. ASSUME NEW d \in DatabasesOf(text.creates)
      PROVE  \E k \in SchemasOf(text.creates) : k[1] = d
  <2>1. PICK name \in text.creates : d = name[1]
    BY DEF DatabasesOf
  <2>2. SchemaOf(name)[1] = d
    BY <2>1 DEF SchemaOf
  <2>3. QED
    BY <1>2, <2>2
<1>7. QED
  BY <1>3, <1>4, <1>5, <1>6

\* A text names finitely many databases and schemas.
LEMMA TextsAreFinite ==
    ASSUME NEW text \in Texts
    PROVE  IsFiniteSet(DatabasesOf(text.creates)) /\ IsFiniteSet(SchemasOf(text.creates))
<1>1. IsFiniteSet(text.creates)
  BY TextsNameTables
<1>2. ASSUME NEW f, NEW T, f \in Surjection(text.creates, T)
      PROVE  IsFiniteSet(T)
  BY <1>1, <1>2, FS_Surjection DEF ExistsSurjection
<1>3. [name \in text.creates |-> name[1]] \in Surjection(text.creates, DatabasesOf(text.creates))
  BY DEF Surjection, DatabasesOf
<1>4. [name \in text.creates |-> SchemaOf(name)] \in Surjection(text.creates, SchemasOf(text.creates))
  BY DEF Surjection, SchemasOf
<1>5. QED
  BY <1>2, <1>3, <1>4

IsDeclaration(d) == \E text \in Texts : d \in Declarations(text)

\* What a declaration declares: the databases and the schemas of the tables it creates.
LEMMA DeclarationNames ==
    ASSUME NEW d, IsDeclaration(d)
    PROVE  /\ d # Nothing
           /\ d.creates \subseteq Names \X Names \X Names
           /\ IsMap(d.databases, Names, Ids)
           /\ IsMap(d.schemas, Names \X Names, Ids \X Ids)
           /\ \A name \in d.creates : SchemaOf(name) \in DOMAIN d.schemas
           /\ \A k \in DOMAIN d.schemas : k[1] \in DOMAIN d.databases
           /\ \A n \in DOMAIN d.databases : \E k \in DOMAIN d.schemas : k[1] = n
<1>1. PICK text \in Texts : d \in Declarations(text)
  BY DEF IsDeclaration
<1>2. d # Nothing
  BY <1>1, NothingIsNoDeclaration
<1>3. /\ d.creates = text.creates
      /\ d.databases \in [DatabasesOf(text.creates) -> Ids]
      /\ d.schemas \in [SchemasOf(text.creates) -> Ids \X Ids]
  BY <1>1 DEF Declarations
<1>4. \A name \in text.creates : SchemaOf(name) \in SchemasOf(text.creates)
  BY DEF SchemasOf
<1>5. QED
  BY <1>2, <1>3, <1>4, TextNames DEF IsMap

-----------------------------------------------------------------------------
(* Resolution                                                                 *)

\* The indexes lead to entries that declare something.
LEMMA IndexesLeadToEntries ==
    ASSUME TypeOK, IndexesFollowEntries, NEW t \in Scripts
    PROVE  /\ loaded[t] # Nothing => IsDeclaration(loaded[t])
           /\ \A n, m : <<n, m, t>> \in byQualified <=>
                  loaded[t] # Nothing /\ <<n, m>> \in DOMAIN loaded[t].schemas
           /\ \A m : <<m, t>> \in bySchema =>
                  loaded[t] # Nothing /\ \E k \in DOMAIN loaded[t].schemas : k[2] = m
<1>1. \A s \in Scripts : loaded[s] # Nothing => IsDeclaration(loaded[s])
  BY DEF TypeOK, IsDeclaration
<1>2. \A s \in Entries : DOMAIN loaded[s].schemas \subseteq Names \X Names
  BY <1>1, DeclarationNames DEF Entries, IsMap
<1>3. ASSUME NEW n, NEW m
      PROVE  <<n, m, t>> \in byQualified <=>
                 loaded[t] # Nothing /\ <<n, m>> \in DOMAIN loaded[t].schemas
  <2>1. ASSUME <<n, m, t>> \in byQualified
        PROVE  t \in Entries /\ <<n, m>> \in DOMAIN loaded[t].schemas
    <3>1. PICK s \in Entries : <<n, m, t>> \in QualifiedKeys(s, DOMAIN loaded[s].schemas)
      BY <2>1 DEF IndexesFollowEntries
    <3>2. PICK k \in DOMAIN loaded[s].schemas : <<n, m, t>> = <<k[1], k[2], s>>
      BY <3>1 DEF QualifiedKeys
    <3>3. k = <<n, m>> /\ s = t
      BY <1>2, <3>2
    <3>4. QED
      BY <3>3
  <2>2. ASSUME t \in Entries, <<n, m>> \in DOMAIN loaded[t].schemas
        PROVE  <<n, m, t>> \in byQualified
    <3>1. <<n, m, t>> \in QualifiedKeys(t, DOMAIN loaded[t].schemas)
      BY <2>2 DEF QualifiedKeys
    <3>2. QED
      BY <2>2, <3>1 DEF IndexesFollowEntries
  <2>3. QED
    BY <2>1, <2>2 DEF Entries
<1>4. ASSUME NEW m, <<m, t>> \in bySchema
      PROVE  loaded[t] # Nothing /\ \E k \in DOMAIN loaded[t].schemas : k[2] = m
  <2>1. PICK s \in Entries : <<m, t>> \in SchemaKeys(s, DOMAIN loaded[s].schemas)
    BY <1>4 DEF IndexesFollowEntries
  <2>2. PICK k \in DOMAIN loaded[s].schemas : <<m, t>> = <<k[2], s>>
    BY <2>1 DEF SchemaKeys
  <2>3. QED
    BY <2>2 DEF Entries
<1>5. QED
  BY <1>1, <1>3, <1>4

\* A match of the first entry is a match of one of the entries.
LEMMA FirstMatchIsMatch ==
    ASSUME NEW matches, NEW table \in FirstMatch(matches)
    PROVE  \E t \in DOMAIN matches : \E name \in matches[t] : table = <<t, name>>
  BY DEF FirstMatch, Foremost

\* A lookup finds tables that an entry declares, or that the own text creates.
LEMMA ResolutionsAreTables ==
    ASSUME TypeOK, IndexesFollowEntries, NEW s \in Scripts, NEW text \in Texts
    PROVE  Resolutions(s, text) \subseteq Table \cup {Nothing}
<1> DEFINE name == text.reads
           qualified == {t \in Scripts \ {s} : <<name[1], name[2], t>> \in byQualified}
           unqualified == {t \in Scripts \ {s} : <<name[2], t>> \in bySchema}
<1>1. text.creates \subseteq Names \X Names \X Names /\ name \in Names \X Names \X Names
  BY TextNames
<1>2. \A t \in Entries \cup unqualified \cup qualified :
          t \in Scripts /\ loaded[t].creates \subseteq Names \X Names \X Names
  BY IndexesLeadToEntries, DeclarationNames DEF Entries
<1>3. {s} \X ResolveInEntry(text.creates, name) \subseteq Table
  <2>1. ResolveInEntry(text.creates, name) \subseteq text.creates
    BY DEF ResolveInEntry, Everywhere, InSchema
  <2>2. QED
    BY <1>1, <2>1 DEF Table
<1>4. ASSUME NEW found, NEW S \in SUBSET Scripts,
             \A t \in S : found[t] \subseteq Names \X Names \X Names,
             DOMAIN found = S
      PROVE  FirstMatch(found) \subseteq Table
  BY <1>4, FirstMatchIsMatch DEF Table
<1>5. FirstMatch([t \in qualified |-> loaded[t].creates \cap {name}]) \subseteq Table
  <2>1. \A t \in qualified : loaded[t].creates \cap {name} \subseteq Names \X Names \X Names
    BY <1>1
  <2>2. QED
    BY <1>4, <2>1
<1>6. FirstMatch([t \in unqualified |-> InSchema(loaded[t].creates, name[2])]) \subseteq Table
  <2>1. \A t \in unqualified : InSchema(loaded[t].creates, name[2]) \subseteq Names \X Names \X Names
    BY <1>2 DEF InSchema
  <2>2. QED
    BY <1>4, <2>1
<1>7. FirstMatch([t \in Entries |-> Everywhere(loaded[t].creates, name[3])]) \subseteq Table
  <2>1. \A t \in Entries : Everywhere(loaded[t].creates, name[3]) \subseteq Names \X Names \X Names
    BY <1>2 DEF Everywhere
  <2>2. Entries \subseteq Scripts
    BY DEF Entries
  <2>3. QED
    BY <1>4, <2>1, <2>2
<1>8. ResolveInCatalog(s, name) \subseteq Table
  BY <1>5, <1>6, <1>7 DEF ResolveInCatalog
<1>9. QED
  BY <1>3, <1>8 DEF Resolutions

-----------------------------------------------------------------------------
(* Types, and the indexes of the entries                                      *)

\* an analysis that some text may have got up to a version
IsAnalysis(a, newest) ==
    /\ a.text \in Texts /\ Declared(a) \in Declarations(a.text)
    /\ a.table \in Table \cup {Nothing}
    /\ a.version \in 1 .. newest

LEMMA AnalysisIsAnalysis ==
    ASSUME TypeOK, NEW s \in Scripts, analysis[s] # Nothing
    PROVE  IsAnalysis(analysis[s], version)
  BY DEF TypeOK, IsAnalysis

\* What an analysis declares.
LEMMA AnalysisDeclares ==
    ASSUME NEW a, NEW newest, IsAnalysis(a, newest)
    PROVE  /\ IsDeclaration(Declared(a))
           /\ Declared(a).creates = a.text.creates
           /\ Declared(a).databases = a.databases
           /\ Declared(a).schemas = a.schemas
           /\ IsMap(a.databases, Names, Ids)
           /\ IsMap(a.schemas, Names \X Names, Ids \X Ids)
           /\ \A k \in DOMAIN a.schemas : k[1] \in DOMAIN a.databases
<1>1. IsDeclaration(Declared(a))
  BY DEF IsAnalysis, IsDeclaration
<1>2. /\ Declared(a).creates = a.text.creates
      /\ Declared(a).databases = a.databases
      /\ Declared(a).schemas = a.schemas
  BY DEF Declared
<1>3. QED
  BY <1>1, <1>2, DeclarationNames

\* the ids that Analyze() chooses
NewDatabases(text) == DatabasesOf(text.creates) \ DOMAIN databases
NewSchemas(text) == SchemasOf(text.creates) \ DOMAIN schemas
DatabaseIds(text) ==
    [d \in DatabasesOf(text.creates) |->
        IF d \in DOMAIN databases THEN databases[d]
        ELSE Numbered(NewDatabases(text), nextDatabaseId)[d]]
SchemaIds(text) ==
    [k \in SchemasOf(text.creates) |->
        IF k \in DOMAIN schemas THEN schemas[k]
        ELSE <<DatabaseIds(text)[k[1]], Numbered(NewSchemas(text), nextSchemaId)[k]>>]

\* An analysis and what it leaves alone.
LEMMA AnalyzeSteps ==
    ASSUME NEW s \in Scripts, NEW text \in Texts, Analyze(s, text)
    PROVE  /\ nextDatabaseId + Cardinality(NewDatabases(text)) <= MaxId
           /\ nextSchemaId + Cardinality(NewSchemas(text)) <= MaxId
           /\ \E table \in Resolutions(s, text) :
                  analysis' = [analysis EXCEPT ![s] =
                      [text |-> text, databases |-> DatabaseIds(text), schemas |-> SchemaIds(text),
                       table |-> table, version |-> version]]
           /\ synced' = [synced EXCEPT ![s] = FALSE]
           /\ nextDatabaseId' = nextDatabaseId + Cardinality(NewDatabases(text))
           /\ nextSchemaId' = nextSchemaId + Cardinality(NewSchemas(text))
           /\ loaded' = loaded /\ bySchema' = bySchema /\ byQualified' = byQualified
           /\ databases' = databases /\ schemas' = schemas /\ version' = version
<1>1. Analyze(s, text)
  OBVIOUS
<1>2. QED
  BY <1>1, Zenon DEF Analyze, NewDatabases, NewSchemas, DatabaseIds, SchemaIds, indexes, declarations

\* The ids that Analyze() chooses are declared ones or new ones, and the new ones differ.
LEMMA AnalyzeNumbers ==
    ASSUME TypeOK, NEW text \in Texts,
           nextDatabaseId + Cardinality(NewDatabases(text)) <= MaxId,
           nextSchemaId + Cardinality(NewSchemas(text)) <= MaxId
    PROVE  /\ nextDatabaseId + Cardinality(NewDatabases(text)) \in Ids
           /\ nextSchemaId + Cardinality(NewSchemas(text)) \in Ids
           /\ nextDatabaseId + Cardinality(NewDatabases(text)) >= nextDatabaseId
           /\ nextSchemaId + Cardinality(NewSchemas(text)) >= nextSchemaId
           /\ DatabaseIds(text) \in [DatabasesOf(text.creates) -> Ids]
           /\ SchemaIds(text) \in [SchemasOf(text.creates) -> Ids \X Ids]
           /\ \A d \in DatabasesOf(text.creates) :
                  \/ d \in DOMAIN databases /\ DatabaseIds(text)[d] = databases[d]
                  \/ /\ DatabaseIds(text)[d] >= nextDatabaseId
                     /\ DatabaseIds(text)[d] < nextDatabaseId + Cardinality(NewDatabases(text))
                     /\ d \in NewDatabases(text)
           /\ \A m, n \in NewDatabases(text) : DatabaseIds(text)[m] = DatabaseIds(text)[n] => m = n
           /\ \A k \in SchemasOf(text.creates) :
                  \/ k \in DOMAIN schemas /\ SchemaIds(text)[k] = schemas[k]
                  \/ /\ SchemaIds(text)[k][2] >= nextSchemaId
                     /\ SchemaIds(text)[k][2] < nextSchemaId + Cardinality(NewSchemas(text))
                     /\ k \in NewSchemas(text)
           /\ \A m, n \in NewSchemas(text) : SchemaIds(text)[m][2] = SchemaIds(text)[n][2] => m = n
<1> DEFINE ND == NewDatabases(text)
           NS == NewSchemas(text)
           dIds == Numbered(ND, nextDatabaseId)
           sIds == Numbered(NS, nextSchemaId)
<1>1. IsFiniteSet(ND) /\ IsFiniteSet(NS)
  BY TextsAreFinite, FS_Difference DEF NewDatabases, NewSchemas
<1>2. nextDatabaseId \in Nat /\ nextSchemaId \in Nat /\ MaxId \in Nat
  BY BoundsAreNumbers DEF TypeOK, Ids
<1>3. /\ Cardinality(ND) \in Nat
      /\ dIds \in [ND -> nextDatabaseId .. nextDatabaseId + Cardinality(ND) - 1]
      /\ \A m, n \in ND : dIds[m] = dIds[n] => m = n
  BY <1>1, <1>2, NumberedApart
<1>4. /\ Cardinality(NS) \in Nat
      /\ sIds \in [NS -> nextSchemaId .. nextSchemaId + Cardinality(NS) - 1]
      /\ \A m, n \in NS : sIds[m] = sIds[n] => m = n
  BY <1>1, <1>2, NumberedApart
<1> HIDE DEF dIds, sIds
<1>5. \A d \in ND : dIds[d] \in Ids /\ dIds[d] >= nextDatabaseId
                    /\ dIds[d] < nextDatabaseId + Cardinality(ND)
  BY <1>2, <1>3 DEF Ids
<1>6. \A k \in NS : sIds[k] \in Ids /\ sIds[k] >= nextSchemaId
                    /\ sIds[k] < nextSchemaId + Cardinality(NS)
  BY <1>2, <1>4 DEF Ids
<1>7. /\ \A d \in ND : DatabaseIds(text)[d] = dIds[d]
      /\ \A d \in DatabasesOf(text.creates) \cap DOMAIN databases : DatabaseIds(text)[d] = databases[d]
      /\ DOMAIN DatabaseIds(text) = DatabasesOf(text.creates)
      /\ \A d \in DatabasesOf(text.creates) : d \in ND <=> d \notin DOMAIN databases
  BY DEF DatabaseIds, NewDatabases, dIds
<1>8. \A d \in DatabasesOf(text.creates) : DatabaseIds(text)[d] \in Ids
  BY <1>5, <1>7 DEF TypeOK
<1>9. DatabaseIds(text) \in [DatabasesOf(text.creates) -> Ids]
  BY <1>8 DEF DatabaseIds
<1>10. /\ \A k \in NS : SchemaIds(text)[k] = <<DatabaseIds(text)[k[1]], sIds[k]>>
       /\ \A k \in SchemasOf(text.creates) \cap DOMAIN schemas : SchemaIds(text)[k] = schemas[k]
       /\ \A k \in SchemasOf(text.creates) : k \in NS <=> k \notin DOMAIN schemas
  BY DEF SchemaIds, NewSchemas, sIds
<1>11. \A k \in SchemasOf(text.creates) : SchemaIds(text)[k] \in Ids \X Ids
  BY <1>6, <1>8, <1>10, TextNames DEF TypeOK
<1>12. SchemaIds(text) \in [SchemasOf(text.creates) -> Ids \X Ids]
  BY <1>11 DEF SchemaIds
<1>13. /\ nextDatabaseId + Cardinality(ND) \in Ids
       /\ nextSchemaId + Cardinality(NS) \in Ids
       /\ nextDatabaseId + Cardinality(ND) >= nextDatabaseId
       /\ nextSchemaId + Cardinality(NS) >= nextSchemaId
  BY <1>2, <1>3, <1>4 DEF Ids
<1>14. /\ \A d \in DatabasesOf(text.creates) :
              \/ d \in DOMAIN databases /\ DatabaseIds(text)[d] = databases[d]
              \/ /\ DatabaseIds(text)[d] >= nextDatabaseId
                 /\ DatabaseIds(text)[d] < nextDatabaseId + Cardinality(ND)
                 /\ d \in ND
       /\ \A m, n \in ND : DatabaseIds(text)[m] = DatabaseIds(text)[n] => m = n
  BY <1>3, <1>5, <1>7
<1>15. /\ \A k \in SchemasOf(text.creates) :
              \/ k \in DOMAIN schemas /\ SchemaIds(text)[k] = schemas[k]
              \/ /\ SchemaIds(text)[k][2] >= nextSchemaId
                 /\ SchemaIds(text)[k][2] < nextSchemaId + Cardinality(NS)
                 /\ k \in NS
       /\ \A m, n \in NS : SchemaIds(text)[m][2] = SchemaIds(text)[n][2] => m = n
  BY <1>4, <1>6, <1>10
<1>16. QED
  BY <1>9, <1>12, <1>13, <1>14, <1>15

\* The scripts whose analysis or entry changes in a registration keep their types.
LEMMA RegisterTypes ==
    ASSUME TypeOK, NEW s \in Scripts, analysis[s] # Nothing, Register(s), analysis' = analysis
    PROVE  /\ \A t \in Scripts : analysis'[t] # Nothing => IsAnalysis(analysis'[t], version')
           /\ \A t \in Scripts : /\ loaded'[t] = Nothing \/ IsDeclaration(loaded'[t])
                                 /\ synced'[t] => loaded'[t] = Declared(analysis'[t])
           /\ DOMAIN loaded' = Scripts /\ synced' \in [Scripts -> BOOLEAN]
           /\ version' \in 1 .. MaxVersion
<1>1. version \in Nat /\ version' = version + 1 /\ version < MaxVersion /\ MaxVersion \in Nat
      /\ version >= 1
  BY BoundsAreNumbers DEF Register, Bump, TypeOK
<1>2. \A t \in Scripts : analysis'[t] # Nothing => IsAnalysis(analysis'[t], version')
  <2>1. ASSUME NEW t \in Scripts, analysis[t] # Nothing
        PROVE  IsAnalysis(analysis[t], version)
    BY <2>1, AnalysisIsAnalysis
  <2>2. QED
    BY <1>1, <2>1 DEF IsAnalysis
<1>3. IsDeclaration(Declared(analysis[s]))
  BY AnalysisIsAnalysis, AnalysisDeclares
<1>4. \A t \in Scripts : loaded[t] = Nothing \/ IsDeclaration(loaded[t])
  BY DEF TypeOK, IsDeclaration
<1>5. /\ loaded' = [loaded EXCEPT ![s] = Declared(analysis[s])]
      /\ synced' = [synced EXCEPT ![s] = TRUE]
  BY DEF Register
<1>6. \A t \in Scripts : loaded'[t] = Nothing \/ IsDeclaration(loaded'[t])
  BY <1>3, <1>4, <1>5 DEF TypeOK
<1>7. \A t \in Scripts : synced'[t] => loaded'[t] = Declared(analysis'[t])
  BY <1>5 DEF TypeOK
<1>8. QED
  BY <1>1, <1>2, <1>5, <1>6, <1>7 DEF TypeOK

\* What Update() works on.
LEMMA UpdateTypes ==
    ASSUME TypeOK, NEW s \in Scripts, Update(s)
    PROVE  /\ analysis[s] # Nothing /\ loaded[s] # Nothing
           /\ IsMap(loaded[s].databases, Names, Ids)
           /\ IsMap(loaded[s].schemas, Names \X Names, Ids \X Ids)
           /\ IsMap(analysis[s].databases, Names, Ids)
           /\ IsMap(analysis[s].schemas, Names \X Names, Ids \X Ids)
           /\ Declared(analysis[s]).databases = analysis[s].databases
           /\ Declared(analysis[s]).schemas = analysis[s].schemas
<1>1. analysis[s] # Nothing /\ loaded[s] # Nothing
  BY DEF Update
<1>2. IsDeclaration(loaded[s])
  BY <1>1 DEF TypeOK, IsDeclaration
<1>3. QED
  BY <1>1, <1>2, DeclarationNames, AnalysisIsAnalysis, AnalysisDeclares

\* The keys of an entry are those of its schemas.
LEMMA KeysOfNames ==
    ASSUME NEW s \in Scripts, NEW keys \in SUBSET (Names \X Names)
    PROVE  /\ QualifiedKeys(s, keys) \subseteq Names \X Names \X Scripts
           /\ SchemaKeys(s, keys) \subseteq Names \X Scripts
  BY DEF QualifiedKeys, SchemaKeys

\* the types of the indexes and of the declarations
CatalogTypes ==
    /\ bySchema \subseteq Names \X Scripts
    /\ byQualified \subseteq Names \X Names \X Scripts
    /\ IsMap(databases, Names, Ids)
    /\ IsMap(schemas, Names \X Names, Ids \X Ids)

\* the declared ids are those of before, or of the analysis of script s
DeclaredFrom(s) ==
    /\ Pairs(databases') \subseteq Pairs(databases) \cup Pairs(analysis[s].databases)
    /\ Pairs(schemas') \subseteq Pairs(schemas) \cup Pairs(analysis[s].schemas)

\* A load declares what the analysis does and is not declared yet, and forgets nothing.
LEMMA LoadTypes ==
    ASSUME TypeOK, NEW s \in Scripts, LoadFirst(s) \/ LoadFails(s)
    PROVE  /\ CatalogTypes' /\ DeclaredFrom(s)
           /\ DOMAIN databases \subseteq DOMAIN databases'
           /\ DOMAIN schemas \subseteq DOMAIN schemas'
<1>1. /\ analysis[s] # Nothing
      /\ IsMap(analysis[s].databases, Names, Ids)
      /\ IsMap(analysis[s].schemas, Names \X Names, Ids \X Ids)
  <2>1. analysis[s] # Nothing
    BY DEF LoadFirst, LoadFails
  <2>2. QED
    BY <2>1, AnalysisIsAnalysis, AnalysisDeclares
<1>2. /\ IsMap(databases, Names, Ids) /\ IsMap(schemas, Names \X Names, Ids \X Ids)
      /\ bySchema \subseteq Names \X Scripts
      /\ byQualified \subseteq Names \X Names \X Scripts
  BY DEF TypeOK, IsMap
<1> DEFINE From(f, g, h) == DOMAIN g \subseteq DOMAIN f /\ Pairs(f) \subseteq Pairs(g) \cup Pairs(h)
<1>3. /\ IsMap(Extended(databases, analysis[s].databases), Names, Ids)
      /\ Joins(Extended(databases, analysis[s].databases), databases, analysis[s].databases)
  BY <1>1, <1>2, ExtendedMap
<1>4. /\ IsMap(Extended(schemas, analysis[s].schemas), Names \X Names, Ids \X Ids)
      /\ Joins(Extended(schemas, analysis[s].schemas), schemas, analysis[s].schemas)
  BY <1>1, <1>2, ExtendedMap
<1>5. ASSUME NEW visited \in SUBSET (DOMAIN analysis[s].databases \ DOMAIN databases),
             databases' = Extended(databases, Restrict(analysis[s].databases, visited))
      PROVE  IsMap(databases', Names, Ids) /\ From(databases', databases, analysis[s].databases)
  <2>1. /\ IsMap(Restrict(analysis[s].databases, visited), Names, Ids)
        /\ Pairs(Restrict(analysis[s].databases, visited)) \subseteq Pairs(analysis[s].databases)
    BY <1>1, RestrictedMap
  <2>2. /\ IsMap(databases', Names, Ids)
        /\ Joins(databases', databases, Restrict(analysis[s].databases, visited))
    BY <1>2, <1>5, <2>1, ExtendedMap
  <2>3. QED
    BY <2>1, <2>2 DEF Joins
<1>6. ASSUME NEW visited \in SUBSET (DOMAIN analysis[s].schemas \ DOMAIN schemas),
             schemas' = Extended(schemas, Restrict(analysis[s].schemas, visited))
      PROVE  /\ IsMap(schemas', Names \X Names, Ids \X Ids)
             /\ From(schemas', schemas, analysis[s].schemas)
  <2>1. /\ IsMap(Restrict(analysis[s].schemas, visited), Names \X Names, Ids \X Ids)
        /\ Pairs(Restrict(analysis[s].schemas, visited)) \subseteq Pairs(analysis[s].schemas)
    BY <1>1, RestrictedMap
  <2>2. /\ IsMap(schemas', Names \X Names, Ids \X Ids)
        /\ Joins(schemas', schemas, Restrict(analysis[s].schemas, visited))
    BY <1>2, <1>6, <2>1, ExtendedMap
  <2>3. QED
    BY <2>1, <2>2 DEF Joins
<1> DEFINE Goal == /\ IsMap(databases', Names, Ids)
                   /\ From(databases', databases, analysis[s].databases)
                   /\ IsMap(schemas', Names \X Names, Ids \X Ids)
                   /\ From(schemas', schemas, analysis[s].schemas)
<1>7. Goal
  <2>1. CASE LoadFirst(s)
    BY <1>3, <1>4, <2>1 DEF LoadFirst, Joins
  <2>2. CASE LoadFails(s)
    <3>1. CASE schemas' = schemas /\ \E visited \in SUBSET (DOMAIN analysis[s].databases \ DOMAIN databases) :
                 databases' = Extended(databases, Restrict(analysis[s].databases, visited))
      BY <1>2, <1>5, <3>1
    <3>2. CASE /\ databases' = Extended(databases, analysis[s].databases)
               /\ \E visited \in SUBSET (DOMAIN analysis[s].schemas \ DOMAIN schemas) :
                      schemas' = Extended(schemas, Restrict(analysis[s].schemas, visited))
      BY <1>3, <1>6, <3>2 DEF Joins
    <3>3. QED
      BY <2>2, <3>1, <3>2 DEF LoadFails
  <2>3. QED
    BY <2>1, <2>2
<1>8. bySchema' \subseteq Names \X Scripts /\ byQualified' \subseteq Names \X Names \X Scripts
  <2>1. CASE LoadFirst(s)
    <3>1. DOMAIN analysis[s].schemas \subseteq Names \X Names
      BY <1>1 DEF IsMap
    <3>2. QED
      BY <1>2, <2>1, <3>1, KeysOfNames DEF LoadFirst
  <2>2. CASE LoadFails(s)
    BY <1>2, <2>2 DEF LoadFails, indexes
  <2>3. QED
    BY <2>1, <2>2
<1>9. QED
  BY <1>7, <1>8 DEF CatalogTypes, DeclaredFrom

\* What an update declares, and what it forgets.
LEMMA UpdateKeepsTypes ==
    ASSUME TypeOK, NEW s \in Scripts, Update(s)
    PROVE  /\ CatalogTypes' /\ DeclaredFrom(s)
           /\ \A n \in DOMAIN databases \cup DOMAIN analysis[s].databases :
                  \/ n \in DOMAIN databases'
                  \/ /\ n \in DOMAIN loaded[s].databases \ DOMAIN analysis[s].databases
                     /\ \A key \in byQualified' : key[1] # n
                  \/ n \in DOMAIN loaded[s].databases \ DOMAIN databases
           /\ \A k \in DOMAIN schemas \cup DOMAIN analysis[s].schemas :
                  \/ k \in DOMAIN schemas'
                  \/ /\ k \in DOMAIN loaded[s].schemas \ DOMAIN analysis[s].schemas
                     /\ \A t \in Scripts \ {s} : <<k[1], k[2], t>> \notin byQualified
                  \/ k \in DOMAIN loaded[s].schemas \ DOMAIN schemas
<1> DEFINE old == loaded[s]
           new == Declared(analysis[s])
           gone == DOMAIN old.schemas \ DOMAIN new.schemas
           added == DOMAIN new.schemas \ DOMAIN old.schemas
           left == byQualified \ QualifiedKeys(s, gone)
           kept == Restrict(schemas, DOMAIN schemas \ Orphans(gone, left))
           fresh == Restrict(new.databases, DOMAIN new.databases \ DOMAIN old.databases)
           declared == Extended(databases, fresh)
<1>1. /\ IsMap(old.schemas, Names \X Names, Ids \X Ids)
      /\ IsMap(new.databases, Names, Ids)
      /\ IsMap(new.schemas, Names \X Names, Ids \X Ids)
  BY UpdateTypes
<1>2. /\ IsMap(databases, Names, Ids) /\ IsMap(schemas, Names \X Names, Ids \X Ids)
      /\ bySchema \subseteq Names \X Scripts
      /\ byQualified \subseteq Names \X Names \X Scripts
  BY DEF TypeOK, IsMap
<1>3. bySchema' \subseteq Names \X Scripts /\ byQualified' \subseteq Names \X Names \X Scripts
  <2>1. added \subseteq Names \X Names
    BY <1>1 DEF IsMap
  <2>2. /\ byQualified' = left \cup QualifiedKeys(s, added)
        /\ bySchema' = (bySchema \ SchemaKeys(s, gone)) \cup SchemaKeys(s, added)
    BY DEF Update
  <2>3. QED
    BY <1>2, <2>1, <2>2, KeysOfNames
<1>4. /\ DOMAIN new.databases = DOMAIN analysis[s].databases
      /\ DOMAIN new.schemas = DOMAIN analysis[s].schemas
      /\ Pairs(new.databases) = Pairs(analysis[s].databases)
      /\ Pairs(new.schemas) = Pairs(analysis[s].schemas)
  BY UpdateTypes
<1>5. /\ IsMap(schemas', Names \X Names, Ids \X Ids)
      /\ DOMAIN schemas' = (DOMAIN schemas \ Orphans(gone, left)) \cup added
      /\ Pairs(schemas') \subseteq Pairs(schemas) \cup Pairs(new.schemas)
  <2>1. /\ IsMap(kept, Names \X Names, Ids \X Ids)
        /\ DOMAIN kept = DOMAIN schemas \ Orphans(gone, left)
        /\ Pairs(kept) \subseteq Pairs(schemas)
    BY <1>2, RestrictedMap
  <2>2. /\ IsMap(Restrict(new.schemas, added), Names \X Names, Ids \X Ids)
        /\ DOMAIN Restrict(new.schemas, added) = added
        /\ Pairs(Restrict(new.schemas, added)) \subseteq Pairs(new.schemas)
    BY <1>1, RestrictedMap
  <2>3. schemas' = Extended(kept, Restrict(new.schemas, added))
    BY DEF Update
  <2> HIDE DEF kept, added, new
  <2>4. /\ IsMap(schemas', Names \X Names, Ids \X Ids)
        /\ Joins(schemas', kept, Restrict(new.schemas, added))
    BY <2>1, <2>2, <2>3, ExtendedMap
  <2>5. QED
    BY <2>1, <2>2, <2>4 DEF Joins
<1> DEFINE dead == {d \in DOMAIN old.databases \ DOMAIN new.databases : \A key \in byQualified' : key[1] # d}
<1>6. /\ IsMap(databases', Names, Ids)
      /\ DOMAIN databases' = (DOMAIN databases \cup (DOMAIN new.databases \ DOMAIN old.databases)) \ dead
      /\ Pairs(databases') \subseteq Pairs(databases) \cup Pairs(new.databases)
  <2>1. /\ IsMap(fresh, Names, Ids) /\ Pairs(fresh) \subseteq Pairs(new.databases)
        /\ DOMAIN fresh = DOMAIN new.databases \ DOMAIN old.databases
    BY <1>1, RestrictedMap
  <2>2. databases' = Restrict(declared, DOMAIN declared \ dead)
    BY DEF Update
  <2> HIDE DEF fresh, dead, new, old
  <2>3. IsMap(declared, Names, Ids) /\ Joins(declared, databases, fresh)
    BY <1>2, <2>1, ExtendedMap
  <2> HIDE DEF declared
  <2>4. /\ IsMap(databases', Names, Ids)
        /\ DOMAIN databases' = DOMAIN declared \ dead
        /\ Pairs(databases') \subseteq Pairs(declared)
    BY <2>2, <2>3, RestrictedMap
  <2>5. QED
    BY <2>1, <2>3, <2>4 DEF Joins
<1>7. CatalogTypes' /\ DeclaredFrom(s)
  BY <1>3, <1>4, <1>5, <1>6 DEF CatalogTypes, DeclaredFrom
<1>8. ASSUME NEW n \in DOMAIN databases \cup DOMAIN analysis[s].databases
      PROVE  \/ n \in DOMAIN databases'
             \/ /\ n \in DOMAIN old.databases \ DOMAIN analysis[s].databases
                /\ \A key \in byQualified' : key[1] # n
             \/ n \in DOMAIN old.databases \ DOMAIN databases
  BY <1>4, <1>6
<1>9. ASSUME NEW k \in DOMAIN schemas \cup DOMAIN analysis[s].schemas
      PROVE  \/ k \in DOMAIN schemas'
             \/ /\ k \in DOMAIN old.schemas \ DOMAIN analysis[s].schemas
                /\ \A t \in Scripts \ {s} : <<k[1], k[2], t>> \notin byQualified
             \/ k \in DOMAIN old.schemas \ DOMAIN schemas
  <2>1. \A t \in Scripts \ {s} : <<k[1], k[2], t>> \notin QualifiedKeys(s, gone)
    BY DEF QualifiedKeys
  <2>2. CASE k \in Orphans(gone, left)
    BY <1>4, <2>1, <2>2 DEF Orphans
  <2>3. CASE k \notin Orphans(gone, left)
    BY <1>4, <1>5, <2>3
  <2>4. QED
    BY <2>2, <2>3
<1>10. QED
  BY <1>7, <1>8, <1>9

\* the types of the scripts' analyses and entries
ScriptTypes ==
    /\ \A t \in Scripts : analysis[t] # Nothing => IsAnalysis(analysis[t], version)
    /\ \A t \in Scripts : /\ loaded[t] = Nothing \/ IsDeclaration(loaded[t])
                          /\ synced[t] => loaded[t] = Declared(analysis[t])
    /\ DOMAIN analysis = Scripts /\ DOMAIN loaded = Scripts /\ synced \in [Scripts -> BOOLEAN]
    /\ version \in 1 .. MaxVersion

CounterTypes == nextDatabaseId \in Ids /\ nextSchemaId \in Ids

LEMMA TypeParts == TypeOK <=> ScriptTypes /\ CatalogTypes /\ CounterTypes
  BY DEF TypeOK, ScriptTypes, CatalogTypes, CounterTypes, IsMap, IsAnalysis, IsDeclaration

\* An analysis keeps the types.
LEMMA AnalyzeTypes ==
    ASSUME TypeOK, IndexesFollowEntries, NEW s \in Scripts, NEW text \in Texts, Analyze(s, text)
    PROVE  ScriptTypes' /\ CatalogTypes' /\ CounterTypes'
<1> DEFINE ND == NewDatabases(text)
           NS == NewSchemas(text)
<1>1. PICK table \in Resolutions(s, text) :
          analysis' = [analysis EXCEPT ![s] =
              [text |-> text, databases |-> DatabaseIds(text), schemas |-> SchemaIds(text),
               table |-> table, version |-> version]]
  BY AnalyzeSteps
<1>2. /\ nextDatabaseId + Cardinality(ND) <= MaxId
      /\ nextSchemaId + Cardinality(NS) <= MaxId
      /\ synced' = [synced EXCEPT ![s] = FALSE]
      /\ nextDatabaseId' = nextDatabaseId + Cardinality(ND)
      /\ nextSchemaId' = nextSchemaId + Cardinality(NS)
      /\ loaded' = loaded /\ bySchema' = bySchema /\ byQualified' = byQualified
      /\ databases' = databases /\ schemas' = schemas /\ version' = version
  BY AnalyzeSteps
<1>3. /\ nextDatabaseId' \in Ids /\ nextSchemaId' \in Ids
      /\ DatabaseIds(text) \in [DatabasesOf(text.creates) -> Ids]
      /\ SchemaIds(text) \in [SchemasOf(text.creates) -> Ids \X Ids]
  BY <1>2, AnalyzeNumbers
<1> DEFINE made == [text |-> text, databases |-> DatabaseIds(text), schemas |-> SchemaIds(text),
                    table |-> table, version |-> version]
<1>4. table \in Table \cup {Nothing}
  BY ResolutionsAreTables
<1>5. version \in 1 .. version
  BY BoundsAreNumbers DEF TypeOK
<1>6. IsAnalysis(made, version)
  BY <1>3, <1>4, <1>5 DEF IsAnalysis, Declared, Declarations
<1>7. \A t \in Scripts : analysis'[t] = IF t = s THEN made ELSE analysis[t]
  BY <1>1 DEF TypeOK
<1>8. ScriptTypes
  BY TypeParts
<1>9. \A t \in Scripts : analysis'[t] # Nothing => IsAnalysis(analysis'[t], version')
  BY <1>2, <1>6, <1>7, <1>8 DEF ScriptTypes
<1>10. \A t \in Scripts : /\ loaded'[t] = Nothing \/ IsDeclaration(loaded'[t])
                          /\ synced'[t] => loaded'[t] = Declared(analysis'[t])
  BY <1>2, <1>7, <1>8 DEF ScriptTypes
<1>11. ScriptTypes'
  BY <1>1, <1>2, <1>8, <1>9, <1>10 DEF ScriptTypes
<1>12. CatalogTypes'
  BY <1>2, TypeParts DEF CatalogTypes
<1>13. QED
  BY <1>3, <1>11, <1>12 DEF CounterTypes

\* A script that goes, or the catalog that is cleared, leaves the others as they are.
LEMMA DropTypes ==
    ASSUME TypeOK, (\E s \in Scripts : Drop(s)) \/ Clear
    PROVE  ScriptTypes' /\ CatalogTypes' /\ CounterTypes'
<1>1. ScriptTypes /\ CatalogTypes /\ CounterTypes
  BY TypeParts
<1>2. /\ analysis' = analysis /\ databases' = databases /\ schemas' = schemas
      /\ nextDatabaseId' = nextDatabaseId /\ nextSchemaId' = nextSchemaId
      /\ bySchema' \subseteq bySchema /\ byQualified' \subseteq byQualified
      /\ version' = version + 1 /\ version < MaxVersion
  BY DEF Drop, Clear, Bump, declarations, counters
<1>3. /\ DOMAIN loaded' = Scripts /\ synced' \in [Scripts -> BOOLEAN]
      /\ \A t \in Scripts : \/ loaded'[t] = Nothing /\ ~synced'[t]
                            \/ loaded'[t] = loaded[t] /\ synced'[t] = synced[t]
  <2>1. CASE Clear
    BY <2>1 DEF Clear
  <2>2. ASSUME NEW s \in Scripts, Drop(s)
        PROVE  <1>3!1 /\ <1>3!2
    BY <1>1, <2>2 DEF Drop, ScriptTypes
  <2>3. QED
    BY <2>1, <2>2
<1>4. version \in Nat /\ version >= 1 /\ version' \in 1 .. MaxVersion
  BY <1>1, <1>2, BoundsAreNumbers DEF ScriptTypes
<1>5. \A t \in Scripts : analysis[t] # Nothing => IsAnalysis(analysis[t], version')
  BY <1>1, <1>2, <1>4 DEF ScriptTypes, IsAnalysis
<1>6. ScriptTypes'
  BY <1>1, <1>2, <1>3, <1>4, <1>5 DEF ScriptTypes
<1>7. QED
  BY <1>1, <1>2, <1>6 DEF CatalogTypes, CounterTypes

\* Every step of the catalog keeps its types, if its indexes lead to entries.
LEMMA TypeStep == TypeOK /\ IndexesFollowEntries /\ [Next]_vars => TypeOK'
<1> SUFFICES ASSUME TypeOK, IndexesFollowEntries, [Next]_vars
             PROVE  ScriptTypes' /\ CatalogTypes' /\ CounterTypes'
  BY TypeParts DEF TypeOK, ScriptTypes, CatalogTypes, CounterTypes, IsMap, IsAnalysis, IsDeclaration
<1>1. ScriptTypes /\ CatalogTypes /\ CounterTypes
  BY TypeParts
<1>2. ASSUME NEW s \in Scripts, LoadFirst(s) \/ Update(s)
      PROVE  ScriptTypes' /\ CatalogTypes' /\ CounterTypes'
  <2>1. /\ analysis[s] # Nothing /\ Register(s) /\ analysis' = analysis
        /\ nextDatabaseId' = nextDatabaseId /\ nextSchemaId' = nextSchemaId
    BY <1>2 DEF LoadFirst, Update, counters
  <2>2. ScriptTypes'
    BY <1>1, <2>1, RegisterTypes DEF ScriptTypes
  <2>3. CatalogTypes'
    BY <1>2, LoadTypes, UpdateKeepsTypes
  <2>4. QED
    BY <1>1, <2>1, <2>2, <2>3 DEF CounterTypes
<1>3. ASSUME NEW s \in Scripts, LoadFails(s)
      PROVE  ScriptTypes' /\ CatalogTypes' /\ CounterTypes'
  <2>1. /\ analysis' = analysis /\ loaded' = loaded /\ synced' = synced /\ version' = version
        /\ nextDatabaseId' = nextDatabaseId /\ nextSchemaId' = nextSchemaId
    BY <1>3 DEF LoadFails, counters
  <2>2. QED
    BY <1>1, <1>3, <2>1, LoadTypes DEF ScriptTypes, CounterTypes
<1>4. CASE UNCHANGED vars
  BY <1>1, <1>4 DEF vars, ScriptTypes, CatalogTypes, CounterTypes
<1>5. QED
  BY <1>2, <1>3, <1>4, AnalyzeTypes, DropTypes DEF Next

-----------------------------------------------------------------------------
(* The indexes                                                                *)

\* the schemas that an entry has
SchemaNames(l, s) == IF l[s] = Nothing THEN {} ELSE DOMAIN l[s].schemas

\* what the indexes are to hold of some entries
QualifiedKeysOf(l) == UNION {QualifiedKeys(s, SchemaNames(l, s)) : s \in Scripts}

SchemaKeysOf(l) == UNION {SchemaKeys(s, SchemaNames(l, s)) : s \in Scripts}

LEMMA IndexesHoldKeys ==
    /\ IndexesFollowEntries <=>
           byQualified = QualifiedKeysOf(loaded) /\ bySchema \subseteq SchemaKeysOf(loaded)
    /\ IndexesFollowEntries' <=>
           byQualified' = QualifiedKeysOf(loaded') /\ bySchema' \subseteq SchemaKeysOf(loaded')
<1>1. ASSUME NEW l
      PROVE  /\ UNION {QualifiedKeys(s, DOMAIN l[s].schemas) : s \in {t \in Scripts : l[t] # Nothing}}
                    = QualifiedKeysOf(l)
             /\ UNION {SchemaKeys(s, DOMAIN l[s].schemas) : s \in {t \in Scripts : l[t] # Nothing}}
                    = SchemaKeysOf(l)
  <2>1. \A s : QualifiedKeys(s, {}) = {} /\ SchemaKeys(s, {}) = {}
    BY DEF QualifiedKeys, SchemaKeys
  <2>2. QED
    BY <2>1 DEF QualifiedKeysOf, SchemaKeysOf, SchemaNames
<1>2. QED
  BY <1>1 DEF IndexesFollowEntries, Entries

\* The keys of a script lead to that script.
LEMMA KeysAreOwn ==
    ASSUME NEW s, NEW K
    PROVE  /\ \A x \in QualifiedKeys(s, K) : x[3] = s
           /\ \A x \in SchemaKeys(s, K) : x[2] = s
  BY DEF QualifiedKeys, SchemaKeys

\* The indexes follow an entry that comes, goes or is replaced, if the keys of the schemas
\* that it loses are removed, and those of the schemas that it gains are added.
LEMMA IndexesFollowOne ==
    ASSUME NEW l, NEW m, NEW s \in Scripts,
           \A t \in Scripts : SchemaNames(l, t) \in SUBSET (Names \X Names),
           SchemaNames(m, s) \in SUBSET (Names \X Names),
           \A t \in Scripts \ {s} : m[t] = l[t],
           NEW index \in SUBSET SchemaKeysOf(l)
    PROVE  /\ QualifiedKeysOf(m) =
                  (QualifiedKeysOf(l) \ QualifiedKeys(s, SchemaNames(l, s) \ SchemaNames(m, s)))
                  \cup QualifiedKeys(s, SchemaNames(m, s) \ SchemaNames(l, s))
           /\ (index \ SchemaKeys(s, SchemaNames(l, s) \ SchemaNames(m, s)))
              \cup SchemaKeys(s, SchemaNames(m, s) \ SchemaNames(l, s)) \subseteq SchemaKeysOf(m)
<1> DEFINE K == SchemaNames(l, s)
           L == SchemaNames(m, s)
           gone == K \ L
           added == L \ K
<1>1. \A t \in Scripts \ {s} : SchemaNames(m, t) = SchemaNames(l, t)
  BY DEF SchemaNames
<1>2. K \in SUBSET (Names \X Names) /\ L \in SUBSET (Names \X Names)
  OBVIOUS
<1> HIDE DEF K, L
<1>3. /\ QualifiedKeys(s, L) = (QualifiedKeys(s, K) \ QualifiedKeys(s, gone))
                                   \cup QualifiedKeys(s, added)
      /\ (SchemaKeys(s, K) \ SchemaKeys(s, gone)) \cup SchemaKeys(s, added) \subseteq SchemaKeys(s, L)
  <2> HIDE DEF gone, added
  <2>1. gone = K \ L /\ added = L \ K
    BY DEF gone, added
  <2>2. QED
    BY <1>2, <2>1 DEF QualifiedKeys, SchemaKeys
<1> HIDE DEF gone, added
<1>4. /\ \A t \in Scripts : \A x \in QualifiedKeys(t, SchemaNames(l, t)) : x[3] = t
      /\ \A t \in Scripts : \A x \in SchemaKeys(t, SchemaNames(l, t)) : x[2] = t
      /\ \A x \in QualifiedKeys(s, gone) : x[3] = s
      /\ \A x \in SchemaKeys(s, gone) : x[2] = s
  BY KeysAreOwn
<1>5. ASSUME NEW x
      PROVE  x \in QualifiedKeysOf(m) <=>
                 x \in (QualifiedKeysOf(l) \ QualifiedKeys(s, gone)) \cup QualifiedKeys(s, added)
  <2>1. x \in QualifiedKeysOf(m) <=>
            \/ x \in QualifiedKeys(s, L)
            \/ \E t \in Scripts \ {s} : x \in QualifiedKeys(t, SchemaNames(l, t))
    BY <1>1 DEF QualifiedKeysOf, L
  <2>2. x \in QualifiedKeysOf(l) <=>
            \/ x \in QualifiedKeys(s, K)
            \/ \E t \in Scripts \ {s} : x \in QualifiedKeys(t, SchemaNames(l, t))
    BY DEF QualifiedKeysOf, K
  <2>3. QED
    BY <1>3, <1>4, <2>1, <2>2
<1>6. ASSUME NEW x \in (index \ SchemaKeys(s, gone)) \cup SchemaKeys(s, added)
      PROVE  x \in SchemaKeysOf(m)
  <2>1. x \in SchemaKeysOf(m) <=>
            \/ x \in SchemaKeys(s, L)
            \/ \E t \in Scripts \ {s} : x \in SchemaKeys(t, SchemaNames(l, t))
    BY <1>1 DEF SchemaKeysOf, L
  <2>2. x \in SchemaKeysOf(l) <=>
            \/ x \in SchemaKeys(s, K)
            \/ \E t \in Scripts \ {s} : x \in SchemaKeys(t, SchemaNames(l, t))
    BY DEF SchemaKeysOf, K
  <2>3. QED
    BY <1>3, <1>4, <2>1, <2>2
<1>7. QED
  BY <1>5, <1>6 DEF K, L, gone, added

\* Every step keeps the indexes and the entries together.
LEMMA IndexStep == TypeOK /\ IndexesFollowEntries /\ [Next]_vars => IndexesFollowEntries'
<1> SUFFICES ASSUME TypeOK, IndexesFollowEntries, [Next]_vars
             PROVE  byQualified' = QualifiedKeysOf(loaded') /\ bySchema' \subseteq SchemaKeysOf(loaded')
  BY IndexesHoldKeys
<1>1. byQualified = QualifiedKeysOf(loaded) /\ bySchema \subseteq SchemaKeysOf(loaded)
  BY IndexesHoldKeys
<1>2. \A t \in Scripts : SchemaNames(loaded, t) \in SUBSET (Names \X Names)
  <2>1. \A t \in Scripts : loaded[t] # Nothing => IsDeclaration(loaded[t])
    BY DEF TypeOK, IsDeclaration
  <2>2. QED
    BY <2>1, DeclarationNames DEF SchemaNames, IsMap
<1>3. ASSUME NEW s \in Scripts, analysis[s] # Nothing, Register(s)
      PROVE  /\ loaded'[s] = Declared(analysis[s])
             /\ \A t \in Scripts \ {s} : loaded'[t] = loaded[t]
             /\ SchemaNames(loaded', s) = DOMAIN analysis[s].schemas
             /\ SchemaNames(loaded', s) \in SUBSET (Names \X Names)
  <2>1. loaded'[s] = Declared(analysis[s]) /\ \A t \in Scripts \ {s} : loaded'[t] = loaded[t]
    BY <1>3 DEF Register, TypeOK
  <2>2. /\ Declared(analysis[s]) # Nothing
        /\ Declared(analysis[s]).schemas = analysis[s].schemas
        /\ DOMAIN analysis[s].schemas \subseteq Names \X Names
    BY <1>3, AnalysisIsAnalysis, AnalysisDeclares, DeclarationNames DEF IsMap
  <2>3. QED
    BY <2>1, <2>2 DEF SchemaNames
<1> DEFINE Gone(s) == SchemaNames(loaded, s) \ SchemaNames(loaded', s)
           Added(s) == SchemaNames(loaded', s) \ SchemaNames(loaded, s)
<1>r. ASSUME NEW s \in Scripts, SchemaNames(loaded', s) \in SUBSET (Names \X Names),
             \A t \in Scripts \ {s} : loaded'[t] = loaded[t],
             byQualified' = (byQualified \ QualifiedKeys(s, Gone(s))) \cup QualifiedKeys(s, Added(s)),
             bySchema' = (bySchema \ SchemaKeys(s, Gone(s))) \cup SchemaKeys(s, Added(s))
      PROVE  byQualified' = QualifiedKeysOf(loaded') /\ bySchema' \subseteq SchemaKeysOf(loaded')
  <2>1. /\ QualifiedKeysOf(loaded') =
               (QualifiedKeysOf(loaded) \ QualifiedKeys(s, Gone(s))) \cup QualifiedKeys(s, Added(s))
        /\ (bySchema \ SchemaKeys(s, Gone(s))) \cup SchemaKeys(s, Added(s))
               \subseteq SchemaKeysOf(loaded')
    BY <1>1, <1>2, <1>r, IndexesFollowOne
  <2>2. QED
    BY <1>1, <1>r, <2>1
<1>4. ASSUME NEW s \in Scripts, LoadFirst(s)
      PROVE  byQualified' = QualifiedKeysOf(loaded') /\ bySchema' \subseteq SchemaKeysOf(loaded')
  <2>1. /\ analysis[s] # Nothing /\ loaded[s] = Nothing /\ Register(s)
        /\ byQualified' = byQualified \cup QualifiedKeys(s, DOMAIN analysis[s].schemas)
        /\ bySchema' = bySchema \cup SchemaKeys(s, DOMAIN analysis[s].schemas)
    BY <1>4 DEF LoadFirst
  <2>2. SchemaNames(loaded, s) = {}
    BY <2>1 DEF SchemaNames
  <2>3. QualifiedKeys(s, {}) = {} /\ SchemaKeys(s, {}) = {}
    BY DEF QualifiedKeys, SchemaKeys
  <2>4. Gone(s) = {} /\ Added(s) = DOMAIN analysis[s].schemas
    BY <1>3, <2>1, <2>2
  <2>5. QED
    BY <1>3, <1>r, <2>1, <2>3, <2>4
<1>5. ASSUME NEW s \in Scripts, Update(s)
      PROVE  byQualified' = QualifiedKeysOf(loaded') /\ bySchema' \subseteq SchemaKeysOf(loaded')
  <2> DEFINE gone == DOMAIN loaded[s].schemas \ DOMAIN Declared(analysis[s]).schemas
             added == DOMAIN Declared(analysis[s]).schemas \ DOMAIN loaded[s].schemas
  <2>1. /\ analysis[s] # Nothing /\ loaded[s] # Nothing /\ Register(s)
        /\ byQualified' = (byQualified \ QualifiedKeys(s, gone)) \cup QualifiedKeys(s, added)
        /\ bySchema' = (bySchema \ SchemaKeys(s, gone)) \cup SchemaKeys(s, added)
    BY <1>5 DEF Update
  <2>2. gone = Gone(s) /\ added = Added(s)
    BY <1>3, <2>1 DEF SchemaNames, Declared
  <2>3. QED
    BY <1>3, <1>r, <2>1, <2>2
<1>6. ASSUME NEW s \in Scripts, Drop(s)
      PROVE  byQualified' = QualifiedKeysOf(loaded') /\ bySchema' \subseteq SchemaKeysOf(loaded')
  <2>1. /\ loaded[s] # Nothing /\ loaded' = [loaded EXCEPT ![s] = Nothing]
        /\ byQualified' = byQualified \ QualifiedKeys(s, DOMAIN loaded[s].schemas)
        /\ bySchema' = bySchema \ SchemaKeys(s, DOMAIN loaded[s].schemas)
    BY <1>6 DEF Drop
  <2>2. loaded'[s] = Nothing /\ \A t \in Scripts \ {s} : loaded'[t] = loaded[t]
    BY <2>1 DEF TypeOK
  <2>3. SchemaNames(loaded, s) = DOMAIN loaded[s].schemas /\ SchemaNames(loaded', s) = {}
    BY <2>1, <2>2 DEF SchemaNames
  <2>4. QualifiedKeys(s, {}) = {} /\ SchemaKeys(s, {}) = {}
    BY DEF QualifiedKeys, SchemaKeys
  <2>5. Gone(s) = DOMAIN loaded[s].schemas /\ Added(s) = {}
    BY <2>3
  <2>6. QED
    BY <1>r, <2>1, <2>2, <2>3, <2>4, <2>5
<1>7. ASSUME Clear
      PROVE  byQualified' = QualifiedKeysOf(loaded') /\ bySchema' \subseteq SchemaKeysOf(loaded')
  <2>1. bySchema' = {} /\ byQualified' = {} /\ \A t \in Scripts : SchemaNames(loaded', t) = {}
    BY <1>7 DEF Clear, SchemaNames
  <2>2. QED
    BY <2>1 DEF QualifiedKeysOf, QualifiedKeys
<1>8. ASSUME UNCHANGED <<loaded, indexes>>
      PROVE  byQualified' = QualifiedKeysOf(loaded') /\ bySchema' \subseteq SchemaKeysOf(loaded')
  BY <1>1, <1>8 DEF indexes
<1>9. ASSUME NEW s \in Scripts, NEW text \in Texts, Analyze(s, text)
      PROVE  UNCHANGED <<loaded, indexes>>
  BY <1>9, AnalyzeSteps DEF indexes
<1>10. ASSUME NEW s \in Scripts, LoadFails(s)
       PROVE  UNCHANGED <<loaded, indexes>>
  BY <1>10 DEF LoadFails
<1>11. CASE UNCHANGED vars
  BY <1>8, <1>11 DEF vars, indexes
<1>12. QED
  BY <1>4, <1>5, <1>6, <1>7, <1>8, <1>9, <1>10, <1>11 DEF Next

\* The catalog starts empty.
LEMMA CatalogStarts == Init => TypeOK /\ IndexesFollowEntries
<1> SUFFICES ASSUME Init PROVE TypeOK /\ IndexesFollowEntries
  OBVIOUS
<1>1. IsMap(databases, Names, Ids) /\ IsMap(schemas, Names \X Names, Ids \X Ids)
  BY DEF Init, IsMap
<1>2. ScriptTypes /\ CatalogTypes /\ CounterTypes
  BY <1>1, BoundsAreNumbers DEF Init, ScriptTypes, CatalogTypes, CounterTypes, Ids
<1>3. IndexesFollowEntries
  BY DEF Init, IndexesFollowEntries, Entries
<1>4. QED
  BY <1>2, <1>3, TypeParts

LEMMA CatalogIsTyped == Spec => [](TypeOK /\ IndexesFollowEntries)
  BY CatalogStarts, TypeStep, IndexStep, PTL DEF Spec

\* The catalog, the scripts' analyses and the counters have their types, and an entry that is
\* in sync declares what its script's analysis does, however analyses, loads, updates and drops
\* of any number of scripts follow one another.
THEOREM CatalogTypeCorrect == Spec => []TypeOK
  BY CatalogIsTyped, PTL

\* The indexes lead to exactly the schemas of the loaded analyses, and never to an entry that
\* is gone or lacks the schema.
THEOREM IndexesAreTrue == Spec => []IndexesFollowEntries
  BY CatalogIsTyped, PTL

-----------------------------------------------------------------------------
(* What is referenced is declared                                             *)

\* A database of an entry is in the qualified index, with one of the entry's schemas.
LEMMA DatabaseIsIndexed ==
    ASSUME NEW d, IsDeclaration(d), NEW n \in DOMAIN d.databases
    PROVE  \E m : <<n, m>> \in DOMAIN d.schemas
<1>1. PICK k \in DOMAIN d.schemas : k[1] = n
  BY DeclarationNames
<1>2. k = <<n, k[2]>>
  BY <1>1, DeclarationNames DEF IsMap
<1>3. QED
  BY <1>2

LEMMA ReferencedStep ==
    TypeOK /\ IndexesFollowEntries /\ ReferencedIsDeclared /\ [Next]_vars => ReferencedIsDeclared'
<1> DEFINE Covers(ds, ss, d) == DOMAIN d.schemas \subseteq DOMAIN ss /\ DOMAIN d.databases \subseteq DOMAIN ds
<1> SUFFICES ASSUME TypeOK, IndexesFollowEntries, ReferencedIsDeclared, [Next]_vars,
                    NEW t \in Scripts, loaded'[t] # Nothing
             PROVE  Covers(databases', schemas', loaded'[t])
  BY DEF ReferencedIsDeclared, Entries
<1>1. \A s \in Scripts : loaded[s] # Nothing => Covers(databases, schemas, loaded[s])
  BY DEF ReferencedIsDeclared, Entries
<1>2. TypeOK' /\ IndexesFollowEntries'
  BY TypeStep, IndexStep
<1>3. ASSUME DOMAIN databases \subseteq DOMAIN databases', DOMAIN schemas \subseteq DOMAIN schemas',
             loaded'[t] = loaded[t]
      PROVE  Covers(databases', schemas', loaded'[t])
  BY <1>1, <1>3
<1>4. ASSUME NEW s \in Scripts, LoadFirst(s)
      PROVE  Covers(databases', schemas', loaded'[t])
  <2>1. /\ DOMAIN databases \subseteq DOMAIN databases' /\ DOMAIN schemas \subseteq DOMAIN schemas'
        /\ analysis[s] # Nothing /\ loaded' = [loaded EXCEPT ![s] = Declared(analysis[s])]
    BY <1>4, LoadTypes DEF LoadFirst, Register
  <2>2. CASE t = s
    <3>1. /\ loaded'[t].databases = analysis[s].databases
          /\ loaded'[t].schemas = analysis[s].schemas
      BY <2>1, <2>2, AnalysisIsAnalysis, AnalysisDeclares DEF TypeOK
    <3>2. /\ databases' = Extended(databases, analysis[s].databases)
          /\ schemas' = Extended(schemas, analysis[s].schemas)
      BY <1>4 DEF LoadFirst
    <3>3. QED
      BY <3>1, <3>2 DEF Extended
  <2>3. CASE t # s
    BY <1>3, <2>1, <2>3 DEF TypeOK
  <2>4. QED
    BY <2>2, <2>3
<1>5. ASSUME NEW s \in Scripts, LoadFails(s)
      PROVE  Covers(databases', schemas', loaded'[t])
  <2>1. /\ DOMAIN databases \subseteq DOMAIN databases' /\ DOMAIN schemas \subseteq DOMAIN schemas'
        /\ loaded' = loaded
    BY <1>5, LoadTypes DEF LoadFails
  <2>2. QED
    BY <1>3, <2>1
<1>6. ASSUME NEW s \in Scripts, Update(s)
      PROVE  Covers(databases', schemas', loaded'[t])
  <2>1. /\ \A n \in DOMAIN databases \cup DOMAIN analysis[s].databases :
              \/ n \in DOMAIN databases'
              \/ /\ n \in DOMAIN loaded[s].databases \ DOMAIN analysis[s].databases
                 /\ \A key \in byQualified' : key[1] # n
              \/ n \in DOMAIN loaded[s].databases \ DOMAIN databases
        /\ \A k \in DOMAIN schemas \cup DOMAIN analysis[s].schemas :
              \/ k \in DOMAIN schemas'
              \/ /\ k \in DOMAIN loaded[s].schemas \ DOMAIN analysis[s].schemas
                 /\ \A u \in Scripts \ {s} : <<k[1], k[2], u>> \notin byQualified
              \/ k \in DOMAIN loaded[s].schemas \ DOMAIN schemas
    BY <1>6, UpdateKeepsTypes
  <2>2. /\ analysis[s] # Nothing /\ loaded[s] # Nothing
        /\ loaded' = [loaded EXCEPT ![s] = Declared(analysis[s])]
    BY <1>6 DEF Update, Register
  <2>3. Covers(databases, schemas, loaded[s])
    BY <1>1, <2>2
  <2>4. CASE t = s
    <3>1. /\ loaded'[t].databases = analysis[s].databases
          /\ loaded'[t].schemas = analysis[s].schemas
      BY <2>2, <2>4, AnalysisIsAnalysis, AnalysisDeclares DEF TypeOK
    <3>2. QED
      BY <2>1, <2>3, <3>1
  <2>5. CASE t # s
    <3>1. loaded'[t] = loaded[t] /\ loaded[t] # Nothing
      BY <2>2, <2>5 DEF TypeOK
    <3>2. Covers(databases, schemas, loaded[t])
      BY <1>1, <3>1
    <3>3. IsDeclaration(loaded[t])
      BY <3>1 DEF TypeOK, IsDeclaration
    <3>4. ASSUME NEW k \in DOMAIN loaded[t].schemas
          PROVE  k \in DOMAIN schemas'
      <4>1. k = <<k[1], k[2]>>
        BY <3>3, DeclarationNames DEF IsMap
      <4>2. <<k[1], k[2], t>> \in byQualified
        BY <3>1, <4>1, IndexesLeadToEntries
      <4>3. QED
        BY <2>1, <2>3, <2>5, <3>2, <4>2
    <3>5. ASSUME NEW n \in DOMAIN loaded[t].databases
          PROVE  n \in DOMAIN databases'
      <4>1. PICK m : <<n, m>> \in DOMAIN loaded[t].schemas
        BY <3>3, DatabaseIsIndexed
      <4>2. <<n, m, t>> \in QualifiedKeysOf(loaded')
        BY <3>1, <4>1 DEF QualifiedKeysOf, SchemaNames, QualifiedKeys
      <4>3. <<n, m, t>> \in byQualified'
        BY <1>2, <4>2, IndexesHoldKeys
      <4>4. QED
        BY <2>1, <2>3, <3>2, <4>3
    <3>6. QED
      BY <3>1, <3>4, <3>5
  <2>6. QED
    BY <2>4, <2>5
<1>7. ASSUME (\E s \in Scripts : Drop(s)) \/ Clear
      PROVE  Covers(databases', schemas', loaded'[t])
  <2>1. databases' = databases /\ schemas' = schemas /\ loaded'[t] = loaded[t]
    BY <1>7 DEF Drop, Clear, declarations, TypeOK
  <2>2. QED
    BY <1>3, <2>1
<1>8. ASSUME NEW s \in Scripts, NEW text \in Texts, Analyze(s, text)
      PROVE  Covers(databases', schemas', loaded'[t])
  BY <1>3, <1>8, AnalyzeSteps
<1>9. CASE UNCHANGED vars
  BY <1>3, <1>9 DEF vars
<1>10. QED
  BY <1>4, <1>5, <1>6, <1>7, <1>8, <1>9 DEF Next

\* An update erases the schemas and databases that its script has lost and no entry has any
\* more, and nothing that a loaded script references.
THEOREM ReferencesStayDeclared == Spec => []ReferencedIsDeclared
<1>1. Init => ReferencedIsDeclared
  BY DEF Init, ReferencedIsDeclared, Entries
<1>2. QED
  BY <1>1, CatalogIsTyped, ReferencedStep, PTL DEF Spec

-----------------------------------------------------------------------------
(* The ids                                                                    *)

\* every id was handed out by a counter, and stands for one name
IdsAreCounted ==
    /\ \A p \in AllDatabaseIds : p[2] \in Nat /\ p[2] < nextDatabaseId
    /\ \A p \in AllSchemaIds : p[2][2] \in Nat /\ p[2][2] < nextSchemaId

\* The databases and schemas of an analysis are those of its declaration, so that a
\* registration brings no ids that its script's analysis does not have.
LEMMA RegisteredIdsAreKnown ==
    ASSUME TypeOK, NEW s \in Scripts, LoadFirst(s) \/ LoadFails(s) \/ Update(s)
    PROVE  AllDatabaseIds' \subseteq AllDatabaseIds /\ AllSchemaIds' \subseteq AllSchemaIds
<1>1. DeclaredFrom(s)
  BY LoadTypes, UpdateKeepsTypes
<1>2. /\ analysis[s] # Nothing /\ analysis' = analysis
      /\ loaded' = [loaded EXCEPT ![s] = Declared(analysis[s])] \/ loaded' = loaded
  BY DEF LoadFirst, LoadFails, Update, Register
<1>3. /\ Declared(analysis[s]).databases = analysis[s].databases
      /\ Declared(analysis[s]).schemas = analysis[s].schemas
  BY <1>2, AnalysisIsAnalysis, AnalysisDeclares
<1>4. analysis[s] \in Analyses
  BY <1>2 DEF Analyses
<1>5. \A a \in Analyses' : a \in Analyses \/ a = Declared(analysis[s])
  BY <1>2 DEF Analyses, TypeOK
<1>6. /\ \A a \in Analyses : Pairs(a.databases) \subseteq AllDatabaseIds
      /\ \A a \in Analyses : Pairs(a.schemas) \subseteq AllSchemaIds
      /\ Pairs(databases) \subseteq AllDatabaseIds /\ Pairs(schemas) \subseteq AllSchemaIds
  BY DEF AllDatabaseIds, AllSchemaIds
<1>7. /\ \A a \in Analyses' : Pairs(a.databases) \subseteq AllDatabaseIds
      /\ \A a \in Analyses' : Pairs(a.schemas) \subseteq AllSchemaIds
  BY <1>3, <1>4, <1>5, <1>6
<1>8. /\ Pairs(databases') \subseteq AllDatabaseIds
      /\ Pairs(schemas') \subseteq AllSchemaIds
  BY <1>1, <1>4, <1>6 DEF DeclaredFrom
<1>9. /\ AllDatabaseIds' = Pairs(databases') \cup UNION {Pairs(a.databases) : a \in Analyses'}
      /\ AllSchemaIds' = Pairs(schemas') \cup UNION {Pairs(a.schemas) : a \in Analyses'}
  BY DEF AllDatabaseIds, AllSchemaIds
<1>10. QED
  BY <1>7, <1>8, <1>9

\* An analysis uses the declared ids and new ones.
LEMMA AnalyzedIds ==
    ASSUME TypeOK, NEW s \in Scripts, NEW text \in Texts, Analyze(s, text)
    PROVE  /\ AllDatabaseIds' \subseteq AllDatabaseIds \cup Pairs(DatabaseIds(text))
           /\ AllSchemaIds' \subseteq AllSchemaIds \cup Pairs(SchemaIds(text))
<1>1. PICK table : analysis' = [analysis EXCEPT ![s] =
          [text |-> text, databases |-> DatabaseIds(text), schemas |-> SchemaIds(text),
           table |-> table, version |-> version]]
  BY AnalyzeSteps
<1>2. loaded' = loaded /\ databases' = databases /\ schemas' = schemas
  BY AnalyzeSteps
<1> DEFINE made == [text |-> text, databases |-> DatabaseIds(text), schemas |-> SchemaIds(text),
                    table |-> table, version |-> version]
<1>3. made.databases = DatabaseIds(text) /\ made.schemas = SchemaIds(text)
  OBVIOUS
<1> HIDE DEF made
<1>4. \A a \in Analyses' : a \in Analyses \/ a = made
  BY <1>1, <1>2 DEF Analyses, TypeOK, made
<1>5. /\ AllDatabaseIds' = Pairs(databases') \cup UNION {Pairs(a.databases) : a \in Analyses'}
      /\ AllSchemaIds' = Pairs(schemas') \cup UNION {Pairs(a.schemas) : a \in Analyses'}
  BY DEF AllDatabaseIds, AllSchemaIds
<1>6. /\ AllDatabaseIds' \subseteq AllDatabaseIds \cup Pairs(DatabaseIds(text))
      /\ AllSchemaIds' \subseteq AllSchemaIds \cup Pairs(SchemaIds(text))
  BY <1>2, <1>3, <1>4, <1>5 DEF AllDatabaseIds, AllSchemaIds
<1>7. QED
  BY <1>6

LEMMA IdsStep ==
    TypeOK /\ IdsNameOneThing /\ IdsAreCounted /\ [Next]_vars => IdsNameOneThing' /\ IdsAreCounted'
<1> SUFFICES ASSUME TypeOK, IdsNameOneThing, IdsAreCounted, [Next]_vars
             PROVE  IdsNameOneThing' /\ IdsAreCounted'
  OBVIOUS
<1>1. ASSUME AllDatabaseIds' \subseteq AllDatabaseIds, AllSchemaIds' \subseteq AllSchemaIds,
             UNCHANGED counters
      PROVE  IdsNameOneThing' /\ IdsAreCounted'
  BY <1>1 DEF IdsNameOneThing, IdsAreCounted, counters
<1>2. ASSUME NEW s \in Scripts, LoadFirst(s) \/ LoadFails(s) \/ Update(s)
      PROVE  IdsNameOneThing' /\ IdsAreCounted'
  <2>1. UNCHANGED counters
    BY <1>2 DEF LoadFirst, LoadFails, Update
  <2>2. QED
    BY <1>1, <1>2, <2>1, RegisteredIdsAreKnown
<1>3. ASSUME UNCHANGED <<analysis, declarations, counters>>,
             \A t \in Scripts : loaded'[t] = Nothing \/ loaded'[t] = loaded[t]
      PROVE  IdsNameOneThing' /\ IdsAreCounted'
  <2>1. Analyses' \subseteq Analyses
    BY <1>3 DEF Analyses
  <2>2. AllDatabaseIds' \subseteq AllDatabaseIds /\ AllSchemaIds' \subseteq AllSchemaIds
    BY <1>3, <2>1 DEF AllDatabaseIds, AllSchemaIds, declarations
  <2>3. QED
    BY <1>1, <1>3, <2>2
<1>4. ASSUME (\E s \in Scripts : Drop(s)) \/ Clear
      PROVE  IdsNameOneThing' /\ IdsAreCounted'
  <2>1. /\ UNCHANGED <<analysis, declarations, counters>>
        /\ \A t \in Scripts : loaded'[t] = Nothing \/ loaded'[t] = loaded[t]
    BY <1>4 DEF Drop, Clear, TypeOK
  <2>2. QED
    BY <1>3, <2>1
<1>5. ASSUME NEW s \in Scripts, NEW text \in Texts, Analyze(s, text)
      PROVE  IdsNameOneThing' /\ IdsAreCounted'
  <2> DEFINE ND == NewDatabases(text)
             NS == NewSchemas(text)
  <2>1. /\ nextDatabaseId + Cardinality(ND) <= MaxId /\ nextSchemaId + Cardinality(NS) <= MaxId
        /\ nextDatabaseId' = nextDatabaseId + Cardinality(ND)
        /\ nextSchemaId' = nextSchemaId + Cardinality(NS)
    BY <1>5, AnalyzeSteps
  <2>2. /\ nextDatabaseId \in Nat /\ nextSchemaId \in Nat
        /\ nextDatabaseId' \in Nat /\ nextSchemaId' \in Nat
        /\ nextDatabaseId' >= nextDatabaseId /\ nextSchemaId' >= nextSchemaId
    BY <2>1, AnalyzeNumbers DEF TypeOK, Ids
  <2>3. \A p \in Pairs(DatabaseIds(text)) :
            \/ p \in Pairs(databases)
            \/ /\ p[1] \in ND /\ p[2] = DatabaseIds(text)[p[1]]
               /\ p[2] \in Nat /\ p[2] >= nextDatabaseId /\ p[2] < nextDatabaseId'
    BY <2>1, AnalyzeNumbers DEF Pairs, Ids
  <2>4. \A p \in Pairs(SchemaIds(text)) :
            \/ p \in Pairs(schemas)
            \/ /\ p[1] \in NS /\ p[2] = SchemaIds(text)[p[1]]
               /\ p[2][2] \in Nat /\ p[2][2] >= nextSchemaId /\ p[2][2] < nextSchemaId'
    <3>1. ASSUME NEW k \in SchemasOf(text.creates)
          PROVE  \/ k \in DOMAIN schemas /\ SchemaIds(text)[k] = schemas[k]
                 \/ /\ SchemaIds(text)[k][2] >= nextSchemaId
                    /\ SchemaIds(text)[k][2] < nextSchemaId + Cardinality(NS)
                    /\ k \in NS
      BY <2>1, AnalyzeNumbers
    <3>2. /\ DOMAIN SchemaIds(text) = SchemasOf(text.creates)
          /\ \A k \in SchemasOf(text.creates) : SchemaIds(text)[k][2] \in Nat
      BY <2>1, AnalyzeNumbers DEF Ids
    <3>3. QED
      BY <2>1, <3>1, <3>2 DEF Pairs
  <2>5. /\ \A m, n \in ND : DatabaseIds(text)[m] = DatabaseIds(text)[n] => m = n
        /\ \A m, n \in NS : SchemaIds(text)[m][2] = SchemaIds(text)[n][2] => m = n
    BY <2>1, AnalyzeNumbers
  <2>6. /\ \A p \in AllDatabaseIds' :
              \/ p \in AllDatabaseIds
              \/ /\ p[1] \in ND /\ p[2] = DatabaseIds(text)[p[1]]
                 /\ p[2] \in Nat /\ p[2] >= nextDatabaseId /\ p[2] < nextDatabaseId'
        /\ \A p \in AllSchemaIds' :
              \/ p \in AllSchemaIds
              \/ /\ p[1] \in NS /\ p[2] = SchemaIds(text)[p[1]]
                 /\ p[2][2] \in Nat /\ p[2][2] >= nextSchemaId /\ p[2][2] < nextSchemaId'
    <3>1. Pairs(databases) \subseteq AllDatabaseIds /\ Pairs(schemas) \subseteq AllSchemaIds
      BY DEF AllDatabaseIds, AllSchemaIds
    <3>2. QED
      BY <1>5, <2>3, <2>4, <3>1, AnalyzedIds
  <2>7. IdsAreCounted'
    BY <2>2, <2>6 DEF IdsAreCounted
  <2>8. \A p, q \in AllDatabaseIds' : p[2] = q[2] => p[1] = q[1]
    BY <2>2, <2>5, <2>6 DEF IdsAreCounted, IdsNameOneThing
  <2>9. \A p, q \in AllSchemaIds' : p[2][2] = q[2][2] => p[1] = q[1]
    BY <2>2, <2>5, <2>6 DEF IdsAreCounted, IdsNameOneThing
  <2>10. QED
    BY <2>7, <2>8, <2>9 DEF IdsNameOneThing
<1>6. CASE UNCHANGED vars
  BY <1>3, <1>6 DEF vars, declarations, counters
<1>7. QED
  BY <1>2, <1>4, <1>5, <1>6 DEF Next

\* An id of a database or of a schema stands for one name: in the catalog, in what is loaded
\* and in every analysis that is not loaded yet, however many of them are outdated.
THEOREM IdsAreUnique == Spec => []IdsNameOneThing
<1>1. Init => IdsNameOneThing /\ IdsAreCounted
  BY DEF Init, IdsNameOneThing, IdsAreCounted, AllDatabaseIds, AllSchemaIds, Analyses, Pairs
<1>2. QED
  BY <1>1, CatalogIsTyped, IdsStep, PTL DEF Spec

-----------------------------------------------------------------------------
(* References of the current version                                          *)

\* Every step either bumps the version and makes no analysis, or leaves what a lookup reads.
LEMMA VersionSteps ==
    ASSUME TypeOK, [Next]_vars
    PROVE  \/ version' = version + 1 /\ analysis' = analysis
           \/ loaded' = loaded /\ bySchema' = bySchema /\ byQualified' = byQualified
              /\ version' = version
<1>1. CASE UNCHANGED vars
  BY <1>1 DEF vars
<1>2. ASSUME NEW s \in Scripts, NEW text \in Texts, Analyze(s, text)
      PROVE  loaded' = loaded /\ bySchema' = bySchema /\ byQualified' = byQualified
             /\ version' = version
  BY <1>2, AnalyzeSteps
<1>3. ASSUME NEW s \in Scripts, LoadFails(s)
      PROVE  loaded' = loaded /\ bySchema' = bySchema /\ byQualified' = byQualified
             /\ version' = version
  BY <1>3 DEF LoadFails, indexes
<1>4. ASSUME NEW s \in Scripts, LoadFirst(s) \/ Update(s) \/ Drop(s)
      PROVE  version' = version + 1 /\ analysis' = analysis
  BY <1>4 DEF LoadFirst, Update, Drop, Register, Bump
<1>5. CASE Clear
  BY <1>5 DEF Clear, Bump
<1>6. QED
  BY <1>1, <1>2, <1>3, <1>4, <1>5 DEF Next

\* An analysis of the current version was there before, with the same entries and indexes, or
\* has just been made.
LEMMA CurrentAnalyses ==
    ASSUME TypeOK, [Next]_vars, NEW s \in Scripts,
           analysis'[s] # Nothing, analysis'[s].version = version'
    PROVE  /\ loaded' = loaded /\ bySchema' = bySchema /\ byQualified' = byQualified
           /\ \/ analysis'[s] = analysis[s] /\ version' = version
              \/ \E text \in Texts : \E table \in Resolutions(s, text) :
                     analysis'[s].text = text /\ analysis'[s].table = table
<1>1. version \in Nat
  BY DEF TypeOK
<1>2. CASE version' = version + 1 /\ analysis' = analysis
  <2>1. analysis[s].version \in 1 .. version
    BY <1>2, AnalysisIsAnalysis DEF IsAnalysis
  <2>2. QED
    BY <1>1, <1>2, <2>1
<1>3. CASE loaded' = loaded /\ bySchema' = bySchema /\ byQualified' = byQualified
           /\ version' = version
  <2>1. CASE analysis'[s] = analysis[s]
    BY <1>3, <2>1
  <2>2. CASE analysis'[s] # analysis[s]
    <3>1. PICK t \in Scripts, text \in Texts : Analyze(t, text)
      BY <2>2 DEF Next, vars, LoadFirst, LoadFails, Update, Drop, Clear
    <3>2. PICK table \in Resolutions(t, text) : analysis' = [analysis EXCEPT ![t] =
              [text |-> text, databases |-> DatabaseIds(text), schemas |-> SchemaIds(text),
               table |-> table, version |-> version]]
      BY <3>1, AnalyzeSteps
    <3>3. t = s
      BY <2>2, <3>2 DEF TypeOK
    <3>4. analysis'[s].text = text /\ analysis'[s].table = table
      BY <3>2, <3>3 DEF TypeOK
    <3>5. QED
      BY <1>3, <3>2, <3>3, <3>4
  <2>3. QED
    BY <2>1, <2>2
<1>4. QED
  BY <1>2, <1>3, VersionSteps

\* A lookup reads the entries and the indexes, and nothing else.
LEMMA LookupReads ==
    ASSUME loaded' = loaded, bySchema' = bySchema, byQualified' = byQualified, NEW s, NEW text
    PROVE  Resolutions(s, text)' = Resolutions(s, text)
  BY Zenon DEF Resolutions, ResolveInCatalog, Entries

LEMMA VersionStep ==
    TypeOK /\ VersionProtectsReferences /\ [Next]_vars => VersionProtectsReferences'
<1> SUFFICES ASSUME TypeOK, VersionProtectsReferences, [Next]_vars, NEW s \in Scripts,
                    analysis'[s] # Nothing, analysis'[s].version = version',
                    NEW text, text = analysis'[s].text
             PROVE  analysis'[s].table \in Resolutions(s, text)'
  BY DEF VersionProtectsReferences
<1>1. analysis'[s].table \in Resolutions(s, text)
  BY CurrentAnalyses DEF VersionProtectsReferences
<1>2. Resolutions(s, text)' = Resolutions(s, text)
  BY CurrentAnalyses, LookupReads
<1>3. QED
  BY <1>1, <1>2

\* An analysis of the current version would resolve its name to the same table again: every
\* change of an entry or an index bumps the version.
THEOREM VersionGuardsReferences == Spec => []VersionProtectsReferences
<1>1. Init => VersionProtectsReferences
  BY DEF Init, VersionProtectsReferences
<1>2. QED
  BY <1>1, CatalogIsTyped, VersionStep, PTL DEF Spec

-----------------------------------------------------------------------------
(* Fully qualified names                                                      *)

\* Of some entries one has the lowest rank, also if there are infinitely many.
LEMMA LowestRank ==
    ASSUME NEW S \in SUBSET Scripts, S # {}
    PROVE  \E t \in S : \A o \in S : Rank[t] <= Rank[o]
<1> DEFINE R == {ss \in Nat \X Nat : ss[1] < ss[2]}
           T == {Rank[t] : t \in S}
<1>1. IsWellFoundedOn(R, Nat)
  BY NatLessThanWellFounded DEF OpToRel
<1>2. T \subseteq Nat /\ T # {}
  BY RanksAreAnOrder
<1> HIDE DEF R
<1>3. PICK r \in T : \A u \in T : ~(<<u, r>> \in R)
  BY <1>1, <1>2, WFMin
<1>4. PICK t \in S : r = Rank[t]
  BY <1>3
<1>5. ASSUME NEW o \in S PROVE Rank[t] <= Rank[o]
  <2>1. Rank[o] \in Nat /\ Rank[t] \in Nat
    BY RanksAreAnOrder
  <2>2. ~(<<Rank[o], r>> \in R)
    BY <1>3
  <2>3. QED
    BY <1>4, <2>1, <2>2 DEF R
<1>6. QED
  BY <1>5

\* what a fully qualified name stands for: the script's own table, or none, or the one of
\* the entry of lowest rank that declares it
StandsFor(l, s, text, table) ==
    LET name == text.reads
        others == {t \in Scripts \ {s} : l[t] # Nothing /\ name \in l[t].creates}
    IN  \/ table = <<s, name>> /\ name \in text.creates
        \/ table = Nothing /\ name \notin text.creates /\ others = {}
        \/ /\ name \notin text.creates
           /\ \E t \in others : /\ table = <<t, name>>
                                /\ \A o \in others : Rank[t] <= Rank[o]

\* The entries that the qualified index offers for a name are enough to find the table.
LEMMA QualifiedMatches ==
    ASSUME TypeOK, IndexesFollowEntries, NEW s \in Scripts, NEW name,
           name = <<name[1], name[2], name[3]>>
    PROVE  {t \in Scripts \ {s} : /\ <<name[1], name[2], t>> \in byQualified
                                  /\ loaded[t].creates \cap {name} # {}}
               = {t \in Scripts \ {s} : loaded[t] # Nothing /\ name \in loaded[t].creates}
<1> DEFINE qualified == {t \in Scripts \ {s} : <<name[1], name[2], t>> \in byQualified}
<1>1. ASSUME NEW t \in Scripts \ {s}, loaded[t] # Nothing, name \in loaded[t].creates
      PROVE  t \in qualified
  <2>1. SchemaOf(name) \in DOMAIN loaded[t].schemas
    BY <1>1, IndexesLeadToEntries, DeclarationNames
  <2>2. QED
    BY <2>1, <1>1, IndexesLeadToEntries DEF SchemaOf
<1>2. \A t \in qualified : t \in Scripts \ {s} /\ loaded[t] # Nothing
  BY IndexesLeadToEntries
<1>3. QED
  BY <1>1, <1>2

LEMMA QualifiedLookup ==
    ASSUME TypeOK, IndexesFollowEntries, NEW s \in Scripts, NEW text \in Texts,
           text.reads[1] # NoName, NEW table \in Resolutions(s, text)
    PROVE  StandsFor(loaded, s, text, table)
<1> DEFINE name == text.reads
           others == {t \in Scripts \ {s} : loaded[t] # Nothing /\ name \in loaded[t].creates}
           qualified == {t \in Scripts \ {s} : <<name[1], name[2], t>> \in byQualified}
           matches == [t \in qualified |-> loaded[t].creates \cap {name}]
<1>1. CASE name \in text.creates
  <2>1. {s} \X ResolveInEntry(text.creates, name) = {<<s, name>>}
    BY <1>1 DEF ResolveInEntry
  <2>2. Resolutions(s, text) = {<<s, name>>}
    BY <2>1 DEF Resolutions
  <2>3. QED
    BY <1>1, <2>2 DEF StandsFor
<1>2. CASE name \notin text.creates
  <2>1. {s} \X ResolveInEntry(text.creates, name) = {}
    BY <1>2 DEF ResolveInEntry
  <2>2. ResolveInCatalog(s, name) = FirstMatch(matches)
    BY DEF ResolveInCatalog
  <2>3. \/ table \in FirstMatch(matches)
        \/ table = Nothing /\ FirstMatch(matches) = {}
    BY <2>1, <2>2 DEF Resolutions
  <2>4. {t \in DOMAIN matches : matches[t] # {}} = others
    <3>1. name = <<name[1], name[2], name[3]>>
      BY TextsNameTables
    <3>2. {t \in Scripts \ {s} : /\ <<name[1], name[2], t>> \in byQualified
                                 /\ loaded[t].creates \cap {name} # {}} = others
      BY <3>1, QualifiedMatches
    <3>3. QED
      BY <3>2
  <2>5. FirstMatch(matches) = UNION {{t} \X matches[t] : t \in Foremost(others)}
    BY <2>4 DEF FirstMatch
  <2>6. \A t \in others : matches[t] = {name}
    BY <2>4
  <2>7. others \subseteq Scripts
    OBVIOUS
  <2> HIDE DEF others, matches
  <2>8. FirstMatch(matches) = {<<t, name>> : t \in Foremost(others)}
    BY <2>5, <2>6 DEF Foremost
  <2>9. CASE table = Nothing /\ FirstMatch(matches) = {}
    <3>1. Foremost(others) = {}
      BY <2>8, <2>9
    <3>2. others = {}
      BY <2>7, <3>1, LowestRank DEF Foremost
    <3>3. QED
      BY <1>2, <2>9, <3>2 DEF StandsFor, others
  <2>10. CASE table \in FirstMatch(matches)
    <3>1. PICK t \in Foremost(others) : table = <<t, name>>
      BY <2>8, <2>10
    <3>2. t \in others /\ \A o \in others : Rank[t] <= Rank[o]
      BY <3>1 DEF Foremost
    <3>3. QED
      BY <1>2, <3>1, <3>2 DEF StandsFor, others
  <2>11. QED
    BY <2>3, <2>9, <2>10
<1>3. QED
  BY <1>1, <1>2

LEMMA QualifiedStep ==
    TypeOK /\ IndexesFollowEntries /\ QualifiedNamesAreCurrent /\ [Next]_vars
        => QualifiedNamesAreCurrent'
<1>1. ASSUME NEW s \in Scripts
      PROVE  /\ Declaring(s, analysis[s].text.reads) =
                    {t \in Scripts \ {s} : /\ loaded[t] # Nothing
                                           /\ analysis[s].text.reads \in loaded[t].creates}
             /\ Declaring(s, analysis[s].text.reads)' =
                    {t \in Scripts \ {s} : /\ loaded'[t] # Nothing
                                           /\ analysis'[s].text.reads \in loaded'[t].creates}
  BY DEF Declaring, Entries
<1>2. /\ QualifiedNamesAreCurrent <=>
             \A s \in Scripts : (/\ analysis[s] # Nothing /\ analysis[s].version = version
                                 /\ analysis[s].text.reads[1] # NoName)
                                    => StandsFor(loaded, s, analysis[s].text, analysis[s].table)
      /\ QualifiedNamesAreCurrent' <=>
             \A s \in Scripts : (/\ analysis'[s] # Nothing /\ analysis'[s].version = version'
                                 /\ analysis'[s].text.reads[1] # NoName)
                                    => StandsFor(loaded', s, analysis'[s].text, analysis'[s].table)
  BY <1>1 DEF QualifiedNamesAreCurrent, StandsFor
<1> SUFFICES ASSUME TypeOK, IndexesFollowEntries, QualifiedNamesAreCurrent, [Next]_vars,
                    NEW s \in Scripts,
                    analysis'[s] # Nothing, analysis'[s].version = version',
                    analysis'[s].text.reads[1] # NoName
             PROVE  StandsFor(loaded', s, analysis'[s].text, analysis'[s].table)
  BY <1>2
<1>3. CASE analysis'[s] = analysis[s] /\ version' = version
  BY <1>2, <1>3, CurrentAnalyses
<1>4. CASE \E text \in Texts : \E table \in Resolutions(s, text) :
               analysis'[s].text = text /\ analysis'[s].table = table
  BY <1>4, QualifiedLookup, CurrentAnalyses
<1>5. QED
  BY <1>3, <1>4, CurrentAnalyses

\* An analysis of the current version has resolved a fully qualified name to its own table, or
\* to that of the lowest rank among all loaded scripts, or to none because there is none: the
\* lookup through the index misses no entry, and later steps do not outdate what it found.
THEOREM QualifiedNamesStayCurrent == Spec => []QualifiedNamesAreCurrent
<1>1. Init => QualifiedNamesAreCurrent
  BY DEF Init, QualifiedNamesAreCurrent
<1>2. QED
  BY <1>1, CatalogIsTyped, QualifiedStep, PTL DEF Spec
=============================================================================
