-------------------------- MODULE SourceRecords_proof --------------------------
(***************************************************************************)
(* Theorems about SourceRecords, for every universe of providers, ids,     *)
(* aliases, objects and paths, and candidates and bindings of any number.  *)
(***************************************************************************)
EXTENDS SourceRecords, FiniteSetTheorems, TLAPS

USE IdentityAssumption, AbsenceAssumption, RecordsAssumption

-----------------------------------------------------------------------------
(* The invariant.                                                          *)

\* The records of compatibility.py are of the classes they are built from, and
\* repeat what their inputs lead to.
MappingInv ==
  mapping # None =>
    /\ mapping.locator \in Locators /\ mapping.observation \in AliasObservations
    /\ mapping.interpretation \in Interpretations
    /\ mapping = MappingResult(mapping.locator, mapping.observation, mapping.interpretation)

ProjectionInv ==
  projection # None =>
    /\ projection.identity \in SourceIdentities /\ projection.observation \in AliasObservations
    /\ projection = ProjectionResult(projection.identity, projection.observation)

\* What may be carried for a set of types.
Carriable(types) == {v \in ScalarValues \cup CarriedIdentities : v.type \in types}

\* A carrier admits what it carries for the types it is declared for.
Carried(types, c) ==
  /\ types \in SUBSET IdentityTypes
  /\ c = [state |-> c.state, value |-> c.value, candidates |-> c.candidates]
  /\ c.value \in Carriable(types) \cup {None}
  /\ c.candidates \in Tuples(Carriable(types), MaxCandidates)
  /\ ValueStateOK(types, c)

CarrierInv ==
  carrier # None =>
    /\ carrier = [types |-> carrier.types, content |-> carrier.content]
    /\ Carried(carrier.types, carrier.content)
    /\ mapping = None /\ projection = None

ReadInv ==
  readBack # None => /\ mapping # None \/ carrier # None
                     /\ readBack = IF mapping # None THEN mapping ELSE carrier

CompatibilityInv == MappingInv /\ ProjectionInv /\ CarrierInv /\ ReadInv

\* A collection is admitted and made of bindings, a scope is covered by the
\* collection that is there, and a change set is admitted.
CollectionInv ==
  collection # None =>
    /\ collection.bindings \in Tuples(PathBindings, MaxPaths)
    /\ CollectionOK(collection)
CoverageInv ==
  coverage # None => collection # None /\ CoverageOK(coverage, collection)
ChangeInv ==
  changeSet # None => ChangeSetOK(changeSet)

RepositoryInv == CollectionInv /\ CoverageInv /\ ChangeInv

Inv == CompatibilityInv /\ RepositoryInv

\* Nothing is there while the caller is idle.
LEMMA IdleMeans ==
  Idle => /\ mapping = None /\ projection = None /\ carrier = None /\ readBack = None
          /\ collection = None /\ coverage = None /\ changeSet = None /\ fact = None
<1> SUFFICES ASSUME Idle
    PROVE /\ mapping = None /\ projection = None /\ carrier = None /\ readBack = None
          /\ collection = None /\ coverage = None /\ changeSet = None /\ fact = None
  OBVIOUS
<1>1. /\ DOMAIN vars = 1 .. 8
      /\ vars[1] = mapping /\ vars[2] = projection /\ vars[3] = carrier /\ vars[4] = readBack
      /\ vars[5] = collection /\ vars[6] = coverage /\ vars[7] = changeSet /\ vars[8] = fact
  BY DEF vars
<1>2. \A i \in 1 .. 8 : vars[i] = None
  BY <1>1 DEF Idle
<1>3. 1 \in 1 .. 8 /\ 2 \in 1 .. 8 /\ 3 \in 1 .. 8 /\ 4 \in 1 .. 8
      /\ 5 \in 1 .. 8 /\ 6 \in 1 .. 8 /\ 7 \in 1 .. 8 /\ 8 \in 1 .. 8
  OBVIOUS
<1> HIDE DEF vars
<1> QED BY <1>1, <1>2, <1>3

-----------------------------------------------------------------------------
(* Mapping and projection.                                                 *)

\* What a locator, an observation and a numbered identity are made of.
LEMMA Shapes ==
  /\ \A l \in Locators : /\ l.provider = "github" /\ l.kind = "issue" /\ l.object_id \in Decimals
                         /\ l.repository \in {Lower(a) : a \in LegacyAliases}
                         /\ l = [provider |-> l.provider, repository |-> l.repository,
                                 kind |-> l.kind, object_id |-> l.object_id]
  /\ \A o \in AliasObservations : o.repository \in Repositories /\ o.alias \in Aliases
  /\ \A i \in SourceIdentities : i.type = "numbered" =>
        /\ i \in Numbered
        /\ i = [type |-> i.type, repository |-> i.repository, kind |-> i.kind,
                number |-> i.number]
<1>1. \A l \in Locators : /\ l.provider = "github" /\ l.kind = "issue"
                          /\ l.object_id \in Decimals
                          /\ l.repository \in {Lower(a) : a \in LegacyAliases}
                          /\ l = [provider |-> l.provider, repository |-> l.repository,
                                  kind |-> l.kind, object_id |-> l.object_id]
  BY DEF Locators
<1>2. \A o \in AliasObservations : o.repository \in Repositories /\ o.alias \in Aliases
  BY DEF AliasObservations
<1>3. ASSUME NEW i \in SourceIdentities, i.type = "numbered"
      PROVE  /\ i \in Numbered
             /\ i = [type |-> i.type, repository |-> i.repository, kind |-> i.kind,
                     number |-> i.number]
  <2>1. i \notin Repositories
    BY <1>3 DEF Repositories
  <2>2. i \notin Scoped
    BY <1>3 DEF Scoped
  <2>3. i \in Numbered
    BY <2>1, <2>2 DEF SourceIdentities
  <2> QED BY <2>3 DEF Numbered
<1> QED BY <1>1, <1>2, <1>3

\* A locator in lower case can be projected as it is.
LEMMA LowerIsLegacy ==
  ASSUME NEW l \in Locators
  PROVE  ExactlyLegacy(l.repository)
<1>1. PICK a \in LegacyAliases : l.repository = Lower(a)
  BY Shapes
<1> QED BY <1>1 DEF ExactlyLegacy

\* The locator that an identity is projected to is one, and the identity is an
\* issue of the repository it was observed for.
LEMMA Projected ==
  ASSUME NEW i \in SourceIdentities, NEW o \in AliasObservations,
         ProjectionOutcome(i, o).status = "partially_mappable"
         \/ ProjectionOutcome(i, o).locator # None
  PROVE  /\ i.type = "numbered" /\ i.kind = "issue" /\ i.repository = o.repository
         /\ o.repository.provider = "github" /\ ExactlyLegacy(o.alias)
         /\ ProjectionOutcome(i, o).locator =
              [provider |-> "github", repository |-> o.alias, kind |-> "issue",
               object_id |-> i.number]
         /\ ProjectionOutcome(i, o).locator \in Locators
<1>1. /\ o.repository = RepositoryOf(i) /\ o.repository.provider = "github"
      /\ i.type = "numbered" /\ i.kind = "issue" /\ ExactlyLegacy(o.alias)
  BY DEF ProjectionOutcome
<1>2. ProjectionOutcome(i, o).locator =
        [provider |-> "github", repository |-> Lower(o.alias), kind |-> "issue",
         object_id |-> i.number]
  BY <1>1 DEF ProjectionOutcome
<1>3. RepositoryOf(i) = i.repository
  BY <1>1 DEF RepositoryOf
<1>4. i.number \in Decimals
  BY <1>1, Shapes DEF Numbered
<1>5. o.alias \in LegacyAliases /\ Lower(o.alias) = o.alias
  BY <1>1 DEF ExactlyLegacy
<1>6. ProjectionOutcome(i, o).locator \in Locators
  BY <1>2, <1>4, <1>5 DEF Locators
<1> QED BY <1>1, <1>2, <1>3, <1>5, <1>6

\* An identity that a locator is mapped to is a numbered one.
LEMMA Mapped ==
  ASSUME NEW l \in Locators, NEW o \in AliasObservations, NEW n \in Interpretations,
         MappingOutcome(l, o, n).status = "losslessly_mappable"
         \/ MappingOutcome(l, o, n).identity # None
  PROVE  /\ ContextAgrees(l, o)
         /\ MappingOutcome(l, o, n).identity =
              [type |-> "numbered", repository |-> o.repository, kind |-> "issue",
               number |-> l.object_id]
         /\ MappingOutcome(l, o, n).identity \in SourceIdentities
<1>1. ContextAgrees(l, o) /\ n # "unresolved" /\ n # "provider_global_id"
  BY DEF MappingOutcome
<1>2. MappingOutcome(l, o, n).identity =
        [type |-> "numbered", repository |-> o.repository, kind |-> "issue",
         number |-> l.object_id]
  BY <1>1 DEF MappingOutcome
<1>3. MappingOutcome(l, o, n).identity \in Numbered
  BY <1>2, Shapes DEF Numbered, NumberedKinds
<1> QED BY <1>1, <1>2, <1>3 DEF SourceIdentities

\* The invariant gives both directions of the mapping.
LEMMA Reversible == CompatibilityInv => MappingReversible
<1> SUFFICES ASSUME CompatibilityInv, mapping # None, projection # None,
                    mapping.observation = projection.observation
    PROVE /\ (mapping.status = "losslessly_mappable" /\ projection.identity = mapping.identity)
                => projection.locator = mapping.locator
          /\ (/\ projection.status = "partially_mappable"
              /\ mapping.locator = projection.locator
              /\ mapping.interpretation = "repository_scoped_number")
                => mapping.identity = projection.identity
  BY DEF MappingReversible
<1> DEFINE l == mapping.locator
           o == mapping.observation
           n == mapping.interpretation
           i == projection.identity
<1>1. l \in Locators /\ o \in AliasObservations /\ n \in Interpretations /\ i \in SourceIdentities
  BY DEF CompatibilityInv, MappingInv, ProjectionInv
<1>2. /\ mapping.status = MappingOutcome(l, o, n).status
      /\ mapping.identity = MappingOutcome(l, o, n).identity
  <2>1. mapping = MappingResult(l, o, n)
    BY DEF CompatibilityInv, MappingInv
  <2>2. /\ MappingResult(l, o, n).status = MappingOutcome(l, o, n).status
        /\ MappingResult(l, o, n).identity = MappingOutcome(l, o, n).identity
    BY Zenon DEF MappingResult
  <2> QED BY <2>1, <2>2
<1>3. /\ projection.status = ProjectionOutcome(i, o).status
      /\ projection.locator = ProjectionOutcome(i, o).locator
  <2>1. projection = ProjectionResult(i, o)
    BY DEF CompatibilityInv, ProjectionInv
  <2>2. /\ ProjectionResult(i, o).status = ProjectionOutcome(i, o).status
        /\ ProjectionResult(i, o).locator = ProjectionOutcome(i, o).locator
    BY Zenon DEF ProjectionResult
  <2> QED BY <2>1, <2>2
<1> HIDE DEF l, o, n, i
<1>4. ASSUME mapping.status = "losslessly_mappable", i = mapping.identity
      PROVE  projection.locator = l
  <2>1. /\ ContextAgrees(l, o) /\ i = [type |-> "numbered", repository |-> o.repository,
                                       kind |-> "issue", number |-> l.object_id]
    BY <1>1, <1>2, <1>4, Mapped
  <2>2. o.repository.provider = "github" /\ o.alias = l.repository /\ ExactlyLegacy(o.alias)
    BY <1>1, <2>1, Shapes, LowerIsLegacy DEF ContextAgrees
  <2>3. RepositoryOf(i) = o.repository /\ i.type = "numbered" /\ i.kind = "issue"
        /\ i.number = l.object_id
    BY <2>1 DEF RepositoryOf
  <2>4. Lower(o.alias) = l.repository
    BY <2>2 DEF ExactlyLegacy
  <2>5. ProjectionOutcome(i, o).locator =
          [provider |-> "github", repository |-> l.repository, kind |-> "issue",
           object_id |-> l.object_id]
    BY <2>2, <2>3, <2>4 DEF ProjectionOutcome
  <2> QED BY <1>1, <1>3, <2>5, Shapes
<1>5. ASSUME projection.status = "partially_mappable", l = projection.locator,
             n = "repository_scoped_number"
      PROVE  mapping.identity = i
  <2>1. /\ i.type = "numbered" /\ i.kind = "issue" /\ i.repository = o.repository
        /\ o.repository.provider = "github"
        /\ l = [provider |-> "github", repository |-> o.alias, kind |-> "issue",
                object_id |-> i.number]
    BY <1>1, <1>3, <1>5, Projected
  <2>2. ContextAgrees(l, o) /\ l.object_id = i.number
    BY <2>1 DEF ContextAgrees
  <2>3. MappingOutcome(l, o, n).identity =
          [type |-> "numbered", repository |-> o.repository, kind |-> "issue",
           number |-> i.number]
    BY <1>5, <2>2 DEF MappingOutcome
  <2> QED BY <1>1, <1>2, <2>1, <2>3, Shapes
<1> QED BY <1>4, <1>5 DEF l, o, n, i

-----------------------------------------------------------------------------
(* What is stored is what is read.                                         *)

\* A carrier has one scalar type at most.
LEMMA OneScalar ==
  ASSUME NEW types, ~AmbiguousScalars(types),
         NEW s \in types \cap Scalars, NEW t \in types \cap Scalars
  PROVE  s = t
<1> SUFFICES ASSUME s # t PROVE FALSE
  OBVIOUS
<1>1. IsFiniteSet(types \cap Scalars)
  <2>1. Scalars = {"repository_scoped_number"} \cup {"provider_global_id"}
                  \cup {"provider_node_id"}
    BY DEF Scalars, Grammar
  <2>2. IsFiniteSet({"repository_scoped_number"} \cup {"provider_global_id"}
                    \cup {"provider_node_id"})
    BY FS_Singleton, FS_AddElement
  <2> QED BY <2>1, <2>2, FS_Subset
<1>2. IsFiniteSet({s}) /\ Cardinality({s}) = 1
  BY FS_Singleton
<1>3. {s} \cup {t} \subseteq types \cap Scalars
  OBVIOUS
<1>4. Cardinality({s} \cup {t}) = 2
  BY <1>2, FS_AddElement
<1>5. Cardinality({s} \cup {t}) <= Cardinality(types \cap Scalars)
  BY <1>1, <1>3, FS_Subset
<1>6. Cardinality(types \cap Scalars) \in Nat
  BY <1>1, FS_CardinalityType
<1> HIDE DEF AmbiguousScalars
<1>7. Cardinality(types \cap Scalars) >= 2
  BY <1>4, <1>5, <1>6
<1> QED BY <1>7 DEF AmbiguousScalars

\* A scalar value is its type and its lexeme.
LEMMA ScalarShape ==
  ASSUME NEW v \in ScalarValues
  PROVE  /\ v.type \in Scalars /\ v.lexeme \in Lexemes
         /\ v = [type |-> v.type, lexeme |-> v.lexeme]
<1>1. PICK t \in Scalars : v \in [type : {t}, lexeme : Grammar[t]]
  BY DEF ScalarValues
<1>2. Grammar[t] \subseteq Lexemes
  BY DEF Scalars, Grammar
<1> QED BY <1>1, <1>2

\* An identity has a type that is no scalar's, and that is a field of its JSON.
LEMMA IdentityShape ==
  ASSUME NEW v \in SourceIdentities
  PROVE  v.type \notin Scalars /\ DOMAIN v # {"lexeme"}
<1>1. /\ "repository" \notin Scalars /\ "numbered" \notin Scalars /\ "scoped" \notin Scalars
  BY DEF Scalars, Grammar
<1>2. CASE v \in Repositories
  BY <1>1, <1>2 DEF Repositories
<1>3. CASE v \in Numbered
  BY <1>1, <1>3 DEF Numbered
<1>4. CASE v \in Scoped
  <2>1. PICK k \in DOMAIN ParentKinds :
          v \in [type : {"scoped"}, kind : {k}, global_id : Lexemes,
                 parent : {p \in Numbered : p.kind \in ParentKinds[k]}]
    BY <1>4 DEF Scoped
  <2> QED BY <1>1, <2>1
<1> QED BY <1>2, <1>3, <1>4 DEF SourceIdentities

\* The JSON of what a carrier may hold is read as that and nothing else.
LEMMA ReadAsWritten ==
  ASSUME NEW types, ~AmbiguousScalars(types),
         NEW v \in Carriable(types) \cup {None}
  PROVE  Readings(Json(v), types) = {v}
<1>1. CASE v = None
  BY <1>1 DEF Json, Readings
<1>2. CASE v \in ScalarValues /\ v.type \in types
  <2>1. v # None /\ v.type \in Scalars /\ v.lexeme \in Lexemes
    BY <1>2, ScalarShape
  <2>2. Json(v) = [lexeme |-> v.lexeme]
    BY <2>1 DEF Json
  <2>3. Json(v) # None /\ DOMAIN Json(v) = {"lexeme"} /\ Json(v).lexeme = v.lexeme
    BY <2>1, <2>2
  <2>4. Readings(Json(v), types)
          = {w \in ScalarValues : w.type \in types /\ w.lexeme = v.lexeme}
    BY <2>3 DEF Readings
  <2>5. ASSUME NEW w \in ScalarValues, w.type \in types, w.lexeme = v.lexeme
        PROVE  w = v
    <3>1. w.type = v.type
      BY <1>2, <2>5, OneScalar, ScalarShape
    <3> QED BY <1>2, <2>5, <3>1, ScalarShape
  <2> QED BY <1>2, <2>4, <2>5
<1>3. CASE v \in SourceIdentities /\ v.type \in types
  <2>1. v # None /\ v.type \notin Scalars /\ DOMAIN v # {"lexeme"}
    BY <1>3, IdentityShape
  <2>2. Json(v) = v
    BY <2>1 DEF Json
  <2>3. Readings(Json(v), types) = {v} \cap {w \in SourceIdentities : w.type \in types}
    BY <2>1, <2>2 DEF Readings
  <2> QED BY <1>3, <2>3
<1> QED BY <1>1, <1>2, <1>3 DEF Carriable

\* The JSON of a carrier is read as that carrier and nothing else.
LEMMA CarrierReadAsWritten ==
  ASSUME NEW types, NEW c, Carried(types, c)
  PROVE  CarrierReadings(CarrierJson(c), types) = {c}
<1> DEFINE json == CarrierJson(c)
           D == DOMAIN c.candidates
<1>1. ~AmbiguousScalars(types) /\ ValueStateOK(types, c)
  BY DEF Carried, ValueStateOK
<1>2. /\ json.state = c.state /\ json.value = Json(c.value)
      /\ json.candidates = [i \in D |-> Json(c.candidates[i])]
  BY Zenon DEF CarrierJson
<1> HIDE DEF json
<1>3. Readings(json.value, types) = {c.value}
  BY <1>1, <1>2, ReadAsWritten DEF Carried
<1>4. PICK k \in 0 .. MaxCandidates : c.candidates \in [1 .. k -> Carriable(types)]
  BY DEF Carried, Tuples
<1>5. \A i \in D : Readings(json.candidates[i], types) = {c.candidates[i]}
  <2> SUFFICES ASSUME NEW i \in D PROVE Readings(json.candidates[i], types) = {c.candidates[i]}
    OBVIOUS
  <2>1. c.candidates[i] \in Carriable(types)
    BY <1>4
  <2>2. json.candidates[i] = Json(c.candidates[i])
    BY <1>2
  <2> QED BY <1>1, <2>1, <2>2, ReadAsWritten
<1>6. ReadingsOfEach(json.candidates, types) = {c.candidates}
  <2> DEFINE U == UNION {Readings(json.candidates[i], types) : i \in DOMAIN json.candidates}
  <2>1. DOMAIN json.candidates = D
    BY <1>2
  <2>2. c.candidates = [i \in D |-> c.candidates[i]]
    BY <1>4
  <2>3. \A i \in D : c.candidates[i] \in U
    BY <1>5, <2>1
  <2>4. ReadingsOfEach(json.candidates, types)
          = {s \in [D -> U] : \A i \in DOMAIN s : s[i] \in Readings(json.candidates[i], types)}
    BY <2>1, Zenon DEF ReadingsOfEach
  <2> HIDE DEF U, D
  <2>5. c.candidates \in [D -> U]
    BY <2>2, <2>3
  <2>6. c.candidates \in ReadingsOfEach(json.candidates, types)
    BY <1>5, <2>2, <2>4, <2>5
  <2>7. ASSUME NEW s \in ReadingsOfEach(json.candidates, types) PROVE s = c.candidates
    <3>1. s \in [D -> U] /\ \A i \in DOMAIN s : s[i] \in Readings(json.candidates[i], types)
      BY <2>4, <2>7
    <3>2. \A i \in D : s[i] = c.candidates[i]
      BY <1>5, <3>1
    <3> QED BY <2>2, <3>1, <3>2
  <2> QED BY <2>6, <2>7
<1>7. CarrierReadings(json, types)
        = {r \in [state : {c.state}, value : {c.value}, candidates : {c.candidates}] :
              ValueStateOK(types, r)}
  BY <1>2, <1>3, <1>6, Zenon DEF CarrierReadings
<1>8. c = [state |-> c.state, value |-> c.value, candidates |-> c.candidates]
  BY Zenon DEF Carried
<1>9. c \in CarrierReadings(json, types)
  BY <1>1, <1>7, <1>8
<1>10. ASSUME NEW r \in CarrierReadings(json, types) PROVE r = c
  <2>1. r \in [state : {c.state}, value : {c.value}, candidates : {c.candidates}]
    BY <1>7, <1>10
  <2> QED BY <1>8, <2>1
<1> QED BY <1>9, <1>10 DEF json

\* The state of a locator's object id is read back from its JSON as it was: the
\* interpretation, or the place among the candidates, tells the type.
LEMMA StateReadAsWritten ==
  ASSUME NEW l \in Locators, NEW n \in Interpretations
  PROVE  RestoreObjectIdState(CarrierJson(TypedObjectIdState(l, n)), n) = TypedObjectIdState(l, n)
<1> DEFINE x == l.object_id
           number == Typed("repository_scoped_number", x)
           global == Typed("provider_global_id", x)
<1>1. x \in Decimals /\ x \in Lexemes
  BY Shapes
<1>2. /\ number \in ScalarValues /\ number.type \in Scalars /\ number.lexeme = x
      /\ global \in ScalarValues /\ global.type \in Scalars /\ global.lexeme = x
  BY <1>1 DEF Typed, ScalarValues, Scalars, Grammar
<1>3. Json(number) = [lexeme |-> x] /\ Json(global) = [lexeme |-> x]
  BY <1>2 DEF Json
<1>4. Json(None) = None /\ [lexeme |-> x] # None /\ [lexeme |-> x].lexeme = x
  BY <1>1 DEF Json
<1> HIDE DEF x, number, global
<1>5. CASE n = "unresolved"
  <2> DEFINE c == [state |-> "conflict", value |-> None, candidates |-> <<number, global>>]
             both == <<[lexeme |-> x], [lexeme |-> x]>>
  <2>1. TypedObjectIdState(l, n) = c
    BY <1>5 DEF TypedObjectIdState, x, number, global
  <2>2. CarrierJson(c) = [state |-> "conflict", value |-> None, candidates |-> both]
    <3>1. [i \in DOMAIN <<number, global>> |-> Json(<<number, global>>[i])] = both
      <4>1. /\ DOMAIN <<number, global>> = {1, 2}
            /\ <<number, global>>[1] = number /\ <<number, global>>[2] = global
        OBVIOUS
      <4>2. both = [i \in {1, 2} |-> [lexeme |-> x]]
        OBVIOUS
      <4> QED BY <1>3, <4>1, <4>2
    <3>2. c.state = "conflict" /\ c.value = None /\ c.candidates = <<number, global>>
      OBVIOUS
    <3> HIDE DEF c, both
    <3> QED BY <1>4, <3>1, <3>2 DEF CarrierJson
  <2>3. [i \in DOMAIN both |-> ConvertJsonObjectId(both[i].lexeme, "unresolved", i)]
          = <<number, global>>
    <3>1. DOMAIN both = {1, 2} /\ both[1].lexeme = x /\ both[2].lexeme = x
      OBVIOUS
    <3>2. /\ ConvertJsonObjectId(x, "unresolved", 1) = number
          /\ ConvertJsonObjectId(x, "unresolved", 2) = global
      BY DEF ConvertJsonObjectId, number, global
    <3>3. <<number, global>> = [i \in {1, 2} |-> IF i = 1 THEN number ELSE global]
      OBVIOUS
    <3> HIDE DEF both
    <3> QED BY <3>1, <3>2, <3>3
  <2> HIDE DEF both
  <2>4. RestoreObjectIdState([state |-> "conflict", value |-> None, candidates |-> both],
                             "unresolved") = c
    BY <2>3 DEF RestoreObjectIdState
  <2> QED BY <1>5, <2>1, <2>2, <2>4
<1>6. CASE n # "unresolved"
  <2> DEFINE v == Typed(n, x)
             c == [state |-> "present", value |-> v, candidates |-> <<>>]
  <2>1. TypedObjectIdState(l, n) = c
    BY <1>6 DEF TypedObjectIdState, x
  <2>2. n = "repository_scoped_number" \/ n = "provider_global_id"
    BY <1>6 DEF Interpretations
  <2>3. v = number \/ v = global
    BY <2>2 DEF number, global
  <2>4. Json(v) = [lexeme |-> x]
    BY <1>3, <2>3
  <2> HIDE DEF v
  <2>5. CarrierJson(c) = [state |-> "present", value |-> [lexeme |-> x], candidates |-> <<>>]
    <3>1. [i \in DOMAIN <<>> |-> Json(<<>>[i])] = <<>>
      OBVIOUS
    <3> QED BY <2>4, <3>1 DEF CarrierJson
  <2>6. ConvertJsonObjectId(x, n, 0) = v
    BY <1>6 DEF ConvertJsonObjectId, v
  <2>7. RestoreObjectIdState([state |-> "present", value |-> [lexeme |-> x],
                              candidates |-> <<>>], n) = c
    <3>1. [i \in DOMAIN <<>> |-> ConvertJsonObjectId(<<>>[i].lexeme, n, i)] = <<>>
      OBVIOUS
    <3> QED BY <1>4, <2>6, <3>1 DEF RestoreObjectIdState
  <2> QED BY <2>1, <2>5, <2>7
<1> QED BY <1>5, <1>6

-----------------------------------------------------------------------------
(* Every operation keeps the invariant.                                    *)

\* Initially there is nothing.
LEMMA InitInv == Init => Inv
BY DEF Init, Inv, CompatibilityInv, MappingInv, ProjectionInv, CarrierInv, ReadInv,
       RepositoryInv, CollectionInv, CoverageInv, ChangeInv

\* The records of compatibility.py keep theirs while they stay as they are.
LEMMA CompatibilityUnchanged ==
  ASSUME CompatibilityInv, UNCHANGED compatibility PROVE CompatibilityInv'
BY DEF compatibility, CompatibilityInv, MappingInv, ProjectionInv, CarrierInv, ReadInv

\* So do the records of snapshots and history.
LEMMA RepositoryUnchanged ==
  ASSUME RepositoryInv, UNCHANGED repository PROVE RepositoryInv'
BY DEF repository, RepositoryInv, CollectionInv, CoverageInv, ChangeInv

\* A locator that is mapped is one, also the one an identity was projected to.
LEMMA MapLocatorInv == ASSUME Inv, MapLocator PROVE Inv'
<1>1. PICK locator \in IF Idle THEN Locators ELSE {projection.locator},
           observation \in AliasObservations, interpretation \in Interpretations :
        mapping' = MappingResult(locator, observation, interpretation)
  BY DEF MapLocator
<1>2. projection' = projection /\ carrier' = carrier /\ readBack' = readBack
  BY DEF MapLocator
<1>3. mapping = None /\ (Idle \/ (projection # None /\ projection.locator # None))
  BY DEF MapLocator
<1>4. locator \in Locators
  <2>1. CASE Idle
    BY <1>1, <2>1
  <2>2. CASE ~Idle
    <3>1. locator = projection.locator /\ projection # None /\ projection.locator # None
      BY <1>1, <1>3, <2>2
    <3>2. /\ projection = ProjectionResult(projection.identity, projection.observation)
          /\ projection.identity \in SourceIdentities
          /\ projection.observation \in AliasObservations
      BY <3>1 DEF Inv, CompatibilityInv, ProjectionInv
    <3>3. projection.locator
            = ProjectionOutcome(projection.identity, projection.observation).locator
      <4>1. \A i, o : ProjectionResult(i, o).locator = ProjectionOutcome(i, o).locator
        BY Zenon DEF ProjectionResult
      <4> QED BY <3>2, <4>1
    <3> QED BY <3>1, <3>2, <3>3, Projected
  <2> QED BY <2>1, <2>2
<1>5. readBack = None /\ carrier = None
  BY <1>3, IdleMeans DEF Inv, CompatibilityInv, CarrierInv, ReadInv
<1>6. MappingInv'
  <2>1. /\ mapping'.locator = locator /\ mapping'.observation = observation
        /\ mapping'.interpretation = interpretation
    BY <1>1, Zenon DEF MappingResult
  <2> QED BY <1>1, <1>4, <2>1 DEF MappingInv
<1>7. CompatibilityInv'
  BY <1>2, <1>5, <1>6
     DEF Inv, CompatibilityInv, ProjectionInv, CarrierInv, ReadInv
<1>8. RepositoryInv'
  BY RepositoryUnchanged DEF Inv, MapLocator
<1> QED BY <1>7, <1>8 DEF Inv

\* So is an identity that is projected.
LEMMA ProjectIdentityInv == ASSUME Inv, ProjectIdentity PROVE Inv'
<1>1. PICK identity \in IF Idle THEN SourceIdentities ELSE {mapping.identity},
           observation \in AliasObservations :
        projection' = ProjectionResult(identity, observation)
  BY DEF ProjectIdentity
<1>2. mapping' = mapping /\ carrier' = carrier /\ readBack' = readBack
  BY DEF ProjectIdentity
<1>3. readBack = None /\ (Idle \/ (mapping # None /\ mapping.identity # None))
  BY DEF ProjectIdentity
<1>4. identity \in SourceIdentities
  <2>1. CASE Idle
    BY <1>1, <2>1
  <2>2. CASE ~Idle
    <3> DEFINE l == mapping.locator
               o == mapping.observation
               n == mapping.interpretation
    <3>1. identity = mapping.identity /\ mapping # None /\ mapping.identity # None
      BY <1>1, <1>3, <2>2
    <3>2. /\ mapping = MappingResult(l, o, n) /\ l \in Locators
          /\ o \in AliasObservations /\ n \in Interpretations
      BY <3>1 DEF Inv, CompatibilityInv, MappingInv
    <3> HIDE DEF l, o, n
    <3>3. mapping.identity = MappingOutcome(l, o, n).identity
      <4>1. MappingResult(l, o, n).identity = MappingOutcome(l, o, n).identity
        BY Zenon DEF MappingResult
      <4> QED BY <3>2, <4>1
    <3> QED BY <3>1, <3>2, <3>3, Mapped
  <2> QED BY <2>1, <2>2
<1>5. carrier = None
  BY <1>3, IdleMeans DEF Inv, CompatibilityInv, CarrierInv
<1>6. ProjectionInv'
  <2>1. projection'.identity = identity /\ projection'.observation = observation
    BY <1>1, Zenon DEF ProjectionResult
  <2> QED BY <1>1, <1>4, <2>1 DEF ProjectionInv
<1>7. CompatibilityInv'
  BY <1>2, <1>3, <1>5, <1>6
     DEF Inv, CompatibilityInv, MappingInv, CarrierInv, ReadInv
<1>8. RepositoryInv'
  BY RepositoryUnchanged DEF Inv, ProjectIdentity
<1> QED BY <1>7, <1>8 DEF Inv

\* A mapping is read as the value it was written from.
LEMMA ReadMappingInv == ASSUME Inv, ReadMapping PROVE Inv'
<1> DEFINE l == mapping.locator
           o == mapping.observation
           n == mapping.interpretation
           state == RestoreObjectIdState(CarrierJson(mapping.state), n)
           restored == [mapping EXCEPT !.state = state]
<1>1. mapping # None /\ readBack' = IF MappingResultOK(restored) THEN restored ELSE Refused
  BY DEF ReadMapping
<1>2. /\ mapping = MappingResult(l, o, n)
      /\ l \in Locators /\ n \in Interpretations
  BY <1>1 DEF Inv, CompatibilityInv, MappingInv
<1> HIDE DEF l, o, n
<1>3. mapping.state = TypedObjectIdState(l, n)
  <2>1. MappingResult(l, o, n).state = TypedObjectIdState(l, n)
    BY Zenon DEF MappingResult
  <2> QED BY <1>2, <2>1
<1>4. state = mapping.state
  BY <1>2, <1>3, StateReadAsWritten
<1>5. restored = mapping
  <2>1. mapping = [locator |-> mapping.locator, observation |-> mapping.observation,
                   interpretation |-> mapping.interpretation, state |-> mapping.state,
                   status |-> mapping.status, identity |-> mapping.identity]
    BY <1>2 DEF MappingResult
  <2> HIDE DEF state
  <2> QED BY <1>4, <2>1
<1>6. MappingResultOK(mapping)
  BY <1>2 DEF MappingResultOK, l, o, n
<1> HIDE DEF restored
<1>7. readBack' = mapping
  BY <1>1, <1>5, <1>6
<1>8. mapping' = mapping /\ projection' = projection /\ carrier' = carrier
  BY DEF ReadMapping
<1>9. CompatibilityInv'
  BY <1>1, <1>7, <1>8
     DEF Inv, CompatibilityInv, MappingInv, ProjectionInv, CarrierInv, ReadInv
<1>10. RepositoryInv'
  BY RepositoryUnchanged DEF Inv, ReadMapping
<1> QED BY <1>9, <1>10 DEF Inv

\* A value state is admitted for the types it is declared for.
LEMMA CarryInv == ASSUME Inv, Carry PROVE Inv'
<1>1. PICK types \in SUBSET IdentityTypes, state \in AbsentStates \cup {"present", "conflict"} :
        LET values == {v \in ScalarValues \cup CarriedIdentities : v.type \in types} IN
        \E value \in values \cup {None}, candidates \in Tuples(values, MaxCandidates) :
          /\ ValueStateOK(types, [state |-> state, value |-> value, candidates |-> candidates])
          /\ carrier' = [types |-> types, content |->
                [state |-> state, value |-> value, candidates |-> candidates]]
  BY Zenon DEF Carry
<1>2. PICK value \in Carriable(types) \cup {None},
           candidates \in Tuples(Carriable(types), MaxCandidates) :
          /\ ValueStateOK(types, [state |-> state, value |-> value, candidates |-> candidates])
          /\ carrier' = [types |-> types, content |->
                [state |-> state, value |-> value, candidates |-> candidates]]
  BY <1>1, Zenon DEF Carriable
<1> DEFINE c == [state |-> state, value |-> value, candidates |-> candidates]
<1>3. c.state = state /\ c.value = value /\ c.candidates = candidates
  OBVIOUS
<1>4. Carried(types, c)
  BY <1>2, <1>3 DEF Carried
<1>5. carrier' = [types |-> types, content |-> c]
  BY <1>2
<1> HIDE DEF c
<1>6. carrier'.types = types /\ carrier'.content = c
  BY <1>5
<1>7. Idle /\ mapping' = mapping /\ projection' = projection /\ readBack' = readBack
  BY DEF Carry
<1>8. mapping = None /\ projection = None /\ readBack = None
  BY <1>7, IdleMeans
<1>9. CompatibilityInv'
  <2>1. CarrierInv'
    BY <1>4, <1>5, <1>6, <1>7, <1>8 DEF CarrierInv
  <2>2. mapping' = None /\ projection' = None /\ readBack' = None
    BY <1>7, <1>8
  <2> QED BY <2>1, <2>2 DEF CompatibilityInv, MappingInv, ProjectionInv, ReadInv
<1>10. RepositoryInv'
  BY RepositoryUnchanged DEF Inv, Carry
<1> QED BY <1>9, <1>10 DEF Inv

\* A carrier is read as the value it was written from.
LEMMA ReadCarrierInv == ASSUME Inv, ReadCarrier PROVE Inv'
<1> DEFINE types == carrier.types
           readings == CarrierReadings(CarrierJson(carrier.content), types)
<1>1. carrier # None /\ readBack' \in IF readings = {} THEN {Refused}
                            ELSE {[types |-> types, content |-> r] : r \in readings}
  BY DEF ReadCarrier
<1>2. carrier = [types |-> types, content |-> carrier.content] /\ Carried(types, carrier.content)
      /\ mapping = None /\ projection = None
  BY <1>1 DEF Inv, CompatibilityInv, CarrierInv
<1>3. readings = {carrier.content}
  BY <1>2, CarrierReadAsWritten
<1> HIDE DEF readings, types
<1>4. readBack' = carrier
  BY <1>1, <1>2, <1>3
<1>5. mapping' = mapping /\ projection' = projection /\ carrier' = carrier
  BY DEF ReadCarrier
<1>6. CompatibilityInv'
  BY <1>1, <1>2, <1>4, <1>5
     DEF Inv, CompatibilityInv, MappingInv, ProjectionInv, CarrierInv, ReadInv
<1>7. RepositoryInv'
  BY RepositoryUnchanged DEF Inv, ReadCarrier
<1> QED BY <1>6, <1>7 DEF Inv

\* A collection is made of bindings, and no scope is covered yet.
LEMMA CollectInv == ASSUME Inv, Collect PROVE Inv'
<1>1. PICK snapshot \in Snapshots, bindings \in Tuples(PathBindings, MaxPaths) :
        /\ CollectionOK([snapshot |-> snapshot, bindings |-> bindings])
        /\ collection' = [snapshot |-> snapshot, bindings |-> bindings]
  BY DEF Collect
<1>2. Idle /\ UNCHANGED compatibility /\ coverage' = coverage /\ changeSet' = changeSet
  BY DEF Collect
<1>3. coverage = None /\ changeSet = None
  BY <1>2, IdleMeans
<1>4. CollectionInv'
  <2>1. collection'.bindings = bindings /\ CollectionOK(collection')
    BY <1>1
  <2> QED BY <2>1 DEF CollectionInv
<1>5. RepositoryInv'
  BY <1>2, <1>3, <1>4 DEF RepositoryInv, CoverageInv, ChangeInv
<1> QED BY <1>2, <1>5, CompatibilityUnchanged DEF Inv

\* A scope is covered by the collection that is there.
LEMMA CoverInv == ASSUME Inv, Cover PROVE Inv'
<1>1. PICK snapshot \in Snapshots, paths \in Tuples(Paths, MaxPaths) :
        /\ CoverageOK([snapshot |-> snapshot, declared_paths |-> paths], collection)
        /\ coverage' = [snapshot |-> snapshot, declared_paths |-> paths]
  BY DEF Cover
<1>2. /\ collection # None /\ UNCHANGED compatibility
      /\ collection' = collection /\ changeSet' = changeSet
  BY DEF Cover
<1>3. CoverageInv'
  BY <1>1, <1>2 DEF CoverageInv
<1>4. RepositoryInv'
  BY <1>2, <1>3 DEF Inv, RepositoryInv, CollectionInv, ChangeInv
<1> QED BY <1>2, <1>4, CompatibilityUnchanged DEF Inv

\* A change set is admitted.
LEMMA RecordChangeInv == ASSUME Inv, RecordChange PROVE Inv'
<1>1. PICK base \in RoleBindings, head \in RoleBindings :
        \E changed \in Tuples(ChangedPaths, MaxPaths) :
          /\ ChangeSetOK([base |-> base, head |-> head, changed_paths |-> changed])
          /\ changeSet' = [base |-> base, head |-> head, changed_paths |-> changed]
  BY DEF RecordChange
<1>2. ChangeSetOK(changeSet')
  BY <1>1
<1>3. /\ UNCHANGED compatibility
      /\ collection' = collection /\ coverage' = coverage
  BY DEF RecordChange
<1>4. RepositoryInv'
  BY <1>2, <1>3 DEF Inv, RepositoryInv, CollectionInv, CoverageInv, ChangeInv
<1> QED BY <1>3, <1>4, CompatibilityUnchanged DEF Inv

\* A record of its own touches no other.
LEMMA KeepInv == ASSUME Inv, NEW record, Keep(record) PROVE Inv'
<1>1. /\ UNCHANGED compatibility
      /\ collection' = collection /\ coverage' = coverage /\ changeSet' = changeSet
  BY DEF Keep
<1>2. RepositoryInv'
  BY <1>1 DEF Inv, RepositoryInv, CollectionInv, CoverageInv, ChangeInv
<1> QED BY <1>1, <1>2, CompatibilityUnchanged DEF Inv

\* Every step keeps the invariant.
LEMMA NextInv == ASSUME Inv, [Next]_vars PROVE Inv'
<1>1. CASE MapLocator
  BY <1>1, MapLocatorInv
<1>2. CASE ProjectIdentity
  BY <1>2, ProjectIdentityInv
<1>3. CASE ReadMapping
  BY <1>3, ReadMappingInv
<1>4. CASE Carry
  BY <1>4, CarryInv
<1>5. CASE ReadCarrier
  BY <1>5, ReadCarrierInv
<1>6. CASE Collect
  BY <1>6, CollectInv
<1>7. CASE Cover
  BY <1>7, CoverInv
<1>8. CASE RecordChange
  BY <1>8, RecordChangeInv
<1>9. CASE ObserveIdentity
  BY <1>9, KeepInv DEF ObserveIdentity
<1>10. CASE ObserveRef
  BY <1>10, KeepInv DEF ObserveRef
<1>11. CASE RecordParents
  BY <1>11, KeepInv DEF RecordParents
<1>12. CASE LocateLines
  BY <1>12, KeepInv DEF LocateLines
<1>13. CASE LocateHunk
  BY <1>13, KeepInv DEF LocateHunk
<1>14. CASE LinkFact
  BY <1>14, KeepInv DEF LinkFact
<1>15. CASE UNCHANGED vars
  <2>1. UNCHANGED compatibility /\ UNCHANGED repository
    BY <1>15 DEF vars, compatibility, repository
  <2> QED BY <2>1, CompatibilityUnchanged, RepositoryUnchanged DEF Inv
<1> QED BY <1>1, <1>2, <1>3, <1>4, <1>5, <1>6, <1>7, <1>8, <1>9, <1>10, <1>11, <1>12,
           <1>13, <1>14, <1>15 DEF Next

\* Whatever a caller does with records of sources, those it holds repeat what they
\* were made from, and a stored one that is read is the one that was stored.
THEOREM Invariance == Spec => []Inv
<1>1. Init => Inv
  BY InitInv
<1>2. Inv /\ [Next]_vars => Inv'
  BY NextInv
<1> QED BY <1>1, <1>2, PTL DEF Spec

-----------------------------------------------------------------------------
(* What the records promise.                                               *)

\* A lossless mapping gives its locator back, and a projection its identity.
THEOREM MappingGoesBack == Spec => []MappingReversible
<1>1. Inv => MappingReversible
  BY Reversible DEF Inv
<1> QED BY <1>1, Invariance, PTL

\* What was stored is what is read, with the type it had.
THEOREM StoredTypesKept == Spec => []StoredIdentityKeepsType
<1>1. Inv => StoredIdentityKeepsType
  BY DEF Inv, CompatibilityInv, ReadInv, StoredIdentityKeepsType
<1> QED BY <1>1, Invariance, PTL

\* A covered and a changed path leads to one object, of the algorithm of its revision.
THEOREM EveryPathResolves == Spec => []PathsResolve
<1>1. ASSUME Inv PROVE PathsResolve
  <2> DEFINE resolves(path, entries, algorithm) ==
            /\ \E i \in DOMAIN entries : entries[i].path = path
            /\ \A i, j \in DOMAIN entries :
                  entries[i].path = path /\ entries[j].path = path
                      => entries[i].object = entries[j].object
            /\ \A i \in DOMAIN entries :
                  entries[i].path = path => entries[i].object.algorithm = algorithm
  <2>1. ASSUME NEW entries, PathsUnrepeated(entries),
               NEW i \in DOMAIN entries, NEW j \in DOMAIN entries,
               entries[i].path = entries[j].path
        PROVE  i = j
    BY <2>1 DEF PathsUnrepeated, Unrepeated
  <2>2. ASSUME coverage # None, NEW i \in DOMAIN coverage.declared_paths
        PROVE  resolves(coverage.declared_paths[i], collection.bindings,
                        coverage.snapshot.revision.algorithm)
    <3> DEFINE path == coverage.declared_paths[i]
               b == collection.bindings
    <3>1. /\ collection # None /\ CoverageOK(coverage, collection) /\ CollectionOK(collection)
          /\ b \in Tuples(PathBindings, MaxPaths)
      BY <1>1, <2>2 DEF Inv, RepositoryInv, CollectionInv, CoverageInv
    <3>2. \E j \in DOMAIN b : b[j].path = path
      BY <2>2, <3>1 DEF CoverageOK
    <3>3. PathsUnrepeated(b) /\ \A j \in DOMAIN b : b[j].snapshot = coverage.snapshot
      BY <3>1 DEF CollectionOK, CoverageOK
    <3>4. \A j \in DOMAIN b : b[j].object.algorithm = b[j].snapshot.revision.algorithm
      <4>1. PICK k \in 0 .. MaxPaths : b \in [1 .. k -> PathBindings]
        BY <3>1 DEF Tuples
      <4> HIDE DEF b
      <4>2. \A j \in DOMAIN b : b[j] \in PathBindings
        BY <4>1
      <4> QED BY <4>2 DEF PathBindings, PathBindingOK
    <3> HIDE DEF b, path
    <3>5. \A j, k \in DOMAIN b : b[j].path = path /\ b[k].path = path
                                   => b[j].object = b[k].object
      BY <2>1, <3>3
    <3> QED BY <3>2, <3>3, <3>4, <3>5 DEF b, path
  <2>3. ASSUME changeSet # None, NEW i \in DOMAIN changeSet.changed_paths
        PROVE  resolves(changeSet.changed_paths[i].path, changeSet.changed_paths,
                        changeSet.head.role_assignment.revision.algorithm)
    <3> DEFINE b == changeSet.changed_paths
               path == b[i].path
    <3>1. ChangeSetOK(changeSet)
      BY <1>1, <2>3 DEF Inv, RepositoryInv, ChangeInv
    <3>2. PathsUnrepeated(b) /\ \A j \in DOMAIN b :
            b[j].object.algorithm = changeSet.head.role_assignment.revision.algorithm
      BY <3>1 DEF ChangeSetOK
    <3>3. \E j \in DOMAIN b : b[j].path = path
      BY <2>3
    <3> HIDE DEF b, path
    <3>4. \A j, k \in DOMAIN b : b[j].path = path /\ b[k].path = path
                                   => b[j].object = b[k].object
      BY <2>1, <3>2
    <3> QED BY <3>2, <3>3, <3>4 DEF b, path
  <2> QED BY <2>2, <2>3, Zenon DEF PathsResolve
<1> QED BY <1>1, Invariance, PTL
=============================================================================
