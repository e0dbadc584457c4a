---------------------------- MODULE SourceRecords ----------------------------
(***************************************************************************)
(* A caller works with records of sources: maps a legacy locator to an     *)
(* identity and back, stores a value or a mapping as JSON and reads it     *)
(* again, collects the bindings of a snapshot and covers a declared scope, *)
(* and states facts of a pull request.  A constructor that refuses leaves  *)
(* everything as it was.                                                   *)
(***************************************************************************)
EXTENDS RepositoryRecords

CONSTANTS
    Refused,            \* in place of a value JSON is not accepted as
    CarriedIdentities,  \* identities a carrier may hold
    MaxCandidates,      \* bound of the model: candidates of a conflict
    MaxPaths,           \* bound of the model: bindings, paths or parents in a tuple
    MaxPosition         \* the largest line number and byte offset

VARIABLES
    mapping,            \* the result of map_legacy_source_locator
    projection,         \* the result of project_source_identity_to_legacy
    carrier,            \* a value state and the types it is declared for
    readBack,           \* what the JSON of the carrier or mapping was read as
    collection,         \* the bindings of a snapshot
    coverage,           \* a declared scope covered by the collection
    changeSet,          \* the changed paths of a pull request
    fact                \* any other record

vars == <<mapping, projection, carrier, readBack, collection, coverage, changeSet, fact>>
compatibility == <<mapping, projection, carrier, readBack>>
repository == <<collection, coverage, changeSet, fact>>

ASSUME RecordsAssumption ==
    /\ CarriedIdentities \subseteq SourceIdentities
    /\ MaxCandidates \in Nat /\ MaxPaths \in Nat /\ MaxPosition \in Nat

Tuples(S, n) == UNION {[1..k -> S] : k \in 0..n}

Init == /\ mapping = None /\ projection = None /\ carrier = None /\ readBack = None
        /\ collection = None /\ coverage = None /\ changeSet = None /\ fact = None

Idle == \A i \in DOMAIN vars : vars[i] = None

(***************************************************************************)
(* Compatibility                                                           *)
(***************************************************************************)
AliasObservations ==
    {o \in [repository : Repositories, alias : Aliases,
            authority : {Authority(p, "retrieval") : p \in Providers}] : AliasObservationOK(o)}

MapLocator ==
    /\ mapping = None
    /\ \/ Idle
       \/ projection # None /\ projection.locator # None
    /\ \E locator \in IF Idle THEN Locators ELSE {projection.locator},
          observation \in AliasObservations, interpretation \in Interpretations :
          mapping' = MappingResult(locator, observation, interpretation)
    /\ UNCHANGED <<projection, carrier, readBack, repository>>

ProjectIdentity ==
    /\ projection = None /\ readBack = None
    /\ \/ Idle
       \/ mapping # None /\ mapping.identity # None
    /\ \E identity \in IF Idle THEN SourceIdentities ELSE {mapping.identity},
          observation \in AliasObservations :
          projection' = ProjectionResult(identity, observation)
    /\ UNCHANGED <<mapping, carrier, readBack, repository>>

\* A mapping is read as the value it was written from, or refused.
ReadMapping ==
    /\ mapping # None /\ projection = None /\ readBack = None
    /\ LET restored == [mapping EXCEPT !.state =
                RestoreObjectIdState(CarrierJson(mapping.state), mapping.interpretation)] IN
       readBack' = IF MappingResultOK(restored) THEN restored ELSE Refused
    /\ UNCHANGED <<mapping, projection, carrier, repository>>

\* A value state for a declared set of types.
Carry ==
    /\ Idle
    /\ \E types \in SUBSET IdentityTypes, state \in AbsentStates \cup {"present", "conflict"} :
       LET values == {v \in ScalarValues \cup CarriedIdentities : v.type \in types} IN
       \E value \in values \cup {None}, candidates \in Tuples(values, MaxCandidates) :
          /\ ValueStateOK(types, [state |-> state, value |-> value, candidates |-> candidates])
          /\ carrier' = [types |-> types, content |->
                [state |-> state, value |-> value, candidates |-> candidates]]
    /\ UNCHANGED <<mapping, projection, readBack, repository>>

\* Every type the JSON fits may be the one it is read as.
ReadCarrier ==
    /\ carrier # None /\ readBack = None
    /\ \E types \in {carrier.types} :
       LET readings == CarrierReadings(CarrierJson(carrier.content), types) IN
       readBack' \in IF readings = {} THEN {Refused}
                     ELSE {[types |-> types, content |-> r] : r \in readings}
    /\ UNCHANGED <<mapping, projection, carrier, repository>>

(***************************************************************************)
(* Snapshots and history                                                   *)
(***************************************************************************)
Collect ==
    /\ Idle
    /\ \E snapshot \in Snapshots, bindings \in Tuples(PathBindings, MaxPaths) :
          /\ CollectionOK([snapshot |-> snapshot, bindings |-> bindings])
          /\ collection' = [snapshot |-> snapshot, bindings |-> bindings]
    /\ UNCHANGED <<compatibility, coverage, changeSet, fact>>

Cover ==
    /\ collection # None /\ coverage = None
    /\ \E snapshot \in Snapshots, paths \in Tuples(Paths, MaxPaths) :
          /\ ScopeOK([snapshot |-> snapshot, declared_paths |-> paths])
          /\ CoverageOK([snapshot |-> snapshot, declared_paths |-> paths], collection)
          /\ coverage' = [snapshot |-> snapshot, declared_paths |-> paths]
    /\ UNCHANGED <<compatibility, collection, changeSet, fact>>

RecordChange ==
    /\ Idle
    /\ \E base, head \in RoleBindings :
          /\ SidesOK(base, head)
          /\ \E changed \in Tuples(ChangedPaths, MaxPaths) :
                /\ ChangeSetOK([base |-> base, head |-> head, changed_paths |-> changed])
                /\ changeSet' = [base |-> base, head |-> head, changed_paths |-> changed]
    /\ UNCHANGED <<compatibility, collection, coverage, fact>>

(***************************************************************************)
(* Records of their own: each is checked in itself and kept.               *)
(***************************************************************************)
Keep(record) ==
    /\ fact' = record
    /\ UNCHANGED <<compatibility, collection, coverage, changeSet>>

LifecycleStates == {"observed_present", "deleted", "unavailable", "inaccessible", "unknown"}

ObserveIdentity ==
    /\ Idle
    /\ \E o \in [identity : CarriedIdentities, state : LifecycleStates,
                authority : {Authority(p, "retrieval") : p \in Providers}] :
           LifecycleObservationOK(o) /\ Keep(o)

ObserveRef ==
    /\ Idle
    /\ \E o \in [repository : Repositories, name : RefNames, state : LifecycleStates,
                target : Commits \cup {None},
                authority : {Authority(p, "retrieval") : p \in Providers}] :
           RefObservationOK(o) /\ Keep(o)

RecordParents ==
    /\ Idle
    /\ \E commit \in Commits, parents \in Tuples(Commits, MaxPaths) :
           /\ TopologyOK([commit |-> commit, parents |-> parents])
           /\ Keep([commit |-> commit, parents |-> parents])

LineSpans == {l \in [start : 0..MaxPosition, end : 0..MaxPosition] : LineSpanOK(l, MaxPosition)}
ByteLocators ==
    {l \in [artifact : Digests, parent_length : 0..MaxPosition,
            span : [offset : 0..MaxPosition, length : 0..MaxPosition]] :
        ByteLocatorOK(l, MaxPosition)}
Files == {QualifiedPath(r, c, p) : r \in Repositories, c \in Commits, p \in Paths}

LocateLines ==
    /\ Idle
    /\ \E file \in Files, lines \in LineSpans : Keep([parent |-> file, span |-> lines])

LocateHunk ==
    /\ Idle
    /\ \E bytes \in ByteLocators, lines \in LineSpans :
       \E h \in [artifact_bytes : {bytes}, artifact_lines : {lines},
                old_file : Files \cup {None}, old_lines : {lines, None},
                new_file : Files \cup {None}, new_lines : {lines, None}] :
           DiffHunkOK(h) /\ Keep(h)

LinkFact ==
    /\ Idle
    /\ \E f \in SnapshotFacts \cup HistoryFacts, e \in EvidenceRecords :
           Keep(EvidenceLink(f, e))

Next == \/ MapLocator \/ ProjectIdentity \/ ReadMapping \/ Carry \/ ReadCarrier
        \/ Collect \/ Cover \/ RecordChange
        \/ ObserveIdentity \/ ObserveRef \/ RecordParents \/ LocateLines \/ LocateHunk
        \/ LinkFact

Spec == Init /\ [][Next]_vars

(***************************************************************************)
(* Properties                                                              *)
(***************************************************************************)
\* A mapping called lossless loses nothing: projected in the context it was
\* mapped in, the identity gives the locator back; and a locator an identity was
\* projected to, mapped in that context as the number it is, gives the identity
\* back.  map_legacy_source_locator and project_source_identity_to_legacy are
\* written apart, one comparing aliases as they are, the other spelling them in
\* lower case on the way.
MappingReversible ==
    (mapping # None /\ projection # None /\ mapping.observation = projection.observation) =>
        /\ (mapping.status = "losslessly_mappable" /\ projection.identity = mapping.identity)
              => projection.locator = mapping.locator
        /\ (/\ projection.status = "partially_mappable"
            /\ mapping.locator = projection.locator
            /\ mapping.interpretation = "repository_scoped_number")
              => mapping.identity = projection.identity

\* What was stored is what is read: a number, a global id and a node id are the
\* same string in JSON, and no reading takes one for another or refuses what was
\* written (IdentityValueState, _restore_json_object_id_state).
StoredIdentityKeepsType ==
    readBack # None => readBack = IF mapping # None THEN mapping ELSE carrier

\* A covered path and a changed path resolve to exactly one object, named by the
\* hash algorithm of the revision the paths are of
\* (RepositorySnapshotDeclaredPathScopeCoverage, PullRequestChangeSet).
PathsResolve ==
    LET resolves(path, entries, algorithm) ==
            /\ \E i \in DOMAIN entries : entries[i].path = path
            /\ \A i, j \in DOMAIN entries :
                  entries[i].path = path /\ entries[j].path = path
                      => entries[i].object = entries[j].object
            /\ \A i \in DOMAIN entries :
                  entries[i].path = path => entries[i].object.algorithm = algorithm IN
    /\ coverage # None =>
          \A i \in DOMAIN coverage.declared_paths :
              resolves(coverage.declared_paths[i], collection.bindings,
                       coverage.snapshot.revision.algorithm)
    /\ changeSet # None =>
          \A i \in DOMAIN changeSet.changed_paths :
              resolves(changeSet.changed_paths[i].path, changeSet.changed_paths,
                       changeSet.head.role_assignment.revision.algorithm)
=============================================================================
