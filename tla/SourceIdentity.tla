--------------------------- MODULE SourceIdentity ---------------------------
(***************************************************************************)
(* Identities of repositories and of the objects in them (identity.py),    *)
(* the legacy locator (source.py) and the mapping between the two          *)
(* (compatibility.py), as operators on values.                             *)
(*                                                                         *)
(* A lexeme that fits a grammar is a member of the set that stands for the *)
(* grammar.  One lexeme may fit several: decimals are numbers within a     *)
(* repository, and ids and node ids of a provider too, and JSON writes all *)
(* three as the same string.  Reasons and adapter names, which follow from *)
(* the status, are left out.                                               *)
(***************************************************************************)
EXTENDS Naturals, Sequences, FiniteSets

CONSTANTS
    None,               \* the absent value
    Providers,          \* provider keys, "github" among them
    RepositoryIds,      \* provider repository ids
    Lexemes,            \* object ids: what fits any grammar of ids
    Decimals,           \* those that are canonical positive decimals
    Aliases,            \* aliases a repository is observed under
    LegacyAliases,      \* those that in lower case fit the legacy grammar
    Lower(_)            \* an alias in lower case

ASSUME IdentityAssumption ==
    /\ "github" \in Providers
    /\ Decimals \subseteq Lexemes
    /\ \A a \in LegacyAliases : /\ Lower(a) \in Aliases \cap LegacyAliases
                               /\ Lower(Lower(a)) = Lower(a)

(***************************************************************************)
(* Identities                                                              *)
(***************************************************************************)
Authority(provider, role) == [provider |-> provider, role |-> role]
Repositories == [type : {"repository"}, provider : Providers, id : RepositoryIds]

\* The grammar of each scalar identity type.
Grammar == [repository_scoped_number |-> Decimals, provider_global_id |-> Lexemes,
            provider_node_id |-> Lexemes]
Scalars == DOMAIN Grammar
ScalarValues == UNION {[type : {t}, lexeme : Grammar[t]] : t \in Scalars}

NumberedKinds == {"issue", "pull_request"}
Numbered == [type : {"numbered"}, repository : Repositories, kind : NumberedKinds,
             number : Decimals]

ParentKinds == [issue_comment |-> {"issue"}, pull_request_comment |-> {"pull_request"},
                pull_request_review |-> {"pull_request"},
                pull_request_review_comment |-> {"pull_request"},
                timeline_event |-> {"issue", "pull_request"}]

Scoped == UNION {[type : {"scoped"}, kind : {k}, global_id : Lexemes,
                  parent : {p \in Numbered : p.kind \in ParentKinds[k]}] :
                 k \in DOMAIN ParentKinds}

SourceIdentities == Repositories \cup Numbered \cup Scoped
IdentityTypes == Scalars \cup {"repository", "numbered", "scoped"}

\* The absent value is no scalar, as it is or as JSON, and no identity.
ASSUME AbsenceAssumption ==
    /\ None \notin ScalarValues \cup SourceIdentities
    /\ \A l \in Lexemes : None # [lexeme |-> l]

RepositoryOf(identity) ==
    CASE identity.type = "repository" -> identity
      [] identity.type = "numbered" -> identity.repository
      [] OTHER -> identity.parent.repository

\* An alias is seen through an authority of the repository's provider.
AliasObservationOK(o) == o.authority.provider = o.repository.provider
LifecycleObservationOK(o) == o.authority.provider = RepositoryOf(o.identity).provider

(***************************************************************************)
(* A value that may be absent or in conflict, and its JSON                 *)
(***************************************************************************)
\* As if two scalar types were still few enough.
TooManyScalars(types) == Cardinality(types \cap Scalars) >= 3

\* JSON does not tell scalar types apart, so a carrier takes one at most.
AmbiguousScalars(types) == Cardinality(types \cap Scalars) >= 2

AbsentStates == {"observed_null", "missing", "unavailable", "inaccessible", "deleted",
                 "unknown", "unsupported"}
ValueStateOK(types, c) ==
    /\ ~AmbiguousScalars(types)
    /\ c.value # None => c.value.type \in types
    /\ \A i \in DOMAIN c.candidates : c.candidates[i].type \in types
    /\ c.state = "present" <=> c.value # None
    /\ IF c.state = "conflict"
       THEN /\ Len(c.candidates) >= 2
            /\ \A i, j \in DOMAIN c.candidates :
                  c.candidates[i] = c.candidates[j] => i = j
       ELSE c.candidates = <<>>

\* A scalar is written as its bare lexeme; the fields of the others differ, so
\* that their JSON can be read as the type it was written from only.
Json(v) == IF v # None /\ v.type \in Scalars THEN [lexeme |-> v.lexeme] ELSE v

\* What JSON may be read as when one of these types is expected.
Readings(json, types) ==
    IF json = None THEN {None}
    ELSE IF DOMAIN json = {"lexeme"}
         THEN {v \in ScalarValues : v.type \in types /\ v.lexeme = json.lexeme}
    ELSE {json} \cap {v \in SourceIdentities : v.type \in types}

CarrierJson(c) == [state |-> c.state, value |-> Json(c.value),
                   candidates |-> [i \in DOMAIN c.candidates |-> Json(c.candidates[i])]]
ReadingsOfEach(jsons, types) ==
    {s \in [DOMAIN jsons -> UNION {Readings(jsons[i], types) : i \in DOMAIN jsons}] :
        \A i \in DOMAIN s : s[i] \in Readings(jsons[i], types)}
CarrierReadings(json, types) ==
    {c \in [state : {json.state}, value : Readings(json.value, types),
            candidates : ReadingsOfEach(json.candidates, types)] :
        ValueStateOK(types, c)}

(***************************************************************************)
(* The legacy locator and the mapping                                      *)
(***************************************************************************)
\* A locator keeps its repository alias in lower case.
Locators == [provider : {"github"}, repository : {Lower(a) : a \in LegacyAliases},
             kind : {"issue"}, object_id : Decimals]

Interpretations == {"repository_scoped_number", "provider_global_id", "unresolved"}

Typed(type, lexeme) == [type |-> type, lexeme |-> lexeme]

\* What the decimal of a locator stands for under an interpretation.
TypedObjectIdState(locator, interpretation) ==
    LET carry(state, value, candidates) ==
            [state |-> state, value |-> value, candidates |-> candidates] IN
    IF interpretation = "unresolved"
    THEN carry("conflict", None, <<Typed("repository_scoped_number", locator.object_id),
                                   Typed("provider_global_id", locator.object_id)>>)
    ELSE carry("present", Typed(interpretation, locator.object_id), <<>>)

ContextAgrees(locator, observation) ==
    /\ observation.repository.provider = locator.provider
    /\ observation.alias = locator.repository

MappingOutcome(locator, observation, interpretation) ==
    LET outcome(status, identity) == [status |-> status, identity |-> identity] IN
    IF ~ContextAgrees(locator, observation) \/ interpretation = "unresolved"
    THEN outcome("conflict", None)
    ELSE IF interpretation = "provider_global_id"
    THEN outcome("partially_mappable", None)
    ELSE outcome("losslessly_mappable",
                 [type |-> "numbered", repository |-> observation.repository,
                  kind |-> "issue", number |-> locator.object_id])

MappingResult(locator, observation, interpretation) ==
    LET outcome == MappingOutcome(locator, observation, interpretation) IN
    [locator |-> locator, observation |-> observation, interpretation |-> interpretation,
     state |-> TypedObjectIdState(locator, interpretation),
     status |-> outcome.status, identity |-> outcome.identity]

\* A result, also one read from JSON, repeats what its inputs lead to.
MappingResultOK(m) == m = MappingResult(m.locator, m.observation, m.interpretation)

\* The type of a lexeme in a stored result: told by the interpretation, and by
\* the place of the candidate when there is none.
ConvertJsonObjectId(lexeme, interpretation, index) ==
    IF interpretation # "unresolved" THEN Typed(interpretation, lexeme)
    ELSE IF index = 1 THEN Typed("repository_scoped_number", lexeme)
    ELSE Typed("provider_global_id", lexeme)

RestoreObjectIdState(json, interpretation) ==
    [state |-> json.state,
     value |-> IF json.value = None THEN None
               ELSE ConvertJsonObjectId(json.value.lexeme, interpretation, 0),
     candidates |-> [i \in DOMAIN json.candidates |->
         ConvertJsonObjectId(json.candidates[i].lexeme, interpretation, i)]]

\* As if a lower-case spelling were good enough.
SpeltAlike(alias) == alias \in LegacyAliases

\* Only an alias the locator repeats exactly can be projected.
ExactlyLegacy(alias) == alias \in LegacyAliases /\ Lower(alias) = alias

ProjectionOutcome(identity, observation) ==
    LET outcome(status, locator) == [status |-> status, locator |-> locator] IN
    IF observation.repository # RepositoryOf(identity) THEN outcome("conflict", None)
    ELSE IF \/ observation.repository.provider # "github"
            \/ identity.type # "numbered"
            \/ identity.kind # "issue"
            \/ ~ExactlyLegacy(observation.alias)
    THEN outcome("not_mappable", None)
    ELSE outcome("partially_mappable",
                 [provider |-> "github", repository |-> Lower(observation.alias),
                  kind |-> "issue", object_id |-> identity.number])

ProjectionResult(identity, observation) ==
    LET outcome == ProjectionOutcome(identity, observation) IN
    [identity |-> identity, observation |-> observation,
     status |-> outcome.status, locator |-> outcome.locator]
=============================================================================
