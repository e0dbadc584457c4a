-------------------------- MODULE RepositoryRecords --------------------------
(***************************************************************************)
(* Records about the contents and the history of a repository: Git objects *)
(* and refs (revision.py), snapshots and the coverage of declared paths    *)
(* (snapshot.py), and the facts of a pull request (history.py).            *)
(*                                                                         *)
(* A digest is a model value; that it has the length of its algorithm and  *)
(* is not all zero is in the set of objects.  Paths and ref names that fit *)
(* their grammar are model values.  The tuples of the code may have 4096   *)
(* entries; the model gives them few.                                      *)
(***************************************************************************)
EXTENDS SourceIdentity

CONSTANTS
    Digests,            \* digests of objects
    Algorithms,         \* hash algorithms
    Paths,              \* repository paths
    RefNames,           \* ref names
    EvidenceRecords     \* durable evidence record references

Objects == [kind : {"commit", "tree", "blob"}, algorithm : Algorithms, digest : Digests]
ObjectsOf(kinds) == {o \in Objects : o.kind \in kinds}
Commits == ObjectsOf({"commit"})

\* Distinct entries only; compared by what a caller of the operator picks.
Unrepeated(s) == \A i, j \in DOMAIN s : s[i] = s[j] => i = j

(***************************************************************************)
(* Revisions                                                               *)
(***************************************************************************)
RoleAssignments == [role : {"base", "head", "merge_first_parent", "merge"}, revision : Commits]

TopologyOK(t) == \A i \in DOMAIN t.parents : t.parents[i].algorithm = t.commit.algorithm

\* A ref that is there has a target, one that is gone may have had one.
RefObservationOK(o) ==
    /\ o.authority.provider = o.repository.provider
    /\ o.state = "observed_present" => o.target # None
    /\ o.state \notin {"observed_present", "deleted"} => o.target = None

QualifiedPath(repository, revision, path) ==
    [repository |-> repository, revision |-> revision, path |-> path]

\* Positions: lines count from one and include the end, bytes from zero without it.
LineSpanOK(span, maxLine) == 1 <= span.start /\ span.start <= span.end /\ span.end <= maxLine
ByteSpanOK(span, maxByte) == span.length >= 1 /\ span.offset + span.length <= maxByte
ByteLocatorOK(l, maxByte) == /\ ByteSpanOK(l.span, maxByte)
                             /\ l.span.offset + l.span.length <= l.parent_length
                             /\ l.parent_length <= maxByte

\* A side of a hunk is a file with its lines; one side at least is there.
DiffHunkOK(h) ==
    /\ h.old_file # None <=> h.old_lines # None
    /\ h.new_file # None <=> h.new_lines # None
    /\ h.old_file # None \/ h.new_file # None

(***************************************************************************)
(* Snapshots                                                               *)
(***************************************************************************)
Snapshots == [repository : Repositories, revision : Commits]

RootTreeOK(b) == b.root_tree.algorithm = b.snapshot.revision.algorithm

PathBindingOK(b) == b.object.algorithm = b.snapshot.revision.algorithm
PathBindings ==
    {b \in [snapshot : Snapshots, path : Paths, object : ObjectsOf({"blob", "tree"})] :
        PathBindingOK(b)}

\* As if a path could be repeated with another object.
BindingsUnrepeated(bindings) == Unrepeated(bindings)

PathsUnrepeated(bindings) == Unrepeated([i \in DOMAIN bindings |-> bindings[i].path])

CollectionOK(c) ==
    /\ \A i \in DOMAIN c.bindings : c.bindings[i].snapshot = c.snapshot
    /\ PathsUnrepeated(c.bindings)

ScopeOK(s) == Unrepeated(s.declared_paths)

CoverageOK(scope, collection) ==
    /\ scope.declared_paths # <<>>
    /\ scope.snapshot = collection.snapshot
    /\ \A i \in DOMAIN scope.declared_paths :
          \E j \in DOMAIN collection.bindings :
              collection.bindings[j].path = scope.declared_paths[i]

(***************************************************************************)
(* History of a pull request                                               *)
(***************************************************************************)
RoleBindingOK(b) == b.pull_request.kind = "pull_request"
                    /\ b.role_assignment.role \in {"base", "head"}
RoleBindings == {b \in [pull_request : Numbered, role_assignment : RoleAssignments] :
                    RoleBindingOK(b)}

ChangedPaths == [path : Paths, object : ObjectsOf({"blob"}), status : {"added", "modified"}]

\* The two sides of one pull request.
SidesOK(base, head) ==
    LET old == base.role_assignment
        new == head.role_assignment IN
    /\ base.pull_request = head.pull_request
    /\ old.role = "base" /\ new.role = "head" /\ old.revision # new.revision
    /\ old.revision.algorithm = new.revision.algorithm

ChangeSetOK(c) ==
    /\ SidesOK(c.base, c.head)
    /\ c.changed_paths # <<>>
    /\ \A i \in DOMAIN c.changed_paths :
          c.changed_paths[i].object.algorithm = c.head.role_assignment.revision.algorithm
    /\ PathsUnrepeated(c.changed_paths)

ApprovalOK(a) == a.review.kind = "pull_request_review"
MergeOK(m) == m.pull_request.kind = "pull_request"
HeadRefDeletionOK(d) == d.head.role_assignment.role = "head"

Approvals == {a \in [review : Scoped, revision : Commits] : ApprovalOK(a)}
Merges == {m \in [pull_request : Numbered, revision : Commits] : MergeOK(m)}
HeadRefDeletions == {d \in [head : RoleBindings, ref_name : RefNames] : HeadRefDeletionOK(d)}

\* The events a time of occurrence can be supplied for, and the facts a durable
\* evidence record can be linked to: a change set is not one of them.
Events == Approvals \cup Merges \cup HeadRefDeletions
OccurrenceTimes == [occurrence : Events]
HistoryFacts == RoleBindings \cup ChangedPaths \cup Events \cup OccurrenceTimes

RootTreeBindings ==
    {b \in [snapshot : Snapshots, root_tree : ObjectsOf({"tree"})] : RootTreeOK(b)}
SnapshotFacts == RootTreeBindings \cup PathBindings

EvidenceLink(fact, evidence) == [fact |-> fact, evidence_record |-> evidence]
=============================================================================
