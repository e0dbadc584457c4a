----------------------------- MODULE MCEvidence -----------------------------
(* A small instance of Evidence: three requests of one run and one of another. *)
EXTENDS Evidence
CONSTANTS none, d1, d2, s1, s2

MCRequestIds == {[run |-> "r1", ordinal |-> o] : o \in 1..3} \cup {[run |-> "r2", ordinal |-> 1]}

Here == [provider |-> "here", number |-> 1]
Commit(n) == [algorithm |-> "sha1", oid |-> n]
Check(event, n, head) == [role |-> "retrieval", provider |-> "here", event |-> event,
                          run |-> n, job |-> n, head |-> head]
Sound ==
    [key |-> "k1", kind |-> "pull_request", repository |-> Here, pr_repository |-> Here,
     reviewed |-> Commit(1), published |-> Commit(2),
     reviewed_tree |-> Commit(3), published_tree |-> Commit(3),
     pr_check |-> Check("pull_request", 1, Commit(1)), main_check |-> Check("push", 2, Commit(2))]

\* A sound publication, and one with each of its parts exchanged.
MCPublications ==
    {Sound, [Sound EXCEPT !.kind = "issue"],
     [Sound EXCEPT !.pr_repository = [provider |-> "there", number |-> 1]],
     [Sound EXCEPT !.published = Commit(1), !.main_check.head = Commit(1)],
     [Sound EXCEPT !.published_tree = Commit(4)],
     [Sound EXCEPT !.reviewed_tree.algorithm = "sha256", !.published_tree.algorithm = "sha256"],
     [Sound EXCEPT !.main_check.run = 1], [Sound EXCEPT !.pr_check.job = 2],
     [Sound EXCEPT !.pr_check.role = "identity"], [Sound EXCEPT !.main_check.provider = "there"],
     [Sound EXCEPT !.pr_check.head = Commit(2)], [Sound EXCEPT !.main_check.event = "pull_request"]}
=============================================================================
