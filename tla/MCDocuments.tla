----------------------------- MODULE MCDocuments -----------------------------
(***************************************************************************)
(* A small instance of Documents: sizes at the limits of the domain, one   *)
(* over each of them, and a small one; texts as long as they may be.       *)
(***************************************************************************)
EXTENDS Documents

Limit == DomainLimits
MCSizes == {[nodes |-> 40, objects |-> 8, characters |-> 600, depth |-> 7], Limit,
            [Limit EXCEPT !.nodes = @ + 1], [Limit EXCEPT !.objects = @ + 1],
            [Limit EXCEPT !.characters = @ + 1], [Limit EXCEPT !.depth = @ + 1]}

MCReviewTexts == {[scope |-> 4096, judgment |-> 4096, supplier |-> 128, rationale |-> 4096]}
MCAssertionTexts ==
    {[reviewer |-> 128, supplier |-> 128, rationale |-> 4096,
      source |-> [format |-> 160, version |-> 64, canonical |-> 160]],
     [reviewer |-> None, supplier |-> 1, rationale |-> 1, source |-> None]}
=============================================================================
