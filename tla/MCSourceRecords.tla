--------------------------- MODULE MCSourceRecords ---------------------------
(***************************************************************************)
(* A small instance of SourceRecords: two providers, aliases in the two    *)
(* spellings of one name and one that no legacy locator can repeat, and    *)
(* one identity of each kind for the carriers.                             *)
(***************************************************************************)
EXTENDS SourceRecords

MCLower(alias) == IF alias = "Org/Repo" THEN "org/repo" ELSE alias

R1 == [type |-> "repository", provider |-> "github", id |-> "1"]
Issue1 == [type |-> "numbered", repository |-> R1, kind |-> "issue", number |-> "7"]
MCCarriedIdentities ==
    {R1, Issue1, [type |-> "scoped", kind |-> "issue_comment", global_id |-> "7", parent |-> Issue1]}
=============================================================================
