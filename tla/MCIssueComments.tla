-------------------------- MODULE MCIssueComments --------------------------
(* Two runs that report issue "a" at the same place, and two runs between    *)
(* which the ERP got a document that is listed before it.                    *)
EXTENDS IssueComments, TLC

SamePlace == <<<<"a">>, <<"a">>>>
Shifted == <<<<"a">>, <<"b", "a">>>>
Symmetry == Permutations(User) \cup Permutations(Text)
=============================================================================
