--------------------------- MODULE MCIdeaRegistry ---------------------------
(* IdeaRegistry with interchangeable requests and names.                    *)
EXTENDS IdeaRegistry, TLC

Symmetry == Permutations(Requests) \union Permutations(Names)
=============================================================================
