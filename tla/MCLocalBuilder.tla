--------------------------- MODULE MCLocalBuilder ---------------------------
(* LocalBuilder with an app of two files, a second app that needs one of    *)
(* them, and answers of the model that the parser refuses.                  *)
EXTENDS LocalBuilder, TLC
CONSTANTS server, check

Payload(paths, bytes, wellFormed) ==
  [paths |-> paths, bytes |-> bytes, wellFormed |-> wellFormed]
MCResponses ==
  {[form |-> "tool", payload |-> Payload(<<server, check>>, 1, TRUE)],
   [form |-> "fenced", payload |-> Payload(<<check>>, 1, TRUE)],
   [form |-> "tool", payload |-> Payload(<<server>>, 1, TRUE)]}

Symmetry == Permutations(Requests)
=============================================================================
