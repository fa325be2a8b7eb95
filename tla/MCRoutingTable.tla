--------------------------- MODULE MCRoutingTable ---------------------------
(* RoutingTable with two hosts, one of them spelled in two ways, and with   *)
(* names and targets the library refuses.                                   *)
EXTENDS RoutingTable, TLC
CONSTANTS la, lb

Spelled(name, cased, padded, port) ==
  [name |-> name, cased |-> cased, padded |-> padded, port |-> port]
MCHosts ==
  {Spelled(<<la, lb>>, TRUE, TRUE, FALSE), Spelled(<<la, lb>>, FALSE, FALSE, TRUE),
   Spelled(<<la>>, FALSE, FALSE, FALSE)}
MCTargets ==
  {[form |-> "url", scheme |-> "https", credentials |-> FALSE],
   [form |-> "pair", name |-> <<la>>, portOk |-> FALSE]}

Symmetry == Permutations(Calls)
=============================================================================
