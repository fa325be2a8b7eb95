-------------------------- MODULE MCCapabilityTokens --------------------------
EXTENDS CapabilityTokens, TLC

MCFs == <<<<"fs">>, <<"write">>>>
MCAny == MCFs \o <<<<"v", "*">>>>
MCOne == MCFs \o <<<<"v", "b">>>>
MCTwo == MCFs \o <<<<"v", "c">>>>
MCPartial == MCFs \o <<<<"v", "b*">>>>

MCScopeSets == {{}, {MCPartial}, {MCAny}, {MCOne, MCFs}}
MCPolicies == {{MCFs}, {MCAny}}
MCNeeds == {MCTwo, MCFs}
MCSymmetry == Permutations(Requests) \cup Permutations(Calls) \cup Permutations(Principals)
=============================================================================
