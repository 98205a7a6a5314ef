---------------------------- MODULE MCPriceCheck ----------------------------
\* A link of a store with an API, and one of the butik with a leaflet.
EXTENDS PriceCheck, TLC

CONSTANTS willys, ica

Links == {willys, ica}
Willys == {willys}
Ica == {ica}
Checks == Permutations(Check)
=============================================================================
