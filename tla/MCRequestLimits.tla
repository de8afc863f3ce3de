-------------------------- MODULE MCRequestLimits --------------------------
EXTENDS RequestLimits, TLC
CONSTANTS alice, bob, home, packs, api
MCAccess    == (packs :> {"writeProtected"}) @@ (api :> {"readOnly", "writeProtected"})
MCUserLimit == (packs :> <<1, 2>>) @@ (api :> <<1>>)
MCIpLimit   == (packs :> <<2, 3>>) @@ (api :> <<1>>)
=============================================================================
