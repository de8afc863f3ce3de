-------------------------- MODULE MCPackEconomics --------------------------
EXTENDS PackEconomics, TLC
CONSTANTS c, u, r, basic, pro, w1, a1
MCLower    == (c :> 12) @@ (u :> 8) @@ (r :> 4)
MCUpper    == (c :> 68) @@ (u :> 40) @@ (r :> 28)
MCSeed     == (basic :> ((c :> 48) @@ (u :> 20) @@ (r :> 12))) @@ (pro :> ((c :> 40) @@ (u :> 25) @@ (r :> 15)))
MCTiers    == <<basic, pro>>
MCRank     == (c :> 1) @@ (r :> 2) @@ (u :> 3)
MCVersions == (basic :> 1) @@ (pro :> 2)
MCBudget   == (basic :> 240) @@ (pro :> 296)
MCMarkets  == {(c :> 1) @@ (u :> 4) @@ (r :> 10), (c :> 1) @@ (u :> 12) @@ (r :> 5),
               (c :> 1) @@ (r :> 9)}
=============================================================================
