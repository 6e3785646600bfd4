----------------------------- MODULE MCFrontend -----------------------------
(* Instances of the parts of the browser application.                      *)
EXTENDS Frontend, TLC

CONSTANTS f1, f2, ada, uma, nobody, home, a, b, c, ka, kb,
          reg, made, preg, pnew, s1, s2, top, absent, blue, pink

MCChunks == (f1 :> 2) @@ (f2 :> 1)
MCPublic == {f2}
RoutesOfUser == (ada :> {home, a, b, c}) @@ (uma :> {home, a, b})
Columns == <<ka, kb>>
PrivateOf == (reg :> preg) @@ (made :> pnew)
IdsWithin == {<<s1, preg>>}

Builds == (1 :> "none") @@ (2 :> "dark")
NearestShade == (blue :> 500) @@ (pink :> 300)
DefaultColors == [primary |-> blue, info |-> pink, success |-> pink]
=============================================================================
