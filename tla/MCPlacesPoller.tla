----------------------------- MODULE MCPlacesPoller -----------------------------
(* Instances of PlacesPoller for TLC.                                        *)
EXTENDS PlacesPoller, TLC

CONSTANTS u1, b1, b2, r1, r2, r3

\* One account has both businesses; two reviews of one and one of the other.
OneOwner == (b1 :> u1) @@ (b2 :> u1)
ThreeReviews == (r1 :> b1) @@ (r2 :> b1) @@ (r3 :> b2)

\* One bot at a time shows all that the bots differ in.
OneBot == {{"line"}, {"telegram"}}
=============================================================================
