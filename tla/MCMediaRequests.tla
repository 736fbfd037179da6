-------------------------- MODULE MCMediaRequests --------------------------
EXTENDS MediaRequests, TLC

CONSTANTS k1, k2, r1, r2, r3, w1, w2, f1, f2

\* Two workers with an admin page each; two requests come to the first and one to the second.
Homes == k1 :> w1 @@ r1 :> w1 @@ r2 :> w1 @@ k2 :> w2 @@ r3 :> w2
Sizes == f1 :> 2 @@ f2 :> 2
Files == r1 :> f1 @@ r2 :> f2 @@ r3 :> f2
Three(a, b, c) == r1 :> a @@ r2 :> b @@ r3 :> c
Mixes == {Three("lite", "lite", "none"), Three("edit", "none", "paint"),
          Three("job", "none", "none"), Three("none", "none", "film")}
=============================================================================
