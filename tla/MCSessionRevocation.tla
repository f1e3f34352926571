------------------------ MODULE MCSessionRevocation ------------------------
(* Instances of SessionRevocation for TLC: two replicas of which the first    *)
(* serves two logout requests, so both the mutex and the 409 are exercised.  *)
EXTENDS SessionRevocation, TLC

CONSTANTS h1, h2, h3, r1, r2

TwoOnFirst == h1 :> r1 @@ h2 :> r1 @@ h3 :> r2
Alone == h1 :> r1
OneEach == h1 :> r1 @@ h2 :> r2

\* Sessions are alike, jtis of no session are alike, and so are the two replicas
\* when each serves one request.
TokenSymmetry == Permutations(Sessions) \union Permutations(Tokens \ Sessions)
Mirrored == h1 :> h2 @@ h2 :> h1 @@ r1 :> r2 @@ r2 :> r1
MirrorSymmetry == TokenSymmetry \union {Mirrored}
=============================================================================
