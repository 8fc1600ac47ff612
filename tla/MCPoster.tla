------------------------------ MODULE MCPoster ------------------------------
(***************************************************************************)
(* Instances of the Poster for TLC: one or two authors, one body per tag   *)
(* (an author may post either body at a nonce), and a budget of faults.    *)
(***************************************************************************)
EXTENDS PosterViews, TLC

CONSTANTS s1, s2, tagA, tagB, bodyA, bodyB, worker, flush

MCTagOf == [b \in Bodies |-> IF b = bodyA THEN tagA ELSE tagB]
=============================================================================
