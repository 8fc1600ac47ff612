------------------------------ MODULE MCSystem ------------------------------
(***************************************************************************)
(* One author on one store, served by a Poster and a Reader; the other     *)
(* Poster announces a message at the author's last nonce.                  *)
(***************************************************************************)
EXTENDS BamSystem, TLC

CONSTANTS s1, tagA, bodyA, bodyB, worker

MCTagOf == [b \in Bodies |-> tagA]
MCPacks == {{[key |-> <<s1, MaxNonce>>, body |-> b]} : b \in Bodies}
=============================================================================
