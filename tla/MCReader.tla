------------------------------ MODULE MCReader ------------------------------
(***************************************************************************)
(* Instances of the Reader for TLC: one author, one tag, a pack with two    *)
(* messages and a pack with another message at the key of the first.        *)
(***************************************************************************)
EXTENDS Reader, TLC

CONSTANTS s1, tagA, bodyA, bodyB

MCTagOf == [b \in Bodies |-> tagA]

Pack(bodies) == {m \in Entry : m.body = bodies[m.key[2] + 1]}
MCPacks == {Pack(<<bodyA, bodyA>>), {m \in Entry : m.key[2] = 0 /\ m.body = bodyB}}
=============================================================================
