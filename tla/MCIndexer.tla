----------------------------- MODULE MCIndexer -----------------------------
(***************************************************************************)
(* Instances of the Indexer for TLC: one author, one tag and two           *)
(* transactions with a message each.  The handler cannot decode the second *)
(* one, which lies between the two places where the first may be mined.    *)
(***************************************************************************)
EXTENDS Indexer

CONSTANTS s1, twitter, post, junk

MCTagOf == [b \in Bodies |-> twitter]
MCBlocks == [t \in Tx |-> IF t = 1 THEN {0, 1} ELSE {0}]
MCPosition == [k \in Key |-> k[2]]

Carries(t, m) == IF t = 1 THEN m.key[2] = 0 /\ m.body = post
                 ELSE m.key[2] = 1 /\ m.body = junk
MCCarried == [t \in Tx |-> {m \in Entry : Carries(t, m)}]
=============================================================================
