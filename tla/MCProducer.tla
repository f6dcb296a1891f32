----------------------------- MODULE MCProducer -----------------------------
(* Values for the constants of Producer. *)
EXTENDS ProducerProperties, TLC

\* Every message has one entry; the messages in Big cost ten bytes, the others one.
CONSTANT Big

MCByteCost == [m \in Msgs |-> IF m \in Big THEN 10 ELSE 1]
MCEntryCount == [m \in Msgs |-> 1]

Symmetry == Permutations(Msgs \ Big)
=============================================================================
