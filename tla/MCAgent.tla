------------------------------ MODULE MCAgent ------------------------------
(* Model values and bounds for checking Agent with TLC.                    *)
EXTENDS Agent, TLC

\* Connections and key pairs are interchangeable; used by safety runs only.
Symmetric == Permutations(Conn) \cup Permutations(KeyPair)
=============================================================================
