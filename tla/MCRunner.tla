------------------------------ MODULE MCRunner ------------------------------
(* Instances of Runner for TLC. *)
EXTENDS Runner

CONSTANTS h1, h2, h3

\* Three hosts for two slots, one host repeated, and the empty list (a
\* component without a role host).
MCBatches == {<<h1, h2, h3>>, <<h2, h2>>, <<>>}
=============================================================================
