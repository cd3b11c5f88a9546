----------------------------- MODULE MCMetadata -----------------------------
(* A small instance of Metadata for TLC: node 1 of the DHT is a store node, *)
(* node 2 a bootstrap node.                                                 *)
EXTENDS Metadata

CONSTANTS c1, c2

OneStore     == {1}
OneBoot      == {2}
OneGoroutine == {"relay"}
TwoCallers   == {c1, c2}
=============================================================================
