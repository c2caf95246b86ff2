---------------------------- MODULE MCSerializer ----------------------------
(* Serializer for TLC: two generated prefixes, which documents use too. *)
EXTENDS Serializer

CONSTANTS prefixA, prefixB

GeneratedPrefixes == <<prefixA, prefixB>>
=============================================================================
