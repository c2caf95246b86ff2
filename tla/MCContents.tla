----------------------------- MODULE MCContents -----------------------------
(***************************************************************************)
(* Contents for TLC.  Threads, names and objects are interchangeable: no   *)
(* definition and no property tells one from another.                      *)
(***************************************************************************)
EXTENDS Contents

CONSTANTS t1, t2, a, b, o1, o2

Interchangeable ==
    Permutations({t1, t2}) \cup Permutations({a, b}) \cup Permutations({o1, o2})

=============================================================================
