------------------------------- MODULE NSMap -------------------------------
(***************************************************************************)
(* The prefix map of class NSMap (NSMap.cpp): a partial map from namespace *)
(* prefixes to namespace URIs.  It is a total function here; a prefix that *)
(* the std::map does not hold has the value Unset.                         *)
(***************************************************************************)

CONSTANTS
    Prefix,       \* namespace prefixes
    Namespace,    \* namespace URIs
    NoPrefix,     \* the empty prefix: the key of the default namespace
    NoNamespace,  \* the empty URI
    Unset         \* "this prefix is not in the map"

ASSUME NSMapAssumption ==
    /\ NoPrefix \in Prefix
    /\ NoNamespace \in Namespace
    /\ Unset \notin Namespace

PrefixMap == [Prefix -> Namespace \cup {Unset}]

EmptyPrefixMap == [p \in Prefix |-> Unset]

isSetPrefix(map, p) == map[p] # Unset

isSetNamespaceURI(map, ns) == \E p \in Prefix : map[p] = ns

(* The map after NSMap::addNamespace, which replaces a binding only when forced. *)
AddToMap(map, p, ns, force) ==
    IF force \/ ~isSetPrefix(map, p) THEN [map EXCEPT ![p] = ns] ELSE map

(* What reading a prefix yields once an unset prefix counts as the empty URI: *)
(* the view XmlContext::addNamespace takes of an unset prefix when it stores  *)
(* the link to be restored.                                                   *)
Reads(map) == [p \in Prefix |-> IF isSetPrefix(map, p) THEN map[p] ELSE NoNamespace]
============================================================================
