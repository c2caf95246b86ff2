--------------------------- MODULE XmlContextCalls ---------------------------
(***************************************************************************)
(* Class XmlContext (XmlContext.cpp): the namespace bindings in scope at a *)
(* point of a document.  Both SAX parsers keep one, and the serializer's   *)
(* NSMapSerializer is one.  A binding that is replaced goes to a log of    *)
(* links; remember() notes how long the log is, and restore() undoes the   *)
(* log back to a noted length.                                             *)
(*                                                                         *)
(* The operations are operators on a record, so that the modules whose     *)
(* handlers call several of them can compose them.                         *)
(***************************************************************************)
EXTENDS NSMap, Integers, Sequences

Link == [prefix : Prefix, ns : Namespace]

Context ==
    [prefixMap           : PrefixMap,
     restoreLinks        : Seq(Link),
     rememberedPositions : Seq(Nat)]

-----------------------------------------------------------------------------
(* The operations *)

(* Mutant: an unset prefix is logged as it is. *)
AddNamespaceLogsUnset(c, p, ns, force) ==
    IF isSetPrefix(c.prefixMap, p) /\ ~force
    THEN c
    ELSE [prefixMap           |-> AddToMap(c.prefixMap, p, ns, TRUE),
          restoreLinks        |-> Append(c.restoreLinks, [prefix |-> p, ns |-> c.prefixMap[p]]),
          rememberedPositions |-> c.rememberedPositions]

(* Mutant: a prefix that is bound already is rebound without a link. *)
AddNamespaceLogsOnce(c, p, ns, force) ==
    IF isSetPrefix(c.prefixMap, p)
    THEN IF force THEN [c EXCEPT !.prefixMap = AddToMap(@, p, ns, TRUE)] ELSE c
    ELSE [prefixMap           |-> AddToMap(c.prefixMap, p, ns, TRUE),
          restoreLinks        |-> Append(c.restoreLinks, [prefix |-> p, ns |-> Reads(c.prefixMap)[p]]),
          rememberedPositions |-> c.rememberedPositions]

(* addNamespace logs the binding it replaces; a prefix that was not set is  *)
(* logged as bound to the empty URI.                                        *)
AddNamespace(c, p, ns, force) ==
    IF isSetPrefix(c.prefixMap, p) /\ ~force
    THEN c
    ELSE [prefixMap           |-> AddToMap(c.prefixMap, p, ns, TRUE),
          restoreLinks        |-> Append(c.restoreLinks,
                                         [prefix |-> p, ns |-> Reads(c.prefixMap)[p]]),
          rememberedPositions |-> c.rememberedPositions]

Remember(c) ==
    [c EXCEPT !.rememberedPositions = Append(@, Len(c.restoreLinks))]

LinksAfter(c, k, p) ==
    {i \in (k + 1) .. Len(c.restoreLinks) : c.restoreLinks[i].prefix = p}

Earliest(S) == CHOOSE i \in S : \A j \in S : i <= j

Latest(S) == CHOOSE i \in S : \A j \in S : i >= j

(* Mutant: the log is undone from its front to its back. *)
UndoneForwards(c, k) ==
    [p \in Prefix |->
        IF LinksAfter(c, k, p) = {}
        THEN c.prefixMap[p]
        ELSE c.restoreLinks[Latest(LinksAfter(c, k, p))].ns]

(* The map once restore's loop has written back the links after position k. *)
(* The loop goes from the back of the log to its front, so of the links of  *)
(* one prefix it is the earliest that is written last.                      *)
UndoneTo(c, k) ==
    [p \in Prefix |->
        IF LinksAfter(c, k, p) = {}
        THEN c.prefixMap[p]
        ELSE c.restoreLinks[Earliest(LinksAfter(c, k, p))].ns]

(* Mutant: restore reads the position under the top one and pops none. *)
RestoreWithoutPop(c) ==
    LET end == c.rememberedPositions[Len(c.rememberedPositions) - 1]
    IN  [prefixMap           |-> UndoneTo(c, end),
         restoreLinks        |-> SubSeq(c.restoreLinks, 1, end),
         rememberedPositions |-> c.rememberedPositions]

(* restore pops a position and undoes the log back to the one under it. *)
Restore(c) ==
    LET n   == Len(c.rememberedPositions) - 1
        end == c.rememberedPositions[n]
    IN  [prefixMap           |-> UndoneTo(c, end),
         restoreLinks        |-> SubSeq(c.restoreLinks, 1, end),
         rememberedPositions |-> SubSeq(c.rememberedPositions, 1, n)]

(* The state the constructor leaves. *)
NewContext ==
    LET empty == [prefixMap           |-> EmptyPrefixMap,
                  restoreLinks        |-> << >>,
                  rememberedPositions |-> << >>]
    IN  Remember(AddNamespace(Remember(empty), NoPrefix, NoNamespace, TRUE))

LastPosition(c) ==
    IF c.rememberedPositions = << >>
    THEN 0
    ELSE c.rememberedPositions[Len(c.rememberedPositions)]

(* Mutant: the URI is the one in the link, not the one bound now. *)
getLastReplacedLinks(c) ==
    SubSeq(c.restoreLinks, LastPosition(c) + 1, Len(c.restoreLinks))

(* The links after the last remembered position, with what each prefix is *)
(* bound to now.                                                          *)
getLastStoredLinks(c) ==
    [i \in 1 .. (Len(c.restoreLinks) - LastPosition(c)) |->
        LET p == c.restoreLinks[LastPosition(c) + i].prefix
        IN  [prefix |-> p, ns |-> c.prefixMap[p]]]

(* What a parser does with the declarations of a start tag: one by one. *)
declare(c, l) == AddNamespace(c, l.prefix, l.ns, TRUE)

declaredUpTo(c, ls) ==
    LET upTo[i \in 0 .. Len(ls)] == IF i = 0 THEN c ELSE declare(upTo[i - 1], ls[i])
    IN  upTo
=============================================================================
