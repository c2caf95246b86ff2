----------------------------- MODULE XmlContext -----------------------------
(***************************************************************************)
(* An XmlContext and any client that makes its calls: what the class       *)
(* promises to parsers and serializers (ScopeStack).                       *)
(***************************************************************************)
EXTENDS XmlContextCalls

CONSTANTS
    MaxLinks,      \* bound: links in the log
    MaxRemembered  \* bound: remembered positions

VARIABLE context

-----------------------------------------------------------------------------
(* The state machine: any sequence of the calls a client makes.  Clients   *)
(* pair each restore with a remember of their own, so that the two         *)
(* positions of the constructor stay.                                      *)

DoAddNamespace(p, ns, force) ==
    /\ Len(context.restoreLinks) < MaxLinks
    /\ context' = AddNamespace(context, p, ns, force)

DoRemember ==
    /\ Len(context.rememberedPositions) < MaxRemembered
    /\ context' = Remember(context)

DoRestore ==
    /\ Len(context.rememberedPositions) > 2
    /\ context' = Restore(context)

Init == context = NewContext

Next ==
    \/ \E p \in Prefix, ns \in Namespace, force \in BOOLEAN : DoAddNamespace(p, ns, force)
    \/ DoRemember
    \/ DoRestore

Spec == Init /\ [][Next]_context

-----------------------------------------------------------------------------
(* restore's loop as it is written, which UndoneTo abstracts: the function *)
(* from a number of iterations to what the context then is.                *)

(* One iteration writes the last link back and pops it. *)
undoLast(c) ==
    LET back == c.restoreLinks[Len(c.restoreLinks)]
    IN  [c EXCEPT !.prefixMap    = AddToMap(@, back.prefix, back.ns, TRUE),
                  !.restoreLinks = SubSeq(@, 1, Len(@) - 1)]

undoing(c) ==
    LET after[i \in 0 .. Len(c.restoreLinks)] == IF i = 0 THEN c ELSE undoLast(after[i - 1])
    IN  after

(* The loop runs while the log is longer than k. *)
undoLoop(c, k) == undoing(c)[Len(c.restoreLinks) - k]

-----------------------------------------------------------------------------
(* Properties *)

(* The context has its type: in particular the log holds URIs only, so that *)
(* what addNamespace reads of the map for the log is always defined.        *)
TypeOK == context \in Context

(* Remembered positions grow from the bottom of the stack to its top and none *)
(* lies beyond the log: restore's loop stops exactly at the position it was   *)
(* given, and the outer positions stay meaningful when an inner one is undone.*)
PositionsOrdered ==
    LET pos == context.rememberedPositions
    IN  /\ Len(pos) >= 2
        /\ \A i \in 1 .. Len(pos) :
            /\ pos[i] <= Len(context.restoreLinks)
            /\ \A j \in 1 .. i : pos[j] <= pos[i]

(* Every prefix that means something else now than when the last position    *)
(* was remembered is among getLastStoredLinks, with its present URI: what    *)
(* printNewNS prints declares every change of the element it is printed for. *)
ChangesAreStored ==
    LET before == UndoneTo(context, LastPosition(context))
        stored == getLastStoredLinks(context)
    IN  \A p \in Prefix :
            Reads(context.prefixMap)[p] # Reads(before)[p]
                => \E i \in DOMAIN stored :
                      stored[i] = [prefix |-> p, ns |-> context.prefixMap[p]]

(* UndoneTo, which says which link of a prefix survives restore's loop, agrees *)
(* with the loop at every position the log can be undone to, and the loop      *)
(* leaves the log as long as that position says.                               *)
UndoneToIsTheLoop ==
    \A k \in 0 .. Len(context.restoreLinks) :
        undoLoop(context, k) = [context EXCEPT !.prefixMap    = UndoneTo(context, k),
                                               !.restoreLinks = SubSeq(@, 1, k)]

-----------------------------------------------------------------------------
(* A context is a stack of scopes.  The bindings a scope was opened with are *)
(* not stored anywhere: they are what undoing the log to the scope's         *)
(* position would read.                                                      *)

SavedScopes ==
    [i \in 1 .. Len(context.rememberedPositions) |->
        Reads(UndoneTo(context, context.rememberedPositions[i]))]

Scopes == INSTANCE ScopeStack
    WITH bindings <- Reads(context.prefixMap), saved <- SavedScopes

(* XmlContext implements ScopeStack: whatever is rebound, re-rebound or       *)
(* remembered inside a scope, closing it gives back exactly the bindings the  *)
(* content of the scope around it started with.                               *)
ImplementsScopes == Scopes!Spec
=============================================================================
