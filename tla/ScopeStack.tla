----------------------------- MODULE ScopeStack -----------------------------
(***************************************************************************)
(* What XmlContext promises to a parser or a serializer that walks an XML  *)
(* document: namespace declarations are scoped by the elements.  `saved'   *)
(* holds, for every scope that is open, the bindings its content started   *)
(* with; closing a scope reinstates those of the scope around it.          *)
(***************************************************************************)
EXTENDS Integers, Sequences

CONSTANTS Prefix, Namespace, NoNamespace

VARIABLES
    bindings,  \* what every prefix stands for now
    saved      \* the bindings in force when each open scope was opened

vars == <<bindings, saved>>

NoBindings == [p \in Prefix |-> NoNamespace]

Init ==
    /\ bindings = NoBindings
    /\ saved = <<NoBindings, NoBindings>>

Declare(p, ns) ==
    /\ bindings' = [bindings EXCEPT ![p] = ns]
    /\ UNCHANGED saved

Open ==
    /\ saved' = Append(saved, bindings)
    /\ UNCHANGED bindings

Close ==
    /\ Len(saved) > 2
    /\ saved' = SubSeq(saved, 1, Len(saved) - 1)
    /\ bindings' = saved[Len(saved) - 1]

Next ==
    \/ \E p \in Prefix, ns \in Namespace : Declare(p, ns)
    \/ Open
    \/ Close

Spec == Init /\ [][Next]_vars
=============================================================================
