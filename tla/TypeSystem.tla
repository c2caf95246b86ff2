----------------------------- MODULE TypeSystem -----------------------------
(***************************************************************************)
(* The global TypeSystem (TypeSystem.cpp) while libraries of generated     *)
(* types are loaded, each of which registers its types one after the other *)
(* from a static constructor, and other threads ask for types: by name, or *)
(* for the type of a sub-object (SchemaType.cpp).  A method holds the      *)
(* mutex around one access to a map; addDocumentType and createSubObject   *)
(* make several, and others run in between.                                *)
(***************************************************************************)
EXTENDS SchemaTypes, Integers, Sequences

CONSTANTS
    Library,    \* threads that load a library
    Client,     \* threads that ask
    TypesOf,    \* the types of each library, in the order it registers them
    Asked,      \* the elements clients ask for
    MaxCalls    \* bound: calls of one client

ASSUME TypeSystemAssumption ==
    /\ TypesOf \in [Library -> Seq(SchemaType)]
    /\ Asked \subseteq ElementName
    /\ MaxCalls \in Nat

(* A global element has one declaration in a schema, and the generator    *)
(* makes a document type of it (ClassGen.java:1485): libraries generated   *)
(* of the same schema agree on the name of the type of a root.             *)
ASSUME SchemasAgree ==
    \A d, e \in SchemaType :
        LET element == d.documentElementName
        IN  element # NULL /\ e.documentElementName = element => d.elements[element] = e.elements[element]

VARIABLES
    registry,
    loaded,   \* how many of its types each library has registered
    half,     \* the libraries inside addDocumentType, after addType
    op        \* the last call of each client and how far it is

vars == <<registry, loaded, half, op>>

(* A call asks for element `name' of a `type', or for the type called      *)
(* `wanted'.  `before' is the registry at its beginning, which only the    *)
(* properties look at.                                                     *)
Op ==
    [pc     : {"idle", "findDocument", "findType"},
     type   : SchemaType \cup {NULL},
     name   : ElementName \cup {NULL},
     wanted : TypeName \cup {NULL},
     result : SchemaType \cup {NULL},
     before : Registry,
     calls  : 0 .. MaxCalls]

-----------------------------------------------------------------------------
(* Registration *)

Current(l) == TypesOf[l][loaded[l] + 1]

isDocumentType(st) == st.documentElementName # NULL

Registers(l) == loaded[l] < Len(TypesOf[l])

(* A library is inside addDocumentType only for a document type. *)
TypeOK ==
    /\ registry \in Registry
    /\ loaded \in [Library -> Nat]
    /\ half \subseteq Library
    /\ op \in [Client -> Op]
    /\ \A l \in half : Registers(l) /\ isDocumentType(Current(l))

addType(l) ==
    /\ Registers(l) /\ ~isDocumentType(Current(l))
    /\ registry' = withType(registry, Current(l))
    /\ loaded' = [loaded EXCEPT ![l] = @ + 1]
    /\ UNCHANGED <<half, op>>

(* Mutant: addDocumentType enters the document first. *)
addDocumentTypeFirst(l) ==
    /\ Registers(l) /\ isDocumentType(Current(l)) /\ l \notin half
    /\ registry' = withDocument(registry, Current(l))
    /\ half' = half \cup {l}
    /\ UNCHANGED <<loaded, op>>

(* addDocumentType: addType, which releases the mutex, and then the document. *)
addDocumentType(l) ==
    /\ Registers(l) /\ isDocumentType(Current(l)) /\ l \notin half
    /\ registry' = withType(registry, Current(l))
    /\ half' = half \cup {l}
    /\ UNCHANGED <<loaded, op>>

addDocument(l) ==
    /\ l \in half
    /\ registry' = withDocument(registry, Current(l))
    /\ loaded' = [loaded EXCEPT ![l] = @ + 1]
    /\ half' = half \ {l}
    /\ UNCHANGED op

-----------------------------------------------------------------------------
(* Lookup *)

Idle(c) == op[c].pc = "idle" /\ op[c].calls < MaxCalls

(* What createSubObject does first, in a call and in the call on the root of *)
(* a document: a declared element is looked up by the name of its type.      *)
Step(st, n) ==
    IF st.elements[n] # NULL
    THEN [pc |-> "findType", wanted |-> st.elements[n]]
    ELSE [pc |-> "findDocument", wanted |-> NULL]

Call(c, st, n, step) ==
    /\ Idle(c)
    /\ op' = [op EXCEPT ![c] = [pc |-> step.pc, wanted |-> step.wanted, type |-> st, name |-> n,
                                result |-> NULL, before |-> registry, calls |-> @.calls + 1]]
    /\ UNCHANGED <<registry, loaded, half>>

beginSubObject(c) == \E st \in SchemaType, n \in Asked : Call(c, st, n, Step(st, n))

beginByName(c) == \E t \in TypeName : Call(c, NULL, NULL, [pc |-> "findType", wanted |-> t])

Return(c, st) == op' = [op EXCEPT ![c].pc = "idle", ![c].result = st]

(* Mutant: a document is answered itself, not the type of its element. *)
findDocumentItself(c) ==
    /\ op[c].pc = "findDocument"
    /\ LET d == createDocumentByName(registry, op[c].name)
       IN  IF d = NULL THEN Return(c, AnyType) ELSE Return(c, d)
    /\ UNCHANGED <<registry, loaded, half>>

(* createDocumentByName, and createSubObject of the document for its element. *)
findDocument(c) ==
    /\ op[c].pc = "findDocument"
    /\ LET d == createDocumentByName(registry, op[c].name)
       IN  IF d = NULL
           THEN Return(c, AnyType)
           ELSE op' = [op EXCEPT ![c].pc = Step(d, d.documentElementName).pc,
                                 ![c].wanted = Step(d, d.documentElementName).wanted]
    /\ UNCHANGED <<registry, loaded, half>>

(* Mutant: the caller waits for a type that is not there. *)
findTypeOrWait(c) ==
    /\ op[c].pc = "findType"
    /\ createByName(registry, op[c].wanted) # NULL
    /\ Return(c, createByName(registry, op[c].wanted))
    /\ UNCHANGED <<registry, loaded, half>>

findType(c) ==
    /\ op[c].pc = "findType"
    /\ Return(c, createByName(registry, op[c].wanted))
    /\ UNCHANGED <<registry, loaded, half>>

-----------------------------------------------------------------------------
NoCall ==
    [pc |-> "idle", type |-> NULL, name |-> NULL, wanted |-> NULL, result |-> NULL,
     before |-> EmptyRegistry, calls |-> 0]

Init ==
    /\ registry = EmptyRegistry
    /\ loaded = [l \in Library |-> 0]
    /\ half = {}
    /\ op = [c \in Client |-> NoCall]

Load(l) == addType(l) \/ addDocumentType(l) \/ addDocument(l)

Answer(c) == findDocument(c) \/ findType(c)

Next ==
    \/ \E l \in Library : Load(l)
    \/ \E c \in Client : beginSubObject(c) \/ beginByName(c) \/ Answer(c)

(* Threads are scheduled: a thread inside a call, or loading, goes on. *)
Fairness ==
    /\ \A l \in Library : WF_vars(Load(l))
    /\ \A c \in Client : WF_vars(Answer(c))

Spec == Init /\ [][Next]_vars /\ Fairness

-----------------------------------------------------------------------------
(* Properties *)

(* Whatever the libraries interleave, a document type that can be found by   *)
(* its element is also a type that can be found by its name: a parser that   *)
(* types a root by its element can read back the xsi:type the serializer     *)
(* writes for it (TypeSystem.cpp:125).                                       *)
DocumentsAreTypes ==
    \A n \in ElementName :
        LET d == createDocumentByName(registry, n)
        IN  d # NULL => d.documentElementName = n /\ createByName(registry, d.name) # NULL

(* A call that began when all it needs was registered gets a type of the     *)
(* name it would have got then, although it reads the maps at two moments    *)
(* and another library registers the same names again in between.           *)
NothingIsLost ==
    \A c \in Client :
        op[c].pc = "idle" /\ op[c].type # NULL =>
            LET st == createSubObject(op[c].before, op[c].type, op[c].name)
            IN  /\ SubObjectReturns(op[c].before, op[c].type, op[c].name)
                /\ st # NULL /\ st # AnyType
                => op[c].result # NULL /\ op[c].result.name = st.name

(* Every call comes to an end, also one that finds nothing, for the element  *)
(* names in Asked.  It would not for one that is not among the elements of   *)
(* its own document type, as the empty name of XmlObjectDocument is not:     *)
(* createSubObject finds that type again (SchemaType.cpp:49).                *)
EveryCallReturns == \A c \in Client : op[c].pc # "idle" ~> op[c].pc = "idle"
=============================================================================
