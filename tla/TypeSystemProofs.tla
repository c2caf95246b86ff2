-------------------------- MODULE TypeSystemProofs --------------------------
(***************************************************************************)
(* Proofs about TypeSystem, for any libraries, types and clients.          *)
(*                                                                         *)
(* That a document type is a type is not inductive by itself: between the  *)
(* two sections of addDocumentType another library may register a type of  *)
(* the same name.  IInv adds that a library inside addDocumentType has its *)
(* type's name among the types, and that no name ever leaves them.         *)
(***************************************************************************)
EXTENDS TypeSystem, TLAPS

RegistryOK ==
    /\ registry \in Registry
    /\ loaded \in [Library -> Nat]
    /\ half \subseteq Library

(* A library between the sections of addDocumentType has registered the type. *)
HalfIsType ==
    \A l \in half :
        /\ Registers(l)
        /\ isDocumentType(Current(l))
        /\ createByName(registry, Current(l).name) # NULL

IInv == RegistryOK /\ HalfIsType /\ DocumentsAreTypes

-----------------------------------------------------------------------------

LEMMA CurrentIsType ==
    ASSUME RegistryOK, NEW l \in Library, Registers(l)
    PROVE  Current(l) \in SchemaType
  <1>1. TypesOf[l] \in Seq(SchemaType)
    BY TypeSystemAssumption
  <1>2. loaded[l] + 1 \in 1 .. Len(TypesOf[l])
    BY <1>1 DEF RegistryOK, Registers
  <1> QED BY <1>1, <1>2 DEF Current

(* What withType leaves in the registry. *)
LEMMA WithType ==
    ASSUME NEW r \in Registry, NEW st \in SchemaType
    PROVE  /\ withType(r, st) \in Registry
           /\ \A n \in ElementName : createDocumentByName(withType(r, st), n) = createDocumentByName(r, n)
           /\ createByName(withType(r, st), st.name) # NULL
           /\ \A t \in TypeName : createByName(r, t) # NULL => createByName(withType(r, st), t) # NULL
  <1>1. st.name \in TypeName /\ st # NULL
    BY SchemaTypesAssumption
  <1>2. r.typeCreators \in [TypeName -> SchemaType \cup {NULL}]
    BY DEF Registry, TypeMap
  <1>3. r.documentTypeCreators \in [ElementName -> SchemaType \cup {NULL}]
    BY DEF Registry, TypeMap
  <1>4. [r.typeCreators EXCEPT ![st.name] = st] \in [TypeName -> SchemaType \cup {NULL}]
    BY <1>1, <1>2
  <1>5. withType(r, st) \in Registry
    BY <1>3, <1>4 DEF withType, Registry, TypeMap
  <1> QED BY <1>1, <1>2, <1>5 DEF withType, createByName, createDocumentByName

(* What withDocument leaves in the registry. *)
LEMMA WithDocument ==
    ASSUME NEW r \in Registry, NEW st \in SchemaType, isDocumentType(st)
    PROVE  /\ withDocument(r, st) \in Registry
           /\ \A t \in TypeName : createByName(withDocument(r, st), t) = createByName(r, t)
           /\ \A n \in ElementName :
                createDocumentByName(withDocument(r, st), n) =
                    IF n = st.documentElementName THEN st ELSE createDocumentByName(r, n)
  <1>1. st.documentElementName \in ElementName
    BY SchemaTypesAssumption DEF isDocumentType
  <1>2. r.documentTypeCreators \in [ElementName -> SchemaType \cup {NULL}]
    BY DEF Registry, TypeMap
  <1>3. r.typeCreators \in [TypeName -> SchemaType \cup {NULL}]
    BY DEF Registry, TypeMap
  <1>4. [r.documentTypeCreators EXCEPT ![st.documentElementName] = st]
            \in [ElementName -> SchemaType \cup {NULL}]
    BY <1>1, <1>2
  <1>5. withDocument(r, st) \in Registry
    BY <1>3, <1>4 DEF withDocument, Registry, TypeMap
  <1> QED BY <1>1, <1>2, <1>5 DEF withDocument, createByName, createDocumentByName

-----------------------------------------------------------------------------

LEMMA InitInv == Init => IInv
  <1> SUFFICES ASSUME Init PROVE IInv
    OBVIOUS
  <1>1. registry \in Registry
    BY DEF Init, EmptyRegistry, Registry, TypeMap
  <1>2. RegistryOK
    BY <1>1 DEF Init, RegistryOK
  <1>3. HalfIsType
    BY DEF Init, HalfIsType
  <1>4. DocumentsAreTypes
    BY DEF Init, EmptyRegistry, DocumentsAreTypes, createDocumentByName
  <1> QED BY <1>2, <1>3, <1>4 DEF IInv

(* addType, and addDocumentType's first section: the documents stay, and no *)
(* name leaves the types.                                                   *)
LEMMA TypesOnlyGrow ==
    ASSUME IInv, NEW st \in SchemaType, registry' = withType(registry, st)
    PROVE  /\ registry' \in Registry
           /\ DocumentsAreTypes'
           /\ createByName(registry', st.name) # NULL
           /\ \A t \in TypeName : createByName(registry, t) # NULL => createByName(registry', t) # NULL
  <1>1. registry \in Registry
    BY DEF IInv, RegistryOK
  <1>2. ASSUME NEW n \in ElementName, createDocumentByName(registry, n) # NULL
        PROVE  createDocumentByName(registry, n).name \in TypeName
    <2>1. createDocumentByName(registry, n) \in SchemaType
      BY <1>1, <1>2 DEF Registry, TypeMap, createDocumentByName
    <2> QED BY <2>1, SchemaTypesAssumption
  <1>3. DocumentsAreTypes
    BY DEF IInv
  <1>4. DocumentsAreTypes'
    BY <1>1, <1>2, <1>3, WithType DEF DocumentsAreTypes
  <1> QED BY <1>1, <1>4, WithType

LEMMA NextInv == IInv /\ [Next]_vars => IInv'
  <1> SUFFICES ASSUME IInv, [Next]_vars PROVE IInv'
    OBVIOUS
  <1> USE DEF IInv
  <1>a. \A l \in half : Current(l) \in SchemaType /\ Current(l).name \in TypeName
    BY CurrentIsType, SchemaTypesAssumption DEF HalfIsType, RegistryOK
  <1>1. ASSUME NEW l \in Library, addType(l) PROVE IInv'
    <2>1. Current(l) \in SchemaType
      BY <1>1, CurrentIsType DEF addType
    <2>2. /\ registry' \in Registry
          /\ DocumentsAreTypes'
          /\ \A t \in TypeName : createByName(registry, t) # NULL => createByName(registry', t) # NULL
      BY <1>1, <2>1, TypesOnlyGrow DEF addType
    <2>3. RegistryOK'
      BY <1>1, <2>2 DEF addType, RegistryOK
    <2>4. l \notin half
      BY <1>1 DEF addType, HalfIsType
    <2>5. \A k \in half : loaded'[k] = loaded[k]
      BY <1>1, <2>4 DEF addType, RegistryOK
    <2>6. HalfIsType'
      BY <1>1, <1>a, <2>2, <2>5 DEF addType, HalfIsType, Current, Registers
    <2> QED BY <2>2, <2>3, <2>6
  <1>2. ASSUME NEW l \in Library, addDocumentType(l) PROVE IInv'
    <2>1. Current(l) \in SchemaType
      BY <1>2, CurrentIsType DEF addDocumentType
    <2>2. /\ registry' \in Registry
          /\ DocumentsAreTypes'
          /\ createByName(registry', Current(l).name) # NULL
          /\ \A t \in TypeName : createByName(registry, t) # NULL => createByName(registry', t) # NULL
      BY <1>2, <2>1, TypesOnlyGrow DEF addDocumentType
    <2>3. RegistryOK'
      BY <1>2, <2>2 DEF addDocumentType, RegistryOK
    <2>4. HalfIsType'
      BY <1>2, <1>a, <2>2 DEF addDocumentType, HalfIsType, Current, Registers
    <2> QED BY <2>2, <2>3, <2>4
  <1>3. ASSUME NEW l \in Library, addDocument(l) PROVE IInv'
    <2>1. /\ Current(l) \in SchemaType
          /\ isDocumentType(Current(l))
          /\ createByName(registry, Current(l).name) # NULL
      BY <1>3, <1>a DEF addDocument, HalfIsType
    <2>2. /\ registry' \in Registry
          /\ \A t \in TypeName : createByName(registry', t) = createByName(registry, t)
          /\ \A n \in ElementName :
                createDocumentByName(registry', n) =
                    IF n = Current(l).documentElementName THEN Current(l) ELSE createDocumentByName(registry, n)
      BY <1>3, <2>1, WithDocument DEF addDocument, RegistryOK
    <2>3. RegistryOK'
      BY <1>3, <2>2 DEF addDocument, RegistryOK
    <2>4. \A k \in half' : k \in half /\ loaded'[k] = loaded[k]
      BY <1>3 DEF addDocument, RegistryOK
    <2>5. HalfIsType'
      BY <1>a, <2>2, <2>4 DEF HalfIsType, Current, Registers
    <2>6. ASSUME NEW n \in ElementName, createDocumentByName(registry', n) # NULL
          PROVE  /\ createDocumentByName(registry', n).documentElementName = n
                 /\ createByName(registry', createDocumentByName(registry', n).name) # NULL
      <3>1. CASE n = Current(l).documentElementName
        BY <1>a, <1>3, <2>1, <2>2, <3>1 DEF addDocument
      <3>2. CASE n # Current(l).documentElementName
        <4>1. createDocumentByName(registry, n) \in SchemaType
          BY <2>2, <2>6, <3>2 DEF RegistryOK, Registry, TypeMap, createDocumentByName
        <4>2. createDocumentByName(registry, n).name \in TypeName
          BY <4>1, SchemaTypesAssumption
        <4> QED BY <2>2, <2>6, <3>2, <4>2 DEF DocumentsAreTypes
      <3> QED BY <3>1, <3>2
    <2>7. DocumentsAreTypes'
      BY <2>6 DEF DocumentsAreTypes
    <2> QED BY <2>3, <2>5, <2>7
  <1>4. ASSUME UNCHANGED <<registry, loaded, half>> PROVE IInv'
    BY <1>4 DEF RegistryOK, HalfIsType, DocumentsAreTypes, Registers, Current
  <1>5. ASSUME NEW c \in Client, beginSubObject(c) \/ beginByName(c) \/ Answer(c) PROVE IInv'
    BY <1>4, <1>5 DEF beginSubObject, beginByName, Answer, Call, findDocument, findType
  <1>6. CASE UNCHANGED vars
    BY <1>4, <1>6 DEF vars
  <1> QED BY <1>1, <1>2, <1>3, <1>5, <1>6 DEF Next, Load

(* Every document type that can be found by its element can be found by its *)
(* name, whatever libraries load at the same time (TypeSystem.cpp:125).     *)
THEOREM DocumentsAreTypesAlways == Spec => []DocumentsAreTypes
  <1>1. Init => IInv
    BY InitInv
  <1>2. IInv /\ [Next]_vars => IInv'
    BY NextInv
  <1>3. IInv => DocumentsAreTypes
    BY DEF IInv
  <1> QED BY <1>1, <1>2, <1>3, PTL DEF Spec

-----------------------------------------------------------------------------
(* What a call returns *)

(* A registry holds a type under its own name and a document type under the  *)
(* name of its element.                                                      *)
Keyed(r) ==
    /\ \A t \in TypeName :
        createByName(r, t) # NULL => createByName(r, t) \in SchemaType /\ createByName(r, t).name = t
    /\ \A n \in ElementName :
        LET d == createDocumentByName(r, n)
        IN  d # NULL => d \in SchemaType /\ d.documentElementName = n

(* No name leaves a registry. *)
Grows(r, s) ==
    /\ \A t \in TypeName : createByName(r, t) # NULL => createByName(s, t) # NULL
    /\ \A n \in ElementName : createDocumentByName(r, n) # NULL => createDocumentByName(s, n) # NULL

(* What a call on an object asks for was there when it began. *)
Expects(o) ==
    LET st == createSubObject(o.before, o.type, o.name)
    IN  SubObjectReturns(o.before, o.type, o.name) /\ st # NULL /\ st # AnyType

Expected(o) == createSubObject(o.before, o.type, o.name)

(* A call looks for a document only where its type does not declare the    *)
(* element, and for a type only by the name that was there when it began.  *)
OnItsWay(o) ==
    o.type # NULL =>
        /\ o.name \in ElementName
        /\ o.pc = "findDocument" => o.type.elements[o.name] = NULL
        /\ o.pc = "findType" /\ Expects(o) =>
                createByName(o.before, o.wanted) # NULL /\ o.wanted = Expected(o).name
        /\ o.pc = "idle" /\ Expects(o) => o.result # NULL /\ o.result.name = Expected(o).name

(* What holds of a call while the registry is r. *)
CallOK(o, r) ==
    /\ Keyed(o.before)
    /\ Grows(o.before, r)
    /\ o.pc = "findType" => o.wanted \in TypeName
    /\ o.pc = "findDocument" => o.type # NULL
    /\ OnItsWay(o)

CallsInv ==
    /\ op \in [Client -> Op]
    /\ Keyed(registry)
    /\ \A c \in Client : CallOK(op[c], registry)

(* NothingIsLost is what CallOK says of a call that has ended. *)
LEMMA CallsInvSuffices == CallsInv => NothingIsLost
  BY DEF CallsInv, CallOK, OnItsWay, Expects, Expected, NothingIsLost

LEMMA InitCalls == Init => CallsInv
  <1> SUFFICES ASSUME Init PROVE CallsInv
    OBVIOUS
  <1>1. EmptyRegistry \in Registry
    BY DEF EmptyRegistry, Registry, TypeMap
  <1>2. NoCall \in Op
    BY <1>1, TypeSystemAssumption DEF NoCall, Op
  <1>3. Keyed(EmptyRegistry) /\ Grows(EmptyRegistry, EmptyRegistry)
    BY DEF EmptyRegistry, Keyed, Grows, createByName, createDocumentByName
  <1>4. ASSUME NEW c \in Client PROVE CallOK(op[c], registry)
    BY <1>3 DEF Init, NoCall, CallOK, OnItsWay
  <1> QED BY <1>2, <1>3, <1>4 DEF Init, CallsInv

(* A type and a document are entered under their own names. *)
LEMMA EnteringKeeps ==
    ASSUME NEW r \in Registry, NEW st \in SchemaType, Keyed(r)
    PROVE  /\ Keyed(withType(r, st)) /\ Grows(r, withType(r, st))
           /\ isDocumentType(st) => Keyed(withDocument(r, st)) /\ Grows(r, withDocument(r, st))
  <1>1. /\ st # NULL /\ st.name \in TypeName
        /\ r.typeCreators \in [TypeName -> SchemaType \cup {NULL}]
        /\ r.documentTypeCreators \in [ElementName -> SchemaType \cup {NULL}]
    BY SchemaTypesAssumption DEF Registry, TypeMap
  <1>2. \A t \in TypeName : createByName(withType(r, st), t) = IF t = st.name THEN st ELSE createByName(r, t)
    BY <1>1 DEF withType, createByName
  <1>3. \A n \in ElementName : createDocumentByName(withType(r, st), n) = createDocumentByName(r, n)
    BY WithType
  <1>4. Keyed(withType(r, st)) /\ Grows(r, withType(r, st))
    BY <1>1, <1>2, <1>3 DEF Keyed, Grows
  <1>5. ASSUME isDocumentType(st)
        PROVE  Keyed(withDocument(r, st)) /\ Grows(r, withDocument(r, st))
    <2>1. /\ \A t \in TypeName : createByName(withDocument(r, st), t) = createByName(r, t)
          /\ \A n \in ElementName :
                createDocumentByName(withDocument(r, st), n) =
                    IF n = st.documentElementName THEN st ELSE createDocumentByName(r, n)
      BY <1>5, WithDocument
    <2> QED BY <1>1, <2>1 DEF Keyed, Grows
  <1> QED BY <1>4, <1>5

(* A library's step: the calls are as they were, and the registry grows. *)
LEMMA LoadCalls ==
    ASSUME CallsInv, UNCHANGED op, Keyed(registry'), Grows(registry, registry')
    PROVE  CallsInv'
  <1>1. ASSUME NEW c \in Client PROVE CallOK(op[c], registry')
    <2>1. CallOK(op[c], registry)
      BY DEF CallsInv
    <2>2. Grows(op[c].before, registry')
      BY <2>1 DEF CallOK, Grows
    <2> QED BY <2>1, <2>2 DEF CallOK
  <1> QED BY <1>1 DEF CallsInv

(* A client's step leaves the registry, the libraries and the other clients. *)
LEMMA ClientCalls ==
    ASSUME CallsInv, NEW c \in Client, NEW o \in Op,
           UNCHANGED registry, op' = [op EXCEPT ![c] = o],
           CallOK(o, registry)
    PROVE  CallsInv'
  <1>1. op' \in [Client -> Op] /\ op'[c] = o /\ \A d \in Client \ {c} : op'[d] = op[d]
    BY DEF CallsInv
  <1> QED BY <1>1 DEF CallsInv

LEMMA BeginCalls ==
    ASSUME IInv, CallsInv, NEW c \in Client, beginSubObject(c) \/ beginByName(c)
    PROVE  CallsInv'
  <1>1. /\ registry \in Registry
        /\ op[c] \in Op
        /\ Keyed(registry) /\ Grows(registry, registry)
    BY DEF IInv, RegistryOK, CallsInv, Grows
  <1>2. CASE beginSubObject(c)
    <2>1. PICK st \in SchemaType, n \in Asked : Call(c, st, n, Step(st, n))
      BY <1>2 DEF beginSubObject
    <2> DEFINE o == [pc |-> Step(st, n).pc, wanted |-> Step(st, n).wanted, type |-> st, name |-> n,
                     result |-> NULL, before |-> registry, calls |-> op[c].calls + 1]
    <2>2. op' = [op EXCEPT ![c] = o] /\ UNCHANGED registry
      BY <2>1 DEF Call
    <2>3. n \in ElementName /\ st.elements[n] \in TypeName \cup {NULL} /\ st # NULL
      BY TypeSystemAssumption, SchemaTypesAssumption
    <2>4. o \in Op
      BY <1>1, <2>1, <2>3, TypeSystemAssumption DEF Call, Idle, Op, Step
    <2>5. OnItsWay(o)
      <3>1. CASE st.elements[n] # NULL
        <4>1. o.pc = "findType" /\ o.wanted = st.elements[n] /\ Expected(o) = createByName(registry, st.elements[n])
          BY <3>1 DEF Step, Expected, createSubObject
        <4>2. Expects(o) => Expected(o) # NULL
          BY DEF Expects, Expected
        <4> QED BY <1>1, <2>3, <3>1, <4>1, <4>2 DEF OnItsWay, Keyed
      <3>2. CASE st.elements[n] = NULL
        BY <2>3, <3>2 DEF OnItsWay, Step
      <3> QED BY <3>1, <3>2
    <2>6. CallOK(o, registry)
      <3>1. o.pc = "findType" => o.wanted \in TypeName
        BY <2>3 DEF Step
      <3>2. o.before = registry /\ o.type # NULL
        BY <2>3
      <3> QED BY <1>1, <2>5, <3>1, <3>2 DEF CallOK
    <2> HIDE DEF o
    <2> QED BY <2>2, <2>4, <2>6, ClientCalls
  <1>3. CASE beginByName(c)
    <2>1. PICK t \in TypeName : Call(c, NULL, NULL, [pc |-> "findType", wanted |-> t])
      BY <1>3 DEF beginByName
    <2> DEFINE o == [pc |-> "findType", wanted |-> t, type |-> NULL, name |-> NULL,
                     result |-> NULL, before |-> registry, calls |-> op[c].calls + 1]
    <2>2. op' = [op EXCEPT ![c] = o] /\ UNCHANGED registry
      BY <2>1 DEF Call
    <2>3. o \in Op
      BY <1>1, <2>1, TypeSystemAssumption DEF Call, Idle, Op
    <2>4. CallOK(o, registry)
      BY <1>1 DEF CallOK, OnItsWay
    <2> HIDE DEF o
    <2> QED BY <2>2, <2>3, <2>4, ClientCalls
  <1> QED BY <1>2, <1>3

(* The document type of an element that is there now declares its root as the *)
(* one that was there when the call began: one may have replaced the other,   *)
(* but both are of the same schema.                                           *)
LEMMA FindDocumentCalls ==
    ASSUME IInv, CallsInv, NEW c \in Client, findDocument(c)
    PROVE  CallsInv'
  <1> DEFINE o == op[c]
             d == createDocumentByName(registry, o.name)
             step == Step(d, d.documentElementName)
             found == IF d = NULL THEN [o EXCEPT !.pc = "idle", !.result = AnyType]
                                  ELSE [o EXCEPT !.pc = step.pc, !.wanted = step.wanted]
  <1>1. /\ o \in Op /\ o.pc = "findDocument"
        /\ registry \in Registry
        /\ Keyed(registry) /\ CallOK(o, registry)
    BY DEF findDocument, IInv, RegistryOK, CallsInv
  <1>2. op' = [op EXCEPT ![c] = found] /\ UNCHANGED registry
    BY DEF findDocument, Return
  <1>4. o.type \in SchemaType /\ o.name \in ElementName /\ o.type.elements[o.name] = NULL
    BY <1>1 DEF CallOK, OnItsWay, Op
  <1>5. d # NULL => d \in SchemaType /\ d.documentElementName = o.name
    BY <1>1, <1>4 DEF Keyed
  <1>6. d = NULL => ~Expects(o)
    BY <1>1, <1>4, <1>5 DEF Expects, createSubObject, CallOK, Grows
  <1>7. ASSUME d # NULL, Expects(o)
        PROVE  /\ d.elements[o.name] # NULL
               /\ createByName(o.before, d.elements[o.name]) # NULL
               /\ Expected(o).name = d.elements[o.name]
    <2> DEFINE was == createDocumentByName(o.before, o.name)
    <2>1. was # NULL /\ was.elements[o.name] # NULL
      BY <1>4, <1>7 DEF Expects, SubObjectReturns, createSubObject
    <2>2. was \in SchemaType /\ was.documentElementName = o.name
      BY <1>1, <1>4, <2>1 DEF CallOK, Keyed
    <2>3. was.elements[o.name] = d.elements[o.name]
      BY <1>4, <1>5, <1>7, <2>2, SchemasAgree, SchemaTypesAssumption
    <2>4. Expected(o) = createByName(o.before, d.elements[o.name]) /\ Expected(o) # NULL
      BY <1>4, <1>7, <2>1, <2>3 DEF Expects, Expected, createSubObject
    <2>5. d.elements[o.name] \in TypeName
      BY <1>4, <1>5, <1>7, <2>1, <2>3, SchemaTypesAssumption
    <2> QED BY <1>1, <2>1, <2>3, <2>4, <2>5 DEF CallOK, Keyed
  <1>8. CASE d = NULL
    <2> DEFINE r == [o EXCEPT !.pc = "idle", !.result = AnyType]
    <2>1. /\ r \in Op
          /\ r.pc = "idle" /\ r.before = o.before /\ r.type = o.type /\ r.name = o.name
      BY <1>1, SchemaTypesAssumption DEF Op
    <2>2. op' = [op EXCEPT ![c] = r]
      BY <1>2, <1>8
    <2> HIDE DEF r
    <2>3. ~Expects(r)
      BY <1>6, <1>8, <2>1 DEF Expects
    <2>4. OnItsWay(r)
      BY <1>4, <2>1, <2>3 DEF OnItsWay
    <2>5. CallOK(r, registry)
      BY <1>1, <2>1, <2>4 DEF CallOK
    <2> QED BY <1>2, <2>1, <2>2, <2>5, ClientCalls
  <1>9. CASE d # NULL
    <2> DEFINE r == [o EXCEPT !.pc = step.pc, !.wanted = step.wanted]
    <2>1. step \in [pc : {"findType", "findDocument"}, wanted : TypeName \cup {NULL}]
      BY <1>4, <1>5, <1>9, SchemaTypesAssumption DEF Step
    <2>2. /\ r \in Op
          /\ r.pc = step.pc /\ r.wanted = step.wanted
          /\ r.before = o.before /\ r.type = o.type /\ r.name = o.name
      BY <1>1, <2>1 DEF Op
    <2>3. op' = [op EXCEPT ![c] = r]
      BY <1>2, <1>9
    <2>4. /\ step.pc = "findType" => step.wanted = d.elements[o.name] /\ step.wanted # NULL
          /\ step.pc = "findDocument" => d.elements[o.name] = NULL
      BY <1>4, <1>5, <1>9, SchemaTypesAssumption DEF Step
    <2> HIDE DEF r, step, d
    <2>5. Expects(r) = Expects(o) /\ Expected(r) = Expected(o)
      BY <2>2 DEF Expects, Expected
    <2>6. OnItsWay(r)
      BY <1>4, <1>7, <1>9, <2>1, <2>2, <2>4, <2>5 DEF OnItsWay
    <2>7. CallOK(r, registry)
      BY <1>1, <1>4, <2>1, <2>2, <2>4, <2>6, SchemaTypesAssumption DEF CallOK
    <2> QED BY <1>2, <2>2, <2>3, <2>7, ClientCalls
  <1> QED BY <1>8, <1>9

(* A name that was registered when the call began is still, by that name. *)
LEMMA FindTypeCalls ==
    ASSUME IInv, CallsInv, NEW c \in Client, findType(c)
    PROVE  CallsInv'
  <1> DEFINE o  == op[c]
             st == createByName(registry, o.wanted)
             r  == [o EXCEPT !.pc = "idle", !.result = st]
  <1>1. /\ o \in Op /\ o.pc = "findType"
        /\ registry \in Registry
        /\ Keyed(registry) /\ CallOK(o, registry)
    BY DEF findType, IInv, RegistryOK, CallsInv
  <1>2. o.wanted \in TypeName /\ st \in SchemaType \cup {NULL}
    BY <1>1 DEF CallOK, Registry, TypeMap, createByName
  <1>3. op' = [op EXCEPT ![c] = r] /\ UNCHANGED registry
    BY DEF findType, Return
  <1>4. /\ r \in Op
        /\ r.pc = "idle" /\ r.result = st
        /\ r.before = o.before /\ r.type = o.type /\ r.name = o.name
    BY <1>1, <1>2 DEF Op
  <1>5. o.type # NULL => o.name \in ElementName
    BY <1>1 DEF CallOK, OnItsWay
  <1>6. ASSUME o.type # NULL, Expects(o)
        PROVE  st # NULL /\ st.name = Expected(o).name
    <2>1. createByName(o.before, o.wanted) # NULL /\ o.wanted = Expected(o).name
      BY <1>1, <1>6 DEF CallOK, OnItsWay
    <2> QED BY <1>1, <1>2, <2>1 DEF CallOK, Grows, Keyed
  <1> HIDE DEF r, st
  <1>7. OnItsWay(r)
    BY <1>4, <1>5, <1>6 DEF OnItsWay, Expects, Expected
  <1>8. CallOK(r, registry)
    BY <1>1, <1>4, <1>7 DEF CallOK
  <1> QED BY <1>3, <1>4, <1>8, ClientCalls

LEMMA NextCalls == IInv /\ CallsInv /\ [Next]_vars => CallsInv'
  <1> SUFFICES ASSUME IInv, CallsInv, [Next]_vars PROVE CallsInv'
    OBVIOUS
  <1>1. registry \in Registry /\ Keyed(registry) /\ Grows(registry, registry)
    BY DEF IInv, RegistryOK, CallsInv, Grows
  <1>2. ASSUME NEW l \in Library, Load(l) PROVE CallsInv'
    <2>1. CASE addType(l)
      <3>1. Current(l) \in SchemaType
        BY <2>1, CurrentIsType DEF addType, IInv
      <3> QED BY <1>1, <2>1, <3>1, EnteringKeeps, LoadCalls DEF addType
    <2>2. CASE addDocumentType(l)
      <3>1. Current(l) \in SchemaType
        BY <2>2, CurrentIsType DEF addDocumentType, IInv
      <3> QED BY <1>1, <2>2, <3>1, EnteringKeeps, LoadCalls DEF addDocumentType
    <2>3. CASE addDocument(l)
      <3>1. Current(l) \in SchemaType /\ isDocumentType(Current(l))
        BY <2>3, CurrentIsType DEF addDocument, IInv, HalfIsType
      <3> QED BY <1>1, <2>3, <3>1, EnteringKeeps, LoadCalls DEF addDocument
    <2> QED BY <1>2, <2>1, <2>2, <2>3 DEF Load
  <1>3. ASSUME NEW c \in Client, beginSubObject(c) \/ beginByName(c) \/ Answer(c) PROVE CallsInv'
    BY <1>3, BeginCalls, FindDocumentCalls, FindTypeCalls DEF Answer
  <1>4. CASE UNCHANGED vars
    BY <1>1, <1>4, LoadCalls DEF vars
  <1> QED BY <1>2, <1>3, <1>4 DEF Next

(* A call that began when all it needs was registered gets a type of the name *)
(* it would have got then, whatever libraries register between its two looks  *)
(* at the registry (SchemaType.cpp:43).                                       *)
THEOREM NothingIsLostEver == Spec => []NothingIsLost
  <1>1. Init => IInv /\ CallsInv
    BY InitInv, InitCalls
  <1>2. IInv /\ CallsInv /\ [Next]_vars => IInv' /\ CallsInv'
    BY NextInv, NextCalls
  <1>3. CallsInv => NothingIsLost
    BY CallsInvSuffices
  <1> QED BY <1>1, <1>2, <1>3, PTL DEF Spec
=============================================================================
