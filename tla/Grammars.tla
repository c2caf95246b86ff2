------------------------------ MODULE Grammars ------------------------------
(***************************************************************************)
(* The grammar of a LibXMLParser (LibXMLParser.cpp): what libxml2 objects  *)
(* its four pointers hold, and which libxml2 has made and not been told to *)
(* free.  Objects are numbered as they are made; the null pointer is 0.    *)
(***************************************************************************)
EXTENDS Integers, Sequences

CONSTANT MaxObjects  \* bound: objects made in all

VARIABLES
    parser,     \* the pointers; live: objects not freed; made: what each was made from
    reloaded,   \* a grammar was loaded while pointers were not null
    phase       \* "alive" or "destroyed"

vars == <<parser, reloaded, phase>>

Null == 0

Pointer == {"schemaParserCtxt", "schema", "validationCtxt", "schemaPlug"}

Holds(g) == {g[f] : f \in Pointer} \ {Null}

TypeOK ==
    /\ \A f \in Pointer : parser[f] \in {Null} \cup parser.live
    /\ Len(parser.made) <= MaxObjects
    /\ parser.live \subseteq DOMAIN parser.made
    /\ reloaded \in BOOLEAN /\ phase \in {"alive", "destroyed"}

-----------------------------------------------------------------------------

(* Mutant: the schema is forgotten and not freed. *)
unloadedButSchema(g) ==
    [schemaParserCtxt |-> Null, schema |-> Null, validationCtxt |-> Null, schemaPlug |-> Null,
     live |-> g.live \ {g.schemaParserCtxt, g.validationCtxt, g.schemaPlug}, made |-> g.made]

(* unloadGrammars: every object that a pointer holds is freed. *)
unloaded(g) ==
    [schemaParserCtxt |-> Null, schema |-> Null, validationCtxt |-> Null, schemaPlug |-> Null,
     live |-> g.live \ Holds(g), made |-> g.made]

(* The next object, and making it from another. *)
newObject(g) == Len(g.made) + 1

making(g, from) ==
    [g EXCEPT !.live = @ \cup {newObject(g)}, !.made = Append(@, from)]

(* The calls of loadGrammar that can fail, in their order. *)
Outcome == {"no context", "no schema", "no validation", "loaded"}

(* A grammar that is loaded is unloaded if it is plugged in; the code that *)
(* plugs one in is commented out.  What a pointer held is overwritten.     *)
loading(g, outcome) ==
    LET start     == IF g.schemaPlug # Null THEN unloaded(g) ELSE g
        context   == [making(start, Null) EXCEPT !.schemaParserCtxt = newObject(start)]
        schema    == [making(context, context.schemaParserCtxt) EXCEPT !.schema = newObject(context)]
        validator == [making(schema, schema.schema) EXCEPT !.validationCtxt = newObject(schema)]
    IN  CASE outcome = "no context"    -> [start EXCEPT !.schemaParserCtxt = Null]
          [] outcome = "no schema"     -> unloaded([context EXCEPT !.schema = Null])
          [] outcome = "no validation" -> unloaded([schema EXCEPT !.validationCtxt = Null])
          [] outcome = "loaded"        -> validator

-----------------------------------------------------------------------------

init ==
    /\ parser = [schemaParserCtxt |-> Null, schema |-> Null, validationCtxt |-> Null,
                 schemaPlug |-> Null, live |-> {}, made |-> << >>]
    /\ reloaded = FALSE
    /\ phase = "alive"

loadGrammar(outcome) ==
    /\ phase = "alive"
    /\ Len(parser.made) + 3 <= MaxObjects
    /\ parser' = loading(parser, outcome)
    /\ reloaded' = (reloaded \/ Holds(parser) # {})
    /\ UNCHANGED phase

unloadGrammars ==
    /\ phase = "alive"
    /\ parser' = unloaded(parser)
    /\ UNCHANGED <<reloaded, phase>>

destroy ==
    /\ phase = "alive"
    /\ parser' = unloaded(parser)
    /\ phase' = "destroyed"
    /\ UNCHANGED reloaded

Next ==
    \/ \E outcome \in Outcome : loadGrammar(outcome)
    \/ unloadGrammars
    \/ destroy

Spec == init /\ [][Next]_vars

-----------------------------------------------------------------------------
(* Properties *)

(* The validation context that the parser keeps was made from the schema it  *)
(* keeps, and that is not freed: after a load that failed at any of its      *)
(* calls, too, parse never validates with a schema that is gone.             *)
ValidatorHasItsSchema ==
    parser.validationCtxt # Null =>
        /\ parser.schema = parser.made[parser.validationCtxt]
        /\ parser.schema \in parser.live

(* A client that unloads before it loads again leaks nothing, wherever a    *)
(* load fails.                                                              *)
OnlyReloadingLeaks == ~reloaded => parser.live = Holds(parser)
=============================================================================
