-------------------------- MODULE SaxParserGrammars --------------------------
(***************************************************************************)
(* A SAX parser and its grammars.  The grammars share nothing with the     *)
(* documents but the answer whether one is valid (documentThrows), so a    *)
(* behaviour is of the documents or of the grammars.                       *)
(***************************************************************************)
EXTENDS SaxParser

CONSTANT MaxObjects  \* bound: objects libxml2 makes in all

ASSUME GrammarsAssumption == MaxObjects \in Nat

VARIABLES part, parser, reloaded, life

grammarVars == <<parser, reloaded, life>>

G == INSTANCE Grammars WITH phase <- life

PartInit == part \in {"documents", "grammars"} /\ Init /\ G!init

PartNext ==
    \/ part = "documents" /\ Next /\ UNCHANGED <<part, grammarVars>>
    \/ part = "grammars" /\ G!Next /\ UNCHANGED <<part, vars>>

PartSpec == PartInit /\ [][PartNext]_<<part, vars, grammarVars>>

-----------------------------------------------------------------------------
(* Properties *)

(* No pointer dangles, validation is with the schema that is kept, and only *)
(* a client that loads without unloading leaks, wherever a load fails.      *)
GrammarsAreOwned == G!TypeOK /\ G!ValidatorHasItsSchema /\ G!OnlyReloadingLeaks
=============================================================================
