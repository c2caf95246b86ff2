----------------------------- MODULE TokenOrder -----------------------------
(***************************************************************************)
(* The document as a sequence of tokens, which are counted: the reference  *)
(* that the token moves of XmlCursor are compared to.                      *)
(***************************************************************************)
EXTENDS XmlCursor

(* The tokens of an element, if count gives those of the Contents of        *)
(* elements: the two around its own, or one if it has no Contents.          *)
TokensOf(e, count) == IF e.value \in Node THEN 2 + count[e.value] ELSE 1

(* The tokens of the elements of n up to each of them. *)
elementTokens(T, count, n) ==
    SumUpTo([i \in 1 .. Len(T.elems[n]) |-> TokensOf(T.elems[n][i], count)])

(* The tokens of each Contents, without the two around it. *)
tokens(T) ==
    LET count[n \in Node] ==
            Len(T.attrs[n]) + elementTokens(T, count, n)[Len(T.elems[n])]
    IN  count

(* The tokens of n in front of a position, and the steps made behind its end. *)
Before(T, count, n, pos) ==
    LET A == Len(T.attrs[n])
        B == Len(T.elems[n])
    IN  IF pos <= A THEN pos
        ELSE IF pos <= A + B THEN A + elementTokens(T, count, n)[pos - A]
        ELSE count[n] + (pos - A - B)

(* The tokens in front of a cursor; the start of the document has none. *)
InFront(T, count, c) ==
    IF c.pos < 0
    THEN c.pos + 1
    ELSE 1 + Before(T, count, c.contents, c.pos)
         + SumUpTo([i \in 1 .. Len(c.stack) |->
                       1 + Before(T, count, c.stack[i].contents, c.stack[i].pos)])[Len(c.stack)]

(* Wherever the moves and edits before left the cursor, toNextToken goes to    *)
(* the next token of the document, in front of, inside and behind every        *)
(* element, and behind the document it stays there; toPrevToken goes to the    *)
(* token before. XmlCursorTest walks a document to its end and back and        *)
(* expects the tokens in reverse.                                              *)
TokensInOrder ==
    LET count      == tokens(tree)
        inFront(c) == InFront(tree, count, c)
    IN  /\ inFront(toNextToken(tree, cursor)) =
               IF inFront(cursor) > count[Root] + 1 THEN count[Root] + 2 ELSE inFront(cursor) + 1
        /\ inFront(toPrevToken(tree, cursor)) = inFront(cursor) - 1
=============================================================================
