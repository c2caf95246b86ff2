# xmlbeansxx in TLA+

xmlbeansxx is a C++ library that binds XML to objects: a document is parsed into a
tree of `Contents`, read and changed through typed classes that a Java generator
derives from a schema, walked with a cursor, and written back as XML. This directory
models the parts of it that keep state, model-checks them, and proves some of their
properties for every size.

## The system

| part | state | operations | talks to |
|---|---|---|---|
| namespace context (`XmlContext.cpp`, `NSMap.cpp`) | prefix map, log of replaced links, stack of positions in the log | `addNamespace`, `remember`, `restore`, `getLastStoredLinks` | called by both parsers; base class of the serializer's `NSMapSerializer` |
| interned strings (`StoreString.cpp/.h`) | one table per process under a mutex; each `StoreString` is an index of it or a copy | `store`, constructors, assignment, `==`, `c_str` | every namespace, name and schema holds them |
| contents tree (`Contents.cpp`, `Dict.cpp`, `Walker.cpp`) | per object: an ordered dictionary of elements and one of attributes, under a recursive mutex | `setElem`, `appendElem`, `cgetElem`, `removeElems`, `setElemArray`, `setSimpleContent`, ... | parsers, cursor, generated classes, arrays, serializer |
| cursor (`XmlCursor.cpp`) | contents, position, stack of places | 18 moves, 8 edits | edits the dictionaries directly, without the mutex |
| serializer (`Serialize.cpp`, `NSMapSerializer`) | output, context, next generated prefix | `serialize` of an element, its attributes, its elements | contents tree, context, schema types |
| SAX parsers (`LibXMLParser.cpp`, `XercesParser.cpp`) | stack of open nodes, context | start, end, characters, `parse`, grammars | libxml2 / Xerces callbacks, type system, contents tree |
| type system (`TypeSystem.cpp`, `SchemaType.cpp`) | two registries from names to types | `addType`, `createByName`, `createSubObject` | static constructors of generated code register; parsers look up |
| calendar and duration (`Calendar.cpp`) | broken-down time, offset, flags of the fields present | setters, texts, `operator+` and `-`, printing | simple types |
| queries (`Query.cpp`, `XmlObjectXpaths.cpp`) | the declared prefixes of a path | `query`, `cquery`, `selectPath` | contents tree, namespace map |
| simple types (`XmlTypesGen.xcpp`), texts (`TextUtils.cpp`) | the text of an object | setters and getters of numbers, checks, base64 | contents tree, GMP |
| arrays, exceptions, logging | none of their own | calls of `Walker` | contents tree |
| generator (Java) | type graph, output files and their namespace depth | order the types, print the classes | schema compiler |

What is hard in this code:

* **Concurrency.** Each method of `Contents` and of the string table is locked, but
  `Walker` and `StoreString::store` make several locked calls in a row. What threads
  do in between is where a test would hardly look.
* **Undo.** Scoping of prefixes is an undo log whose positions are pushed and popped
  by three different clients, each in an order of its own.
* **Positions.** The cursor keeps plain numbers into vectors that its own edits
  change, and enters and leaves elements in two directions.
* **Failure.** A parse may throw in the middle; the parser and the document live on.
* **Arithmetic.** Months, days and years in `applyDuration`.

## Plan

In order of importance. Done are the first eight, all but the generator of the tenth, and
the eleventh; the ninth is left.

1. `NSMap`, `XmlContext`, with `ScopeStack` as what it promises, and proofs.
2. `StringStorage` and proofs.
3. `ElemDict`, `DictLoops`, `Contents`, with `ElementLists` as what it promises.
4. `XmlCursor`, with `TokenOrder` as the reference of its token moves.
5. `Serializer`: composes two `XmlContext`; the start tag is written step by step, and
   the parser resolves what was written.
6. `SaxParser`: composes `XmlContext`, the stack of nodes, the types and a tree; a parse
   that throws, then another. `Grammars`, and `SaxParserGrammars` of both.
7. `Calendar`, `Duration`, `CalendarSum`: texts and sums against reference dates.
8. `SchemaTypes`, `TypeSystem`: libraries that register while others look up, with a proof.
9. Two cursors on one tree; attributes; `clone`; the order in which `serializeElems`
   sorts elements.
10. `Query`, `XPath`, `Glob`, `Texts`, `SimpleTypes` (done); `Graph`, `Output`, `Input` of
    the generator.
11. Proofs: of all modules whose properties are about steps (1 to 6, and 8).

Runs stay near a million states, and each ends within a minute or two: two or three
threads, two or three prefixes, texts or contents, and bounds that let every log, list
and stack be grown, shrunk and grown again. Theorems are stated for all of them.

## Modules

### `NSMap`, `XmlContextCalls`, `XmlContext` (`ScopeStack`, `SharedLemmas`, `XmlContextProofs`)

The prefix map is a function to URIs or `Unset`. A context is the record of the
class's three fields, and each method an operator on it, so that the handlers of the
parser and the serializer, which call several, can compose them: `XmlContextCalls` has
these operators, and the specifications of the context, the serializer and the parsers
extend it. `SharedLemmas` proves what they do to the log and to the scopes that are open,
beside facts about sequences and sums that several proofs need. In `XmlContext` a client
makes any sequence of the three calls; `restore` is called only for a `remember` of the
client's own, as all three clients do, so the two positions of the constructor stay.

`restore` is not its loop in `XmlContextCalls`: `UndoneTo` says that the earliest link of a
prefix is what the loop leaves. `XmlContext` has the loop as written too (`undoLast`,
`undoing`, `undoLoop`), and the two are compared in every state and proved equal.

`ScopeStack` is the promise: declarations are scoped, and closing a scope reinstates
the bindings the surrounding content started with. No variable of `XmlContext` holds
the saved bindings; the refinement mapping reads them off the log. An unset prefix
counts as bound to the empty URI in it, because that is what undoing leaves.

### `StringStorage` (`StringStorageProofs`)

Threads call `store`, the constructor and assignment on variables of their own. The
step of a call that holds the mutex is an action: `addCheck`, `addInsert` and `get`
are the three lock regions of `store`. `addInsert` keeps an index that is there
(`std::map::insert`) and appends to the table regardless, as the code does.

### `ElemDict`, `DictLoops`, `Contents` (`MCContents`, `ElementLists`, `ContentsProofs`)

`ElemDict` gives the loops of `Dict.cpp` as operators on sequences; `DictLoops` has the
loops, with their indexes, and `Contents` compares the two. In `Contents` a call of
`Walker` that makes several locked calls has a program counter and a step per lock region.
Threads use the elements of any names, the same ones too, and all of them set the text. Two
appends to one name may overwrite each other; the history variable `disturbed` has the
threads whose list another one changed since they counted it (or, in `setElemArray`, since
they began), and `CallsAreUndisturbed` is about every call that is not among them: only a
change of the very list it works on may keep a call from doing what it promises.
`ElementLists` is a list with holes per name: the one dictionary that keeps all names in one
order implements it, whatever the threads share. Its lists and indexes have no bound.

### `XmlCursor`, `TokenOrder` (`Sublists`, `SharedLemmas`, `XmlCursorProofs`)

A heap of `Contents`, each with attributes and elements, and one cursor. A move is an
operator from cursor to cursor, false return or not; `toNextToken` entering contents,
`toPrevToken` entering from behind, and edits that share contents between elements are
all there: `insertElement` takes any contents, of an element anywhere in the document or
removed from it, but those that the Contents around the cursor are in, which would make the
document endless (`Elsewhere`). What the cursor should see is in `TokenOrder`: `tokens` counts the tokens of
each subtree, `Before` those of a Contents in front of one of its positions, and `InFront`
adds these up along the stack, so it is the number of the cursor's token in the document.

### `Serializer` (`MCSerializer`, `SerializerProofs`)

The writer and the parser of what it writes, each with a context of its own that the
operators of `XmlContextCalls` change. `Contents::serialize` calls the context between
printing one name and the next, so each of those calls is an action: the element
begins, its namespace attributes are added, its name is printed, then `xsi:type` and
attributes, then the declarations. When the tag is complete the parser's
`startElementNs` adds the declarations and resolves the names; `endElementNs` goes with
the writer's restores. A tree is not kept: what comes next is any element, attribute or
type, so every tree within the bounds is written. A document may follow another with a
new writer and the same parser.

Two restrictions on trees are stated in the module. `Agrees`: a start tag does not ask
for one prefix with two URIs. `NamesResolve` leaves out two names that the code prints
ambiguously. All three are listed as hazards.

### `SchemaTypes`, `TypeSystem` (`MCTypeSystem`, `TypeSystemProofs`)

`SchemaTypes` has the registry as a record of two maps and what lookups in it return;
`SaxParser` uses it with types loaded before. In `TypeSystem` libraries, each in a
thread of its own, run the static constructors of generated code, and clients call
`createSubObject` and `createByName`. Each lock region is a step: `addDocumentType`
registers the type and then the document, and `createSubObject` looks for the document
and then for the type, so a library may register in between. `createSubObject` calls
itself for a document type; the model keeps the call it is in, so a call that never ends
is a cycle of states. `NothingIsLost` relates an answer to what was registered when the
call began.

### `SaxParser`, `Grammars`, `SaxParserGrammars` (`MCSaxParser`, `SaxParserProofs`)

`SaxParser` has both parsers, by the value of `library`: `LibXMLParser` resolves names
with its own context and `XercesParser` takes the library's, while values (`xsi:type`)
always go through the context. The document is what the library delivers: any start
tag within the bounds, with a prefix, declarations, attributes of which one may be
`xsi:type` and one `xsi:array`, a text, and an end, or an error anywhere. The local names
of a tag's attributes differ, which is a bound. The tree that is built and the
document that was delivered are separate variables, and `TreeIsDocument` compares them
by the rules of XML namespaces. A start tag that throws is one of three actions by the
place where it does, each with what had been done: `parse` resets the stack of nodes at
its next call but neither the context nor the object.

Xerces reports prefixes that are not in scope as errors; libxml2 goes on without the
SAX error stopping the callbacks, so `MayStart` lets such a tag through only for it.

`Grammars` is the pointers of `LibXMLParser` and the objects they point to, with
each call of `loadGrammar` that may fail. `SaxParserGrammars` puts it beside the documents:
a behaviour is of the one or of the other, named by `part`, as they share nothing but an
answer.

### `CalendarDates`, `Calendar`, `Duration`, `CalendarSum` (`MCValues`)

`CalendarDates` is `isLeapYear`, `maximumDayInMonth` and boost's dates as day numbers.
A calendar is a record with `None` for parts without flag. A text is not spelled out: it
is its form, its numbers, its zone, and whether its numbers are filled to two digits;
from that the model computes where its `-` stand, which is what the code looks at. The
properties compare with what the calendar says (an instant, or parts), never with the
algorithm. In `Duration` a text is the sequence of items it has, since the constructor
finds each by its letter. `CalendarSum` starts from calendars at the ends of months and
compares with `SchemaSum`, the sum that XML Schema defines: years and months first, the day
cut down to the month they lead to, then the days and the time. The code adds the time and
the days first; `OrderIsTheSame` says of which sums that makes no difference, and
`MonthsAreAdded` is about those. Where years and months are missing there is one order, and
`DaysAreExact` has no such condition. Both leave out the sums in December, and those of
milliseconds with milliseconds, where the code takes the calendar's for microseconds.

`timeZoneGuess` gives some local offset, as the machine is set; `frac_sec` of a sum that
has no fraction is whatever `Leftover` offers.

### `Glob`, `XPath`, `Query` (`MCSelection`)

`Glob` is the matching of a name with a pattern by the parts between the stars, compared
with what a star means. `XPath` takes a document, declares prefixes and takes the steps
of a path one by one. URIs, prefixes and local names are sequences of characters, since the
code makes one text of URI, colon and local name and looks for a pattern in it. What should
be selected is defined by namespaces, not by texts (`Names`); what the texts add and what
they hide is named beside it (`IsContinued`, `IsHidden`), and `SelectsWhatIsNamed` says that
there is nothing else. The code indexes the matches without a bound, which is undefined: the
phase `undefined` is left by no step. `Query` calls `query` and `cquery` in any order on an
object whose elements may be null; an attribute that is missing has the empty text, a text
that the type of its element refuses throws, and the creator that a client passes leaves the
criterion met or not.

### `Texts`, `SimpleTypes` (`MCValues`)

`Texts` gives the functions on sequences of characters and of bytes that `TextUtils` has
(white space, checks, base64 with the canonical text of what may hold white space).
`SimpleTypes` is an object of class `XmlDecimal` or `XmlInteger`, set by text and by number and
read by the getters of every width, in the build with GMP and in the one without (`Builds`; the run has the former).
GMP takes an integer with a leading zero for an octal (`Base`).
Widths are those of the configuration, with the comparisons of the code.

`MCValues` and `MCSelection` are sums: the modules they instantiate share no state, so a
behaviour is one of them, named by `part`, and the others stay where they begin. Their
properties are conjunctions of what the modules promise, and the assumptions of the
instances on their constants are asserted in `MCValues`. What the functions of `Texts`
should return is defined in `MCValues`, what a star means in `Glob`.

## Runs

| run | shows | bounds, and why they suffice |
|---|---|---|
| `xml_context` | types, order of positions, every change is in the stored links, loop = operator, refinement of `ScopeStack` | 3 prefixes, 3 URIs, 4 links, 5 positions: a prefix rebound three times in nested scopes |
| `string_storage` | indexes are places, equality by index is equality of texts, texts never change, indexes never change; `store` ends with an index (liveness) | 2 threads, 2 variables, 3 texts: both threads insert one text, both variables of a pair compare across threads |
| `string_storage_once` | **violation**: "so it won't be allocated several times" | 2 threads, one variable, 2 texts |
| `contents` | a call of several locked regions ends with what was asked for unless another thread changed the list of its name meanwhile, one text, loops = operators, refinement of `ElementLists` | 2 threads, 2 names that both use and the text, 2 values, no call that may add begins with 3 elements or beside one that is to store at index 3, arrays to 2, indexes to 1; threads, names and values are interchangeable |
| `xml_cursor` | the stack is a path, next is next and previous is previous, moving to the next sibling and back returns to where one was | 3 contents, nested and shared in every way that is not endless, of 3 elements and an attribute each, 4 elements in all: a text lies between two elements |
| `serializer` | names resolve, scopes agree, declarations are legal | the empty prefix and 2 that documents use and the writer generates, 2 URIs and the empty one, elements nested twice, 4 names and declarations per tag: one tag clears, declares, rebinds, finds and generates, and generating skips prefixes in use |
| `sax_parser` | the stack is a path and the context is the scope until a parse fails, the tree is the document, types are those of `xsi:type` or of the parent; the validator's schema is live and only reloading leaks | a first document of up to 3 elements, nested or not, with a text, and after one of up to 2 another of up to 2, into the same object or another, the first perhaps given up; 3 prefixes of which one is kept, 3 namespaces, tags with `xsi:type` beside another attribute and with `xsi:array` before and behind it, types with elements, text and both, and an element declared with a type that is not registered; 9 objects of grammars: two loads in full and a third begun |
| `sax_parser_reuse` | **violation**: a failed document's declarations reach the next one | documents of 2 elements and 1 |
| `type_system` | documents are types, nothing found is lost, every call returns (liveness) | 2 libraries with types of the same names, 1 client, 2 calls |
| `values` | dates are valid unless a call threw; what a calendar or a duration prints is read, or refused, never misread, but for the exceptions below; days and time are added exactly but into December, and years and months as XML Schema says where the order of adding them and the days makes no difference; base64 comes back and is canonical, `collapse` trims, decimals are numbers; numbers are exact or refused, but that leading zeros make octals | dates: years 5, 2004 and one beyond 16 bits, months 2, 12, 13, days 9, 29 and 30, 24:60:60, offsets -5:30 and -0:30, a local one of +2, any sequence of calls. Durations: each part absent, 0 or 5, either sign. Sums: 6 dates, at the ends of months and in December, with or without time and fraction, and one whose milliseconds are taken from, years to 1, months to 25, 2 days, 33 hours; one sum, as a sum is a calendar again. Texts: every one of 5 characters of 7, every 5 bytes of 5: all remainders modulo 3. Numbers: texts of 3 characters of 7, leading zeros before octal and other digits among them; byte, short, int and long of 9, 15, 31 and 63 numbers, so that the texts cross each limit |
| `calendar_sum_hours` | **violation** of what `Calendar.cpp:1425` says it fixes: 33 hours added in December 2003, which do not lead out of it, are answered in January 2004 | the sums of `values` |
| `selection` | every match is one, and what is missed is missed because the last part occurs twice; paths select what they name, but for URIs that continue the named one or hide a local name, in document order, positions count from 0; a query's result is the first that meets the criterion or an exception before it, and what `cquery` made is found again | every name and pattern of 2 letters up to length 5; documents of up to 5 nodes, attributes and null elements among them, names of no URI, of one, and of one that continues it with a colon and a local name, 2 steps, positions 0 and 1; up to 2 elements, appended or made by `cquery`, without the attribute too, and every operator, nested |

Fairness is assumed in two runs. In `string_storage` a thread inside a call goes on,
which the mutex and the operating system's scheduler give, as no region waits for
anything but the mutex. In `type_system` a client inside a call goes on and a library
that has begun to load goes on, by the same argument: neither waits for the other.

Deadlock is not checked where the bounded system stops by itself: the sums, texts and
the like of `values` and `calendar_sum_hours`, the names, patterns and steps of
`selection` (undefined behaviour has no next step), the parses and grammars of
`sax_parser` and `sax_parser_reuse` (the parser is destroyed at last), the calls and
libraries of `type_system`. Everywhere else it is checked.

## Known deviations

Three runs show a disagreement of the code with its documentation or comments. While
modelling, others were met; the models have them as the code does, and the properties
state what holds beside them, naming the exception where one is needed.

| where | what |
|---|---|
| `XmlContext.h:47` | `restore` goes to the position under the last remembered one, not to it |
| `XmlCursor.cpp:355` | `toStartDoc` goes to position 0, which is the token after the start of the document |
| `Calendar.cpp:407` | `setgYear` refuses a year without a zone, which the comment above allows |
| `Calendar.cpp:224` | `setDate` takes a western zone for part of the date and drops it |
| `Calendar.cpp:264`, `:204` | an offset is stored hours first, so that the hours of a new one are refused beside the minutes of the old |
| `Calendar.cpp:849` | an unset offset is printed as `+00:00` while daylight saving is unknown |
| `Calendar.cpp:1091` | a duration with minutes and no months is misread, or refused |
| `Calendar.cpp:1441` | a month added to the last day of a month need not end in the last day, as `CalendarTest.cpp:318` expects |
| `Calendar.cpp:1389` | time and days are added before the months: 2004-02-29 and `P1M2D` is 2004-04-02, in XML Schema 2004-03-31 |
| `Calendar.cpp:1378` | the milliseconds of a calendar are taken for microseconds: half a second taken from 2003-01-29T00:00:00.600 leads to the 28th |
| `Calendar.cpp:1413` | a sum in December is answered in January of the next year |
| `SchemaType.cpp:49` | `createSubObject` of the empty element name never ends where a type has such a document |
| `XmlContext.cpp:53` | with libxml2 a prefix out of scope is read as the empty namespace where `NSMap.cpp:66` throws |
| `LibXMLParser.cpp:269` | a second `loadGrammar` leaks the schema of the first |
| `LibXMLParser.cpp:499` | `xsi:array` throws where the type that the parent declares is not registered, although an `xsi:type` behind it would give one |
| `Query.cpp:187` | an element without the attribute has it empty, so the attribute alone is a criterion that every element meets |
| `XmlObjectXpaths.cpp:177` | `p:*` also selects names whose URI continues the URI of `p` with a colon |
| `XmlObjectXpaths.cpp:177` | `*:a` misses names whose URI has `:a` in it |
| `XmlObjectXpaths.cpp:159` | a prefix that is not declared is taken for the URI itself |
| `CoreTypes.h:51` | the build with GMP reads an integer with a leading zero as an octal (`013` as 11), or refuses it (`08`) |
| `CoreTypes.h:69` | the build without GMP truncates numbers that are too large |

## Proofs

Each theorem is about all values of the constants that satisfy the assumptions named
beside them. Everywhere the argument is one inductive invariant, `IInv`, which TLC
checked on the bounds of the run before it was proved, and one lemma for each action. The
assumptions are the named ones of the modules; where they say more than that a bound is a
number or one value is not another, the code behind them is named below.

`XmlContextProofs`: `IInv` is the type, the order of the positions, and the fact that
the log's links hold URIs. `AddNamespaceKeepsScopes` and `RestoreKeepsScopes` say what
undoing to an inner position reads after a step; they carry `ScopesImplemented`,
which therefore holds for any number of prefixes and depth of nesting. The empty prefix
and URI are among the others and `Unset` is not: nothing else is assumed. `LoopUndoes`
says that `restore`'s loop, stopped at any position, leaves what `UndoneTo` says and the
log up to there; its invariant is that it has undone the links from the end so far.

`StringStorageProofs`: `IInv` strengthens `IndexIsPlace` with "what a variable holds
is an index of the table or a copy", and with "a text that a variable holds an index of
has that index". Equality, immutability and permanence follow, for any number of threads.

`TypeSystemProofs`: `DocumentsAreTypesAlways` and `NothingIsLostEver`, for any number of
libraries, clients and types, loading and asking in any order. The invariant adds that the
type of a library that is inside `addDocumentType` is registered already: this is what
the order of its two lock regions gives, and the mutant that swaps them breaks it. For
the answers it keeps what each call has seen between its lock regions (`CallsInv`). That
nothing is lost rests on `SchemasAgree`: document types of one root element agree on the
name of its type, as code generated of one schema does (`ClassGen.java:1485`).

`ContentsProofs`: the dictionary is seen as a list per name, `Values(d, u)`: the values of
the entries of `u` in their order. Each operator of `ElemDict` changes the list of one
name as `ElementLists` says and leaves the others (`ValuesSet`, `ValuesDel`,
`ValuesRemoveAt`), which gives `ListsImplemented` step by step. `IInv` adds to the types
that the list of the text is empty or one object, and `OnCourse` for each thread: between
`countElems` and `setElem` the index of the call is the length of the list, and in
`setElemArray` the list and the values still to be stored are the array. It is claimed of
the threads that are not `disturbed`, and it is inductive because a step of another thread
changes one list: if that is this thread's, the thread becomes disturbed (`LeavesOthers`, `Noted`). As
all set the text at 0, `OneTextAtMost` does not rest on who comes first.
`CallsAreNotDisturbed` follows. `LoopsAreOperators` is about `DictLoops`, for every
dictionary and number, negative ones included: the search keeps how many entries of the
name it has passed, and `del` keeps the entries that stay in front. Of the threads nothing
is assumed; the text's name is one, and null is no object.

`XmlCursorProofs`: Contents may be shared by several elements, so a tree is not a tree,
and an edit at the cursor must not change the Contents on the way to it. `IInv` says that
Contents can be ranked so that ranks grow from parent to child and along the stack: edits
touch only the cursor's own Contents, or new ones. An element that is inserted may have
contents of any rank; those it has and all that are in them are moved above the others,
which those around the cursor are not among (`ElsewhereIsAbove`). With it the places on the stack lead from the root to the cursor
(`StackIsTheWay`) after any moves and edits. `SiblingsReverse` says that
`toPrevSibling` takes back `toNextSibling`.

`TokensAreInOrder` needs two more facts (`TInv`). `Within`: a cursor in front of the
document has an empty stack, and behind the end of its Contents it is only outside of the
root. And only finitely many Contents have elements, as an edit gives them to two at most:
this bounds the ranks of those, so that the recursion in `tokens`, which follows the
elements of Contents that may be shared, has a solution (`TokensDefined`). The tokens in
front of the cursor are a sum along the stack, so a move that stays in its Contents changes
the last summand, and one that enters or leaves moves a summand from the cursor to the stack
or back. That `toNextToken` stops at the end of the document and nowhere else is
`AroundIsInRoot`: what is in front of a Contents and its own tokens are at most the root's.

`SerializerProofs`: between two tags the writer has two positions for each of the reader's
(one for the element and one for its content), and the scopes undone to are equal;
inside a tag the new prefixes are bound once, and every name that is printed means what
the map of the writer says. The reader declares exactly what the writer's links say
(`DeclaredBinds`), hence `Agreement`, `Resolution` and `Legality`. `TypeCorrectness` has
the one fact about numbers: a name and its type need at most two generated prefixes, and
the writer never comes out of them in the middle of a tag.

`SaxParserProofs`: the document that was delivered and the tree that is built are related
by `IInv` as long as no parse has failed. Elements are paths, numbered without gaps below
their parents, so the place where the handler appends is the place where the document
goes on (`TagPlace`). The remembered positions carry the scopes of the open elements
(`Follows`): a start tag puts its declarations on top (`ElementOpened`), an end tag goes
back (`ElementClosed`), and the stored links are the declarations of the tag alone since
the log ends at its last position before it (`LinksOfTag`). After a parse that threw only
types and the order of the log are left, and the stack, which is made new: the part of
`ParserFollowsDocument` that speaks of failed parses needs no more. It is assumed of the
types that a document type has the element it is registered for (`DocumentsHaveRoots`, as
generated code declares it), of start tags that they declare a prefix once and that the
local names of their attributes differ (`TagsAssumption`, a rule of XML and a bound), and of objects passed in that they are trees of nodes
with types (`ObjectsAssumption`). Nothing bounds the documents.

Of the grammars, `GInv` says that every pointer is null or an object that lives
(`Owns`), that the validator's schema is the one it was made for and lives (`Validates`),
and that only after a second load does anything live that no pointer holds. It holds
wherever `loadGrammar` throws, hence `Owning`. `PartsAreWhole`
says that the parser with its grammars implements both specifications, so every theorem
about one of them is about it (`WholeCorrectness`).

Only model-checked:

* Liveness, of `store` and of the calls of `TypeSystem`: it needs fairness and `ENABLED`.
* The calendar, durations, sums, paths, queries, texts and simple types (the invariants of
  `MCValues` and `MCSelection`): what they promise is what a computation over data returns,
  by recursion or folds over a text, a pattern or a number of months. A proof of that is an
  induction over the data, which the provers do not do; TLC checks them over the bounded
  inputs of the runs.

## Not modelled

Hash codes, logging, exceptions' texts, conversions of floating-point numbers: pure
functions of the standard library. Escaping of texts and transcoding: the XML libraries
do it. `SimpleString`, which nothing uses. The destructor of the string table, as
the table is never destroyed. `cselectPath`, which only throws. `XmlArray`, each of
whose methods is a call of `Walker`. XPath and query strings are given as the steps that
`tokenize` makes of them. The text that the generator prints is not behaviour of the
library. What remains of the plan above.
