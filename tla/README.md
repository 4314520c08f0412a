# rlex: a verification development

`rlex` is a small lexical-analyser generator in C. It reads a file of rules (regular
expressions with code), builds a state machine for them, and writes a C lexer that drives the
machine with a library of input functions. This directory holds TLA+ models of both halves, the
generator and what it generates, the TLC configurations that check them on small instances, and
TLAPS proofs for
every value of the constants: of the input system, the lexer driver, the front end, the subset construction, minimization, the set
package and the hash tables.

Paths such as `lib/input.c:215` are relative to the repository. `PROJECT.json` maps every
definition of the models to the lines it stands for.

## 1. The system

Everything is sequential C in one thread. There is no concurrency and nothing is persisted; what
is hard is sliding buffers, static state that survives calls, tables that are built while they are
read, limits, and long sequences of legal calls.

| Part | Files | State it keeps | Operations |
|---|---|---|---|
| Input system | `lib/input.c`, `include/l.h` | one buffer, six pointers, line numbers, `Eof_read`, the borrowed `Termchar` | `ii_newfile`, `ii_advance`, `ii_flush`, `ii_look`, `ii_pushback`, the marks, `ii_term`/`ii_unterm`, `ii_input`, `ii_unput`, `ii_flushbuf` |
| Lexer driver | `src/lex.par` | `yystate`, last accepting state, anchor, `yymoreflg`, `yytext`, `yyleng` | `yylex()` and the macros `input`, `unput`, `yyless`, `yymore` for rule code |
| NFA construction | `src/nfa.c`, `src/nfa.h` | node array, discard stack, current token, macro stack | lexer of expressions (`advance`), recursive descent `machine` to `term`, `new`/`discard` |
| Subset construction | `src/dfa.c`, `src/egrep.c` | `Dstates`, `Dtran`, `Last_marked`; the stack of `e_closure` | `make_dtran`, `add_to_dstates`, `in_dstates`, `get_unmarked`, `e_closure`, `move` |
| Minimization | `src/minimize.c` | `Groups`, `Numgroups`, `Ingroup` | `init_groups`, `minimize`, `fix_dtran` |
| Set package | `lib/set.c`, `include/set.h` | bit maps that grow; the statics of `next_member` | create, copy, delete, add, remove, combine, compare, loop |
| Hash tables | `lib/hash.c`, `include/hash.h` | chains of buckets linked both ways, `numsyms` | `newsym`, `addsym`, `delsym`, `findsym`, `nextsym`, `ptab` |
| Table output | `src/squash.c`, `src/print.c`, `lib/printv.c` | column and row maps | compress and print the tables |
| Main program | `src/lex.c`, `lib/driver.c` | line counters, lookahead of `get_expr` | options, rule reader, copying the template |
| Helpers | `lib/escape.c`, `lib/ferr.c`, `src/printnfa.c`, `lib/yy*.c`, `include/compiler.h` | none | conversions, diagnostics, stubs |

How they interact: `main` reads the options and calls `min_dfa`, which calls `dfa`, which calls
`thompson`; the parser there pulls lines from the rule reader and macros from a hash table. `dfa`
keeps sets of NFA nodes in the set package, `minimize` sets of DFA states. The table printed
at the end is what `yylex` of the generated lexer runs on, and `yylex` reaches its input only through
the input system. The code of the rules is called by `yylex` and calls back into the input system
through the macros of the template.

What makes each part correct:

* **Input system**: the buffer is a window on the file. No refill, pushback, terminator or second
  file loses, repeats or reorders a character; the lookahead is there when it is asked for; line
  numbers agree with the text.
* **Lexer driver**: the input is cut by longest match, newlines that only anchor a rule are given
  back or skipped, the whole input is read, and `yytext` is the current lexeme and a string,
  whatever the code of a rule calls; `yyleng` is its length.
* **Rule reader and lexer of expressions**: the parser gets the rules as they are written, whatever lines,
  quotes, escapes and macros they are written with, each with its code and line; the text around
  them is copied; errors end the program, and nothing else does.
* **NFA construction**: the machine accepts the language of the rules, each word with the code and
  the anchor of its rule; nodes neither leak nor are used twice.
* **Subset construction**: each row is the closed move of its set, no set has two rows, every row
  gets filled, and a state accepts what its first rule accepts.
* **Minimization**: the groups are a partition at every step, and at the end a congruence.
* **Generator as a whole**: the printed tables accept the texts of the rules, with the code of the first
  rule that matches.
* **Set package**: it implements sets of integers, whatever the sizes of the maps.
* **Hash tables**: the chains are well formed, and the newest symbol of a name hides the older.

The hazards that the properties are aimed at, each with the line where it bites, are listed in
`PROJECT.json` under `hazards`.

## 2. The modules

| Module | Models | Built on |
|---|---|---|
| `InputBuffer` | the `ii_` functions, as operators from records to records | |
| `InputClient` | every legal sequence of calls of them, as actions | `InputBuffer` |
| `InputProofs` | theorems about `InputClient` | `InputClient`, TLAPS |
| `MaximalMunch` | abstract: what a generated lexer promises | |
| `Lexer` | `yylex()` with a program counter, and the code of the rules | `InputClient`; refines `MaximalMunch` |
| `RuleReader` | `head()`, `get_expr()` and `tail()` of `lex.c`, one line a step | |
| `RegexLexer` | `advance()` with macros, quotes and escapes, `save()`, `dodash()`; one token a step | `RuleReader` |
| `Thompson` | the parser of regular expressions, one rule a step | |
| `SubsetConstruction` | `make_dtran()` and `e_closure()`, one turn of a loop a step | |
| `Minimize` | `init_groups()`, `minimize()`, `fix_dtran()`, one state a step | |
| `Generator` | `do_file()` from the rules to the printed tables, with `squash()` and `pdriver()` | `Thompson`, `SubsetConstruction`, `Minimize` |
| `LexerProofs` | theorems about `Lexer`, and that it cuts as `MaximalMunch` promises | `Lexer`, `InputProofs` |
| `RegexLexerProofs`, `SubsetProofs`, `MinimizeProofs`, `BitSetProofs`, `HashProofs` | theorems about the module named | the module, TLAPS |
| `LeastElements` | lemmas about sets of numbers, induction, recursive functions | TLAPS |
| `IntegerSets` | abstract: what the set package promises | |
| `BitSet` | the set package over words of W bits | refines `IntegerSets` |
| `Definitions` | abstract: what a symbol table promises | |
| `HashTable` | the chains and their links | refines `Definitions` |
| `MC*` | instances for TLC | the module named |

**InputBuffer and InputClient.** The file-scope variables of `input.c` are the fields of one
record `ib`, a pointer is its index in `Start_buf`, a character its positive code. Functions that
call each other in C compose in the same order here: `ii_advance` calls `ii_flush`, which calls
`ii_fillbuf`. The result of `read()` is the parameter `got`; `ReadResults` says what it may be: all
that was asked for and is left, or, with `ShortReads`, anything from one character up, or a failure.
`text` is a history field, every character loaded from the open file, and the properties compare
the buffer with it. `ferr()` ends the program: `ib.err` is set and nothing happens any more.
`InputClient` calls anything at any time, within the protocol the comments state: between
`ii_term()` and `ii_unterm()` only what a rule's action may call, and a forced flush only after
`ii_advance()` has refused.

**Lexer.** `pc` names the places in `yylex()`. A step makes at most one call of the input system,
by using an action of `InputClient`, so that every behaviour of the lexer is one of that client and
what is proved about the client holds for it. The actions `User...` are the code of a rule.
`start`, `out` and `missed` are history: where the current lexeme starts, what was delivered, and how often
`unput()` has found the lexeme empty in the current action. The mapping
to `MaximalMunch` takes as `input` the newline that the first `ii_advance()` invents followed by
the file.

**RuleReader, RegexLexer.** A file is the sequence of its lines, a character its ASCII code. `Input_buf` is a
string that keeps what an earlier, longer line left behind the NUL, because `get_expr()` at the end of the file
returns it as it is. A pointer is a text (`Input_buf` or a macro) and an index; `stack` holds the
places to go back to behind a macro. `pc` says whose turn it is: `head`, `get_expr`, `advance` or the parser. The parser is there as the
sequence of its calls of `advance()`: where an expression ends, what is in a class, and what
`save()` does with the code; what it builds is in `Thompson`. The macro table is the sequence of definitions,
the newest last, which is what `Definitions`, implemented by `HashTable`, promises. `out` and `rules` are history.
An error is the end of the program with its name; that `errmsg()` prints one dash for every byte between two unrelated
pointers if the error is within a macro (nfa.c:233) is left out.

**Thompson.** A rule is the sequence of its tokens; a character class is one token. `q` is the
parser: the tokens left, the nodes, `Nstates`, `Next_alloc`, the discard stack and the error. The
procedures `machine` to `term` are operators that return the parser and the two ends of the machine
they built. They are RECURSIVE operators, as the procedures are, which is why this module is
checked and not proved about.

**SubsetConstruction, Minimize.** The loops of the C code are unrolled to the steps between which
something could go wrong: one NFA state popped by `e_closure()`, one table entry filled, one
DFA state compared and perhaps moved. Sets are TLA+ sets here; what the code's sets do differently
is in `BitSet`.

**Generator.** The variables of the three modules side by side, and three instances' next-state relations one after
the other: `StartDfa` hands the node array to `make_dtran()`, `StartMinimize` its table to
`minimize()`, `Output` prints what is left, whole or through `reduce()`. Each module has its own values for no
node, no string and no transition, and the handing over converts them as the C code does. An entry of the printed table
is taken modulo the size of its type, so that no transition becomes `YYF`.

**BitSet.** A word is the set of its bits. `enlarge`, `_set_op`, `setcmp`, `subset` and
`_set_test` work word by word as in C, for maps of different sizes, and `next_member` has its two
statics. `owed` is history: what the loop has still to return. Handles are used again
after deletion, as `malloc()` may.

**HashTable.** `prev` of a bucket is the address of the pointer to it: a slot of the table or the
`next` of another bucket, `InTable(i)` and `InBucket(p)`. A chain is what a walk along `next` meets, as in `ptab()`; the walk is cut
off one step after as many as there are symbols, so that a cycle would show as a symbol met twice.

## 3. What the runs check

`tlc -config <run>.cfg <module>` repeats a run.

| Run | Module | Question | Distinct states |
|---|---|---|---|
| `input_any` | `MCInput` | Every sequence of calls of the input system on eleven regular files, one of each length around the first read and one after a flush: the line numbers agree with the text in the buffer, and a flush is refused only when the buffer is full. | 162,933 |
| `input_all` | `MCInput` | The same with short and failing reads, the previous lexeme kept, a replaced character, ii_flushbuf() and a second file: the buffer is always a window on the file, the marks keep their order and their text across every refill, and lookahead is always in the buffer. | 2,445,866 |
| `lexer_munch` | `MCLexer` | yylex() with a machine that has anchored rules, on every text of up to four characters and longer ones that make the buffer move: it cuts the text as the abstract specification of maximal munch says, and gets to its end. | 19,569 |
| `lexer_actions` | `MCLexer` | Actions that read, push back, keep and return, two calls in any order, with lexemes over the limit, bad input and a second file: yytext stays the current lexeme and a terminated string, and yyleng its length unless unput() finds the lexeme empty, which makes it too small. | 443,566 |
| `subset` | `MCSubset` | make_dtran() on every NFA of a family of five-node NFAs with epsilon cycles and classes: the table holds exactly the closed moves, and the construction ends, with its table or with the error for too many states. | 107,774 |
| `minimize` | `MCMinimize` | minimize() on every DFA of three states over two characters with every assignment of two rules: the groups are a partition at every step, the new machine does what the old one did, and the passes end. | 467,179 |
| `front_end` | `MCFrontEnd` | head(), get_expr(), advance() and the token side of the parser on some 850 input files put together from parts whose meaning is known: quotes, escapes, classes, nested macros, continuation lines, shared code, comments and code blocks, and one file for every error. The parser gets the rules that were written, with their code and line, the output gets the text around them, and the program ends. | 68,219 |
| `generator` | `MCGenerator` | From the tokens of the rules to the printed tables, through the three constructions: some 380 regular expressions of up to three operands followed by rules with anchors and shared code, and chains of rules with nested parentheses, within few nodes, a small discard stack and few states. The NFA accepts exactly the words of the rules, no node leaks, the limits end the program in time, and the tables make the driver accept the same words with the code of the right rule. | 575,539 |
| `bitset` | `MCBitSet` | Two sets over maps of one and two words, under every sequence of calls of the set package: they implement sets of integers, comparisons ignore the sizes of the maps, and a loop over a set that is being changed misses no member. | 27,347 |
| `hash_table` | `MCHashTable` | Three symbols of three names in two chains, added, deleted, freed and made again: the doubly linked chains are well formed, and the table implements definitions in which the newest of a name hides the older. | 2,107 |
| `eof_is_error` | `MCInput` | A file whose length is a multiple of the read ends with an internal error. | a counterexample, see 5 |
| `squashed_table` | `MCGenerator` | The option that asks for an uncompressed table is the one that compresses, to no columns. | a counterexample, see 5 |

Properties worth reading first: `Window`, `RefillKeepsLexemes` (InputClient),
`CutsLikeMaximalMunch`, `YytextIsCurrent` (Lexer), `AcceptsRules`, `NodesAccounted` (Thompson), `RulesAsWritten` (RegexLexer), `TableAccepts` (Generator),
`RowsAreClosedMoves` (SubsetConstruction), `OnePartition`, `SameLanguage` (Minimize),
`ImplementsSets`, `LoopMissesNothing` (BitSet), `ChainsLinked`, `ImplementsDefinitions`
(HashTable). Every property of a passing run has a mutant: an altered definition, kept
in front of the true one and marked `Mutant`, for which the run finds the property violated.

### Bounds, and why they are enough

* *Input system and lexer.* `MAXLEX = 2`, `MAXLOOK = 1`, so `BUFSIZE` is 8, with the arithmetic of
  the code: three units, the danger zone and the left edge are all met. The first read takes three
  units, 6 characters, and a flush one or two more. `MCFiles` has every length from 1 to 10, around the
  first and the second read, and one that takes several; `Tape` has different characters, so
  that a lost or repeated one shows. `MaxBack = 2` pushes back past a lexeme of one character.
  `MaxUnputs` and `MaxUserCalls` bound the calls that would otherwise go on for ever, two of each are enough for `unput()` to find a lexeme empty that `yyless()` or `unput()` has emptied; `MaxOpens = 2`
  is the smallest number with a second file.
* *Lexer tables.* `AnchorsNext` has rules with each kind of anchor, a rule whose longer attempt fails,
  and a rule that is one newline; all texts of up to four characters over three, and longer ones that move
  the buffer, are cut. These files have no length that is a multiple of a read, and the rules none of the
  shapes of section 5. Of `CutsLikeMaximalMunch` the part
  without the fairness of `MaximalMunch`, `CutsAtLongestMatch`, is proved too, for all files and tables, under hypotheses of which this instance satisfies all but one (`a(ab)?` and
  `^b$` match three characters, with `MAXLEX = 2`). With `MAXLEX = 3` it satisfies all of them, but the buffer never has to move.
* *Front end.* `MCFrontEnd` puts files together from parts of which text and tokens are both written down: twelve
  parts of expressions with every operator, kind of escape, class, quote and macro, alone with and without anchors and in
  pairs; four heads with comments over several lines, code blocks and macros in macros; three rules with
  continuation lines, shared and empty code, blank lines between them and in front of a first rule that shares its code, and a tail; and a file for each way to fail.
  `MAXINP = 64`, `STR_MAX = 56`, `SSIZE = 3` and `MaxRules = 4` (the nodes) are met by one file
  each; a macro that names itself fills the stack.
* *Generator.* About 380 expressions of up to three operands, which combine each operator with each
  other one on either side, then rules that meet the nodes the first has left; words of up to three
  characters tell all of them apart. `NFA_MAX = 36`, `SSIZE = 3` and `DFA_MAX = 8` let most rules fit and
  a chain of nested ones fail at each limit. `TableAccepts` asks for the first rule only where no parentheses are
  nested within parentheses: with two levels the discard stack holds three nodes, and a rule for a single character
  below takes its accepting node from it (`rule_order`). `YYF = 15` only has to be more than the states.
* *Subset construction.* Machines of five nodes of which three are free: the start is any epsilon
  fork (loops included), the second any move or class or a fork back to the start, the third any move
  or class; the last two accept, for two rules. `DFA_MAX = 3` is exceeded by some.
* *Minimization.* All tables of one and three states, numbered as `make_dtran()` numbers them, over two
  characters, with every assignment of two rules: splits into up to three groups, by a character or by
  acceptance, in every order.
* *Sets.* Two sets, words of two bits, a map of one or two words: equal, shorter and longer maps,
  and members in either word.
* *Hash table.* Three symbols, three names, of which two share a chain: front, middle and end
  of a chain, and a name twice.

Handles and symbols are interchangeable, so `bitset` and `hash_table` use symmetry; their
properties are safety properties.

### Fairness and deadlock

The program is one thread that takes its next step as long as there is one, so weak fairness of
the whole next-state relation is what the code justifies, and all that is assumed, for
`ReachesEndOfInput`, `CutsLikeMaximalMunch` (whose abstract specification is fair) and the
three `Terminates`. `read()` is assumed to return. Deadlock is not checked where the program really
ends: `yylex()` after the last lexeme, the constructions when they are done, and every program when
`ferr()` or `parse_err()` has ended it. It is checked for `bitset` and `hash_table`.

## 4. What is proved

Every theorem holds for every value of the constants that satisfies the assumptions of the module (`ASSUME`, which TLC
evaluates on every run): buffers, alphabets, tables, NFAs, machines, word sizes and numbers of sets of any size.

| Theorem | States |
|---|---|
| **`InputProofs`** | `InputClient`: any legal sequence of calls |
| `InputTypes` | `Spec => []TypeOK`: no pointer leaves the buffer |
| `PointersStayOrdered` | `Spec => []PointersOrdered`: pMark, sMark, eMark, Next, End_buf in that order |
| `LookaheadIsReady` | `Spec => []LookaheadReady`: before the end of the file MAXLOOK characters can be looked at, and `ii_term()` never writes behind the buffer |
| `RefusalMeansFull` | `Spec => []RefusedOnlyWhenFull`: `ii_advance()` refuses only with MAXLEX characters kept |
| `BufferIsWindow` | `Spec => []Window`: the buffer shows the text of the file, and what is still to be read follows it |
| `LinesCounted` | `Spec => []LinesAgree`: the line numbers count the newlines |
| `LexemesKept` | `Spec => RefillKeepsLexemes`: no refill changes the current or the previous lexeme |
| `EofMeansRead` | `Spec => []EofMeansAllRead`, if reads are not short |
| `FullMeansEof` | `Spec => []FullOnlyAtEof`, if reads are not short and no rule's code forces a flush |
| **`LexerProofs`** | `Lexer`: `yylex()` with any tables and any rules' code |
| `LexerIsClient` | `LexSpec => Spec`: `yylex()` keeps the protocol of the input system, so that all of the above holds of lexers |
| `LexerTypes` | `LexSpec => []LexTypeOK`: no state outside the tables is indexed, and `yyleng` is below zero by no more than `missed` |
| `YytextStaysCurrent` | `LexSpec => []YytextIsCurrent`: yytext is the lexeme whatever a rule's code calls, and yyleng its length or, after an `unput()` of an empty lexeme, too small by one at most for each |
| `YytextStaysString` | `LexSpec => []YytextIsString`: yytext ends in a NUL |
| `AnchorsStay` | `LexSpec => []AnchorIsOfLastAccept`, if the successors of an anchored accepting state accept |
| `LongestMatch` | `LexSpec => CutsAtLongestMatch` in runs without bad input and overlong lexemes in which the anchor is right: every lexeme is the longest match at its place, and the next begins where it ends |
| `NothingDiscarded` | the runs are without bad input and overlong lexemes if every place of every file begins a lexeme and the machine fails on more than MAXLEX characters |
| `LongestMatchAlways` | `LexSpec => CutsAtLongestMatch` from the hypotheses about tables and files alone |
| **`RegexLexerProofs`** | `RuleReader` and `RegexLexer`: any files, any limits |
| `PointersWithin` | `Spec => []TypeOK` in runs that stay `Regular`: no pointer passes the NUL of its text, neither the macro stack nor the block for the code is exceeded |
| **`SubsetProofs`** | `SubsetConstruction`: any NFA |
| `SubsetTypes` | `Spec => []TypeOK`: no index leaves a table |
| `ClosureStackFits` | `Spec => []StackFits`: the stack of `e_closure()` never holds a state twice |
| `SubsetRowsAreClosedMoves` | `Spec => []RowsAreClosedMoves`: every entry leads to the closure of the move of its row |
| `SubsetStatesDistinct` | `Spec => []StatesDistinct`: no set has two rows |
| `SubsetAcceptsFirst` | `Spec => []AcceptsFirst`: the node of the lowest index decides |
| **`MinimizeProofs`** | `Minimize`: any machine |
| `MinimizeTypes` | `Spec => []TypeOK`: there is always room for the group being split off |
| `GroupsPartition` | `Spec => []OnePartition`: Groups and Ingroup are one partition at every step |
| `MinimizeKeepsLanguage` | `Spec => []SameLanguage`: the result is a quotient of the machine |
| `MinimizeKeepsRuns` | the old and the new machine accept the same on every text of any length |
| **`BitSetProofs`** | `BitSet`: any number of sets, any words |
| `SetTypes` | `Spec => []TypeOK` |
| `LoopsMissNothing` | `Spec => []LoopMissesNothing`: a loop of `next_member()` over a set that changes misses no member |
| `SetsImplemented` | `Spec => ImplementsSets`: the package implements `IntegerSets` |
| `ComparisonsIgnoreSizes` | `Spec => []ComparisonsAgree`: equality, inclusion and emptiness are those of the members |
| **`HashProofs`** | `HashTable`: any hash function, any number of chains and symbols |
| `TableTypes` | `Spec => []TypeOK` |
| `LinksHold` | `Spec => []ChainsLinked`: both links of every bucket are right, `numsyms` counts the symbols, lookups find all of a name |
| `DefinitionsKept` | `Spec => ImplementsDefinitions`: the table implements `Definitions` |

Each module first proves that its inductive invariant holds (`InputInvariant`, `TextInvariant`, `LexerInvariant`, `LineInvariant`, `SubsetInvariant`,
`MinimizeInvariant`, `SetInvariant`, `TableInvariant`; `MunchInv` in `LongestMatch`): one lemma per function of the C code, saying what the function does to a state
that satisfies the invariant, and a step lemma with one case per action. The theorems above follow from it.

**Input system.** `TypeOK` is not inductive: that `ii_advance()` reads inside the buffer depends on
a refill that always brings more than the danger zone needs, and that depends on where `End_buf` is.
`IInv` adds what is missing. `Base` has the order of the pointers and ties `Eof_read` to the
room behind `End_buf`: before the end of the file a read, which takes as many units of MAXLEX as
fit, leaves less than MAXLEX free, and at the end at least one place, which `ii_term()` needs.
`Ready` says that the lookahead is there. Both are suspended when an error has ended the program, and
`~b.called` says that nothing was read before the first `ii_advance()`, which is when the pointers
are all at the end of an empty buffer. `TextInv` ties a place of the buffer to a place of the text (`Pos`): the characters
from the left edge on are those of the text, where the borrowed `Termchar` stands for the NUL over it, and the line
numbers count the newlines in front. `Window` alone is not inductive, because a character that a pushback will
deliver again is not among those still to be delivered.

The two theorems about the end of the file have hypotheses, and the configurations `short_read` and `flushbuf_abort` show why:
a read that returns less than it was asked for is taken for the last one, and a flush forced by a rule's code asks for nothing
when less than MAXLEX places are free. `EndInv` says that a full buffer is reported by a read of 0 characters only.

**Lexer.** `LexerIsClient` shows that each step of `yylex()`, and each macro of a rule's code, is a call that the input
system allows in that state. `LexInv` then has what the driver adds: a state is there when it is indexed (`Driven`); from the return
to the mark until the rule's code has ended the next character is the one behind the lexeme (`AtLexemeEnd`), so that what
is read or pushed back changes both ends alike; `yytext` is where the lexeme starts, and `yyleng` its length but for what `unput()` has
counted down without taking a character off, which `missed` counts (`Described`); and the place behind it holds a NUL (`Terminated`),
which need not be one that `ii_term()` wrote: at the end of the file it may be that of the unused buffer. The
assumption `TableAssumption` is what the printed tables are: functions from the states to a state or `YYF` for each character,
and to 0 to 4. No state has the number `YYF`, 255, because there are at most 254 (`DFA_MAX`). `MaxBack >= 1` because
`yylex()` itself pushes one character back.

**Longest match.** `CutsAtLongestMatch` says that every step of `yylex()` is a step of `MaximalMunch` or changes nothing
that it can see. `LexInv` knows nothing of the machine's run, so `MunchInv` adds it, for each place in `yylex()`. `Reads`
says that what was loaded into the buffer is the beginning of the file; with `TextInv`, which ties places of the buffer to places of
the text, a character looked at is that of the file, wherever the buffer has been moved to. While a lexeme is collected
(`Scanned`), `yystate` is the state after the characters read of it (`Path`), and (`LastMatch`) `yylastaccept`
is the state at the last accepting place among them, which `ii_mark_end()` has marked. When the machine fails, or when the file
ends, no place behind can accept (`FailedForGood`, by `SetInduction`), so that the marked place is the last of all matches (`Longest`).
After the return to the mark, the pushback and the skip of anchors, `MatchEnd` and `LexemeStart` say where the lexeme stands, and the
delivery is an `Emit` step. That the end of what was read is the end of the file (`EofMeansAllRead`) needs reads that are not short.

The hypotheses are what section 5 shows to be needed. `Plain`: reads are not short and no second file is opened
(`short_read`, `second_file`), the code of the rules leaves the input alone, and the start state does not accept or is not entered again (`empty_match`).
`AnchorIsOfLastAccept`: `yyanchor` is that of the accepting state (`anchor_lost`); `AnchorsStay` proves it of every machine in which no anchored lexeme
begins a longer attempt that can fail, with any input and any code of the rules. `Clean`: what follows bad input or an overlong lexeme is
not cut by longest match (`bad_input`, `after_too_long`); `NothingDiscarded` proves it for files that the rules match everywhere, as they do with a rule
for any other character, and machines that fail on more than `MAXLEX` characters. TLC finds all the hypotheses satisfied
by the tables and files of `lexer_munch` with `MAXLEX = 3`.

**Front end.** A pointer of `advance()` is good if no NUL is in front of it in its text (`Good`). `LineInv` says that `Input` and the
pointers on the stack are good whenever they can be used (`Pointers`), and why: a line is only read at the end of the one before, when the stack is empty
(`Reading`), because the reader of rules writes into the buffer that pointers point into; and `Input` is NULL only after the last rule (`Turns`). `HeadLine` says that a line of the head ends
with white space and a NUL, which `strip_comments()` keeps and which `new_macro()` needs to find the ends of a name and a text within the line. `esc()` and `get_macro()` stay in front of
the NUL (`EscFacts`, `NameGood`). `Saved` needs that the block for the code is one of whole words (`LimitsAssumption`), as 100 * 1024 bytes are. `FilesAssumption`: the lines of a file have no NUL.

The theorem is about runs that stay `Regular`, and section 5 shows that each part of it is needed: no escape is cut off by the end of its text (`EscapesEnd`), no expression ends
within a macro (`EndsInLine`), and there is room for the line number and the NUL of a rule without code (`RoomForNone`). TLC finds `Regular`, and `LineInv`, in every state of `front_end`.

**Subset construction.** `Closing` says of a closure that is being computed that the states already popped have their successors in
the set, and that the set is within every closed set above the seed; at an empty stack that makes it the closure. `Winner` is the accepting state
of the lowest index popped so far. `Position` says which rows are marked and full, so that `get_unmarked()`, which
never looks back, loses none. `EpsilonClosure`, which the properties are stated with, is a recursive function; `EpsilonClosureIsLeast` shows
that as many turns as there are states reach the least closed set.

**Minimization.** `Partition` is `OnePartition` with the group in the course of being split off; `Alikes` and `Splitting` keep states with
different strings apart. What makes the last pass right is `Settled`: as long as a pass has split nothing, the groups
it has been through are settled. With it, `SameLanguage` holds at the end although the first state of a group was compared with others while
`Ingroup` changed.

**Set package.** `SetInv` says that every set is well formed (`nbits = nsize * W`, a map of `nsize` words, of which `nsize` is a multiple of `DEFSIZE` and at
most what the greatest member makes it), that a deleted set is as new, and that the members a loop still owes are in the set and not in front of
`current_member`. A set's members are determined by its words, with empty words behind the map (`EqualByWords`, `SubsetByWords`); each operation
is described by its words first and its members then. `setcmp()` subtracts words modulo 2^W and returns a signed number: it
is 0 only for equal words, because a word's value determines it (`ValueInjective`) and is less than 2^W (`ValueBelowModulus`).

**Hash table.** `Linked(c)` says that the memory holds the chains `c`, a function from the slots to sequences of symbols: the head of
each is in the table, `next` and `prev` of each symbol point to its neighbours, its name hashes to the slot, and no symbol is in two places. The links
are stated without a walk; `ChainsRead` shows that walking along `next` finds these very chains. `AddKeeps` and `DelKeeps` then say what the chains are
after a call: one symbol in front, or one taken out. Lookups and the refinement are about the symbols of one name, and `OnlyInFront`, `OnlyWithout` and `OnlyNext`
say what putting in front, taking out and going on to the next do to that selection.

**Induction over data.** The induction theorems of the library take a predicate as a parameter, which the provers cannot instantiate.
`LeastElements` states induction with a set instead, the set of the numbers that have the property (`SetInduction`), from the
theorem that every set of naturals has a least member. That is enough for recursive functions: that one is defined, and what it computes
(`ReachDefined`, `ValueDefined`, and `Recursion` for any recursive function on `0..N`).

**Only model-checked.** Liveness under fairness, which is beyond the prover: `ReachesEndOfInput` and the three `Terminates`, and of `CutsLikeMaximalMunch` the fairness, which is all that it adds to
`CutsAtLongestMatch`. `Thompson`, and so `Generator`, which are
written with RECURSIVE operators, for which the prover has no SMT backend. `RulesAsWritten` and `CopiedAsWritten`, which compare
what the front end does with what the files of the instance were written from.

## 5. Where the code does something else than it says

Two of these are among the runs of `PROJECT.json` (marked *run*) whose counterexample is expected; the others have a
configuration that shows them in the same way, `tlc -config <name>.cfg <module>`. Where the table names no configuration of
their own, put the property in the place of the one that the configuration checks, and the constants named in the place of its own.

| Configuration | Module, property | What the counterexample shows |
|---|---|---|
| `unput_unterminated` | `MCInput`, `PushbackReportsSuccess` | `lib/input.c:320`: ii_pushback() returns (Next > sMark), so a pushback of every character of the lexeme, which succeeds, returns 0. lib/input.c:305-306 says: "if you try to push past the sMark, only the characters as far as the sMark are pushed and 0 is returned (1 is returned on a successful push)." ii_unput() (input.c:358) then drops the character it was to put there. |
| `eof_is_error` (run) | `MCInput`, `EofIsNoError` | `lib/input.c:227`: ii_flush() takes any 0 of ii_fillbuf() for a full buffer and calls ferr("internal error, ii_flush: buffer full, can't read"); but ii_fillbuf() also returns 0 when read() is at the end of the file, which happens for an empty file and for every file whose length is a multiple of what is read. lib/input.c:154-155 says of ii_advance(): "0 is returned at end of file." |
| `short_read` | `MCInput`, `EofMeansAllRead` | `lib/input.c:273`: ii_fillbuf() sets Eof_read when read() returns less than was asked for, as it does on a terminal or a pipe; the rest of the input is never read. lib/input.c:250-251 says: "Eof_read is true as soon as the last buffer is read." |
| `unput_unterminated` | `MCInput`, `LexemeTerminated` | `lib/input.c:363`: ii_term() stores the character at Next in Termchar, where 0 also means that the string is not terminated. When the lexeme ends where the input read so far ends, that character is the NUL of the unused buffer: ii_unput() then takes the branch for a string that is not terminated (input.c:362-366), writes its character and does not terminate the string at the new end. src/lex.par:144 says of ii_term(): "null-terminate the string". |
| `second_file` | `MCInput`, `RefusedOnlyWhenTooLong` | `lib/input.c:76`: ii_newfile() sets pMark = END instead of NULL. The first flush of the second file then shifts pMark with the rest, and from then on it is the left edge of the buffer: nothing moves it on, so a flush is refused when the buffer is full of text that no lexeme needs. lib/input.c:15 calls MAXLEX the "maximum lexme sizes" and src/lex.par:115 reports the refusal as "lexme too long"; the run refuses a short one. |
| `after_too_long` | `MCInput`, `RefusedOnlyWhenTooLong` | `lib/input.c:220`: A forced flush calls ii_mark_prev() "to discard current lexeme and previous lexeme" (input.c:219), which sets pMark; no code of a generated lexer moves pMark on, so it stays the left edge and the next flush is refused whatever the length of the lexeme. lib/input.c:15 says MAXLEX is the "maximum lexme sizes" and src/lex.par:115 "lexme too long". |
| `flushbuf_abort` | `MCInput`, `FullOnlyAtEof` | `lib/input.c:263`: A forced flush of a buffer in which less than MAXLEX characters are free behind the kept text asks ii_fillbuf() for nothing, gets 0 and ends the program. lib/input.c:193-196 says "return 1 if everything's ok, -1 if the buffer is so full that it can't be flushed. 0 if we're at end of file. if "force" is true, a buffer flush is forced and the characters already in it are discarded." |
| `anchor_lost` | `MCLexer`, `AnchorIsOfLastAccept` | `src/lex.par:119`: yyanchor is assigned for every state the machine enters (if (yyanchor = Yyaccept[yynstate])), also for a state that does not accept. If a longer lexeme is tried and fails, the newline of an anchored rule is neither pushed back nor skipped. src/lex.par:73 declares it as "anchor point for most recently seen accepting state". |
| `bad_input` | `MCLexer`, `LexemesAreAccepted` | `src/lex.par:132`: On bad input yylex() advances past the next character but neither moves the start mark nor returns to state 0: the skipped character, and those read before it, stay in the lexeme that is accepted next, and the machine goes on from the middle of a rule. src/lex.par:130 says "ignoring bad input" and "skip char that caused failure". |
| `bad_input_hangs` | `MCLexer`, `ReachesEndOfInput` | `src/lex.par:132`: The result of ii_advance() is not looked at on bad input: when it is refused because the buffer is full (the start mark does not move while bad input is skipped) yylex() looks at the same character for ever. src/lex.par:130 says "skip char that caused failure". |
| `empty_match` | `MCLexer`, `CutsLikeMaximalMunch` | `src/lex.par:128`: yylastaccept == 0 stands for "no accepting state seen", but 0 is also the number of the start state: a rule such as [a\n]*, whose machine is minimized to the start state alone, is never accepted and its text is dropped at the end of the file. src/lex.par:88-89 says "if there's an unprocessed accepting state, yylastaccept will be nonzero". |
| `bad_input` with `LongFiles`, `WordsNext` and `WordsAccept` | `MCLexer`, `LexemesAreAccepted` | `src/lex.par:116`: After the forced flush yylex() goes on with the transition it had looked up, although the flush has discarded the text that led to the state and the character was not read: the lexeme delivered next is the rest of the long one, without the text its rule requires. src/lex.par:115 says "lexme too long. discarding extra characters". |
| `lexer_actions` with property `YylengIsLength` | `MCLexer`, `YylengIsLength` | `src/lex.par:45`: unput(c) is (ii_unput(c), --yyleng): yyleng is counted down whether or not ii_unput() has pushed a character back. When the lexeme is empty, after yyless() of all of it or a second unput(), ii_pushback() stops at the start mark and yyleng is less than the length from then on, -1 at first. src/lex.par:146 sets "yyleng = ii_length();" when the action starts, and src/lex.par:35 says of these macros that they "duplicate functions in Linux/Unix utility lex". |
| `minimize` with `Dtrans <- StarsDtrans`, `Accepts <- StarsAccepts` | `MCMinimize`, `Minimal` | `src/minimize.c:140`: A state that leaves its group is put into the new group (Ingroup) while the loop over the same group and character still compares the others with the first state: a state compared later sees the split half done, differs from the first state only because their equivalent targets are for the moment in different groups, and leaves as well. States that accept the same texts end in different groups, and nothing merges them again. src/minimize.c:9 says "make a minimal DFA by eliminating equivalent states". |
| `anchors_merged` | `MCMinimize`, `AnchorsKept` | `src/minimize.c:39`: init_groups() compares the accepting strings of two states and not their anchors: states of two rules that share their code (by "\|") and differ in their anchors are one group, and the anchor of the first is printed for both. src/print.c:81-83 says of Yyaccept[i]: "if it's nonzero then the number determines whether the string is anchored, 1=anchored at start of line, 2=at end of line, 3=both, 4=line not anchored". |
| `rule_order` | `MCThompson`, `FirstRuleWins` | `src/nfa.c:99`: new() takes nodes from the discard stack first, so a later rule may be built from nodes of a lower index than those of an earlier rule, and e_closure() takes the accepting node of the lowest index (egrep.c:70). test/wc.lex:12-14 puts "[a-zA-Z]+" above "." and counts a word of one letter with the first: with nested parentheses in the first rule the second wins. |
| `dangling_closure` | `MCThompson`, `ClosureFollowsExpression` | `src/nfa.c:663`: term() takes every token that is not a parenthesis, a dot or a class for a literal: a *, + or ? that follows nothing stands for itself, and the error E_CLOSE is never raised. src/nfa.c:41 says "+ ? or * must follow an expression or subexpression". |
| `squashed_table` (run) | `MCGenerator`, `FastTableIsWhole` | `src/lex.c:346`: The test of -f is inverted: do_file() prints the whole table if No_compression is not set and calls squash() if it is. squash() then takes the columns that HAVE a place in Col_map, of which there are none (squash.c:68), and prints a table of one row and no columns with both maps full of -1 and 0. src/lex.c:204 says of the option: "-f  for (f)ast. don't compress tables". |
| `quote_in_macro` | `MCFrontEnd`, `RulesAsWritten` | `src/nfa.c:425`: A closing quote at the end of a macro ends the expression (EOS) and not only the macro: the rest of the rule is dropped, its code is what follows in the macro, and the stacked pointer into the line stays on the stack for the next rule. src/nfa.c:407 returns EOS with the comment "no more input sources to restore and at the real end of string". |
| `front_end` with `Files <- EscapeAtEnd` | `MCFrontEnd`, `TypeOK` | `src/nfa.c:440`: esc() takes the NUL behind a \ that ends its text for the escaped character and the common increment (escape.c:99) steps over it, as \^ does if nothing follows: advance() reads on in what an earlier line has left in the buffer, or behind a macro. lib/escape.c:30-31 says "If no escape sequence is present, the current character is returned and the string is advanced by one", and the case for the NUL is there to end at it (escape.c:52). |
| `front_end` with `Files <- SpaceInMacro` | `MCFrontEnd`, `TypeOK` | `src/nfa.c:435`: Unquoted white space in a macro ends the expression, as a closing quote at its end does, and not only the macro: the pointer behind the name stays on the stack, and when the next line ends it is popped and used in that line, where it may be behind the NUL. src/nfa.c:398 says of the line that is read next "remember start of line", and src/nfa.c:407 of the return at its end "no more input sources to restore and at the real end of string". |
| `front_end` with `Files <- BlockFull` | `MCFrontEnd`, `TypeOK` | `src/nfa.c:142`: save() looks for room only within the loop that copies the code: the line number of every rule (nfa.c:138) and the NUL of a rule without code are written without a check, behind the block when it is full. src/nfa.c:25 says of the error E_STRINGS "too many characters in accept actions"; a rule without characters does not raise it. |
| `front_end` with `Files <- BlankBefore` | `MCFrontEnd`, `RulesAsWritten` | `src/lex.c:140`: get_expr() sets Lineno before it reads, and only then reads over blank lines: a first rule behind blank lines gets the number of the first of them, which print.c:33 and the #line of print.c:108 print. (The blank lines behind a rule are read with that rule, so later rules have the right number.) src/lex.c:122-125 says "all blank lines are discarded" and "Lineno is set to the line number of the top line of a multiple-line block", and src/lex.c:22 "line number of first line of  a multiple-line rule". |
| `no_end_mark` | `MCFrontEnd`, `EofIsNull` | `src/lex.c:166`: getrule() returns EOF, which is not 0, at the end of the file, and get_expr() returns Input_buf: without a second %% the last rule is parsed again and again until the nodes run out. src/lex.c:120-121 says: "returns NULL on end of file or if a line beginning with % is encountered". |
| `disjoint_test` | `MCBitSet`, `DisjointMeansDisjoint` | `lib/set.c:119`: _set_test() looks for common members only in words that differ: sets that have an equal, non-empty word and differ in another are reported as disjoint. lib/set.c:420-421 prints from IS_DISJOINT that two sets "ARE" disjoint. |
| `disjoint_test` | `MCBitSet`, `SetcmpIsAnOrder` | `lib/set.c:151`: setcmp() returns the difference of two unsigned words as an int: for words that differ by half the range or more the sign is wrong, and {31} and {} each compare as less than the other. lib/set.c:324 and 481 hand it to qsort() as a comparison: "int scmp(const void *a, const void *b) { return setcmp(*(SET **)a,*(SET **)b); }". |

The passing runs avoid these cases by their inputs where a property would fail, and say so: the files of
`lexer_munch` do not end where a read ends, its table has no rule of the shape of `empty_match` or
`anchor_lost`, no macro of `front_end` ends with a quote or has white space within, no escape ends a line there, `TableAccepts` is about the table without `-f`, and `YytextIsString` leaves out what follows an `unput()`,
`YytextIsCurrent` bounds `yyleng` instead of fixing it behind an `unput()` that found an empty lexeme, and the blank lines of `front_end` are not in front of a first rule whose own line is kept.

## 6. What is not modelled

* The layout of what is printed: `pheader()`, `print_array()` beyond the entries, `bin_to_ascii()`, comments; and the options
  other than `-f`, which choose what to print and where. `driver.c` copies pieces of the template.
* Expressions with an empty operand, as `a|` or `()`: the ends of such a machine are read without having been given a value
  (nfa.c:600), and what happens is the compiler's. A rule without any expression ends the program in the model, as
  the read through its null pointer does. A rules section of white space ends it too, because `machine()` takes
  a rule before it looks for the end of the input and `advance()` reads through its null pointer; without a second `%%`, where `advance()` reads such a section for ever, it is not among the files.
* Names and texts of macros longer than their arrays (nfa.c:305) and bytes from 128 up: `Tokmap` and the tables of the generated
  lexer are indexed with a plain `char`. The characters of the input models are positive codes; the code returns
  0xFF as EOF and a NUL as the end of the file.
* `ii_io()`, which replaces `open`, `close` and `read`: only through what `read()` may return.
* `sethash`, `pset`, printing of symbols, diagnostics, stubs.

## 7. Plan

1. *Done.* Input system, client, lexer against `MaximalMunch`; subset construction and
   minimization; sets and hash tables against their abstractions; proofs about the input system.
2. *Done.* `RuleReader`, `RegexLexer`; `Generator`, which composes the three constructions and prints the tables.
3. *Done.* Proofs about the text of the input system, the lexer driver and its refinement of `MaximalMunch`, the front end, the subset construction, minimization, the set package and the hash tables.
4. Open: `NodesAccounted` of `Thompson`, if the parser is restated with recursive functions.
