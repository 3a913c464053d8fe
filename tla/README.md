# A verification project for the LLVM7 C compiler

The compiler translates one C file to LLVM IR in one pass through a pipeline:

    main.c -> preprocess.c -> lex.c -> parse.c (with variable.c) -> codegen.c -> LLVM

Each stage hands its whole result to the next, so no two stages run at the same
time and the state that matters is inside a stage: tables that live longer than
the construct that filled them, stacks that the recursive descent must leave as
it found them, and flags that one function sets and another one tests. What is
hard to get right is not concurrency but *long sequences*: which of many earlier
declarations, directives or statements the next one depends on. The modules here
model a stage as a state machine whose environment is the source text: every
action reads the next token group, line or statement, and chooses it.

## 1. Inventory

| Component | Code | State it keeps | Operations | What is hard | What makes it correct |
|---|---|---|---|---|---|
| Preprocessor: lines, groups, files, macro table | preprocess.c 27-262, 500-966 | `ctx->macros`, `ctx->current_line`; per open file `cond_stack`, `in_block_comment` | directives, text lines, `#include`, end of file | recursion for an include with partly shared state; two bits per group stand for its whole history; order of the tests in a dead branch | a line counts exactly if all groups around it chose its branch; a name has one definition |
| Macro expansion | preprocess.c 264-498, 848-897 | none beside the table | argument parsing, `#`, `##`, `__VA_ARGS__`, nesting to depth 16 | arguments with strings and commas, comments in values, the depth limit | the result is what the definition says for these arguments |
| Lexer | lex.c | position, line and column, token list | `tokenize`, `consume`, `expect`, `expect_number` | backtracking in numbers, escapes, positions | tokens cover the text, longest match, positions are right |
| Scopes and names | variable.c, parse.c 61-102, 154-180, 637-760, 946-1388 | `active_locals`, `locals`, `scope_depth`, `next_local_offset`, `globals`, `enum_consts`, `vla_size_exprs`, `code` | add, find, enter, leave, reset; every path of `parse_program` and `parse_stmt` | one list for all scopes; slots and counts reused by each function | lookup finds the innermost declaration; slots are unique; nothing leaks into the next function |
| Initializers | parse.c 798-944, 1064-1125, 1205-1222 | slot array, next index | positional and designated elements, implied array size | order of designators, growth, shared types | each slot has its last value, all up to the greatest exist |
| Types and layout | parse.c 182-330, 380-627, 1652-1746; codegen.c 98-232 | type objects, typedefs, tags | base types, declarators, `sizeof`, LLVM layout | objects shared by typedefs; two size functions | parser, generator and LLVM agree |
| Expressions: parsing | parse.c 1389-1650, 1748-2268 | tree | precedence climbing, folding of constants | compound assignment clones its left side | the tree is the grammar's |
| Expressions: code | codegen.c 930-1557, 1890-2400 | instructions | loads, stores, conversions, calls | widths and signs | values are C's |
| Control-flow generation | codegen.c 22-60, 819-917, 1558-1890, 2188-2204, 2243-2362 | basic blocks, insertion point, `current_break_label`, `current_continue_label`, `current_switch_inst`, label map, `has_return` | one case per statement | saved and restored targets; a flag that must agree with the block | every block ends with its only terminator; jumps reach the innermost construct |
| Module symbols | codegen.c 698-816, 1414-1464 | LLVM functions and globals, `func_types` | prototype, definition, implicit declaration, global | order of declaration, call and definition | one symbol and one type per name |
| Driver and files | main.c, file.c | exit code, output file | the pipeline | errors reported by a stage and lost | exit 0 only with a valid module |

Shared state connects them in few places. Scopes hand each function's chain of
locals to code generation (`node->locals`), which indexes `local_allocas` by slot
number; the preprocessor hands over text; the verifier's verdict on the blocks of
CfgGen is printed by `generate_module` and dropped by the driver. There are no
threads, callbacks, timeouts or persistent data; failures are `exit(1)`.

`PROJECT.json` lists each hazard with its line and the properties that would
catch it; the ones no property covers have a note. Section 5 lists where the code
departs from C or from the repository's own documents without a run that shows
it.

## 2. Modules

| Module | Role |
|---|---|
| `LexicalScope` | abstract: a stack of frames, names to slots, for lexical scoping |
| `Scope` | variable.c and what of parse.c drives it |
| `ScopeProofs` | proofs about `Scope` for all constants, with the refinement of `LexicalScope` |
| `CfgGen` | control flow in codegen.c |
| `Symbols` | generate_module's symbol table and the lookups of codegen.c |
| `SymbolsProofs` | proofs about `Symbols` for all constants |
| `ConditionalText` | abstract: what conditional groups, files and macros mean |
| `Preprocess` | preprocess.c: lines, groups, files, macro table |
| `PreprocessProofs` | proofs about `Preprocess`, with the refinement of `ConditionalText` |
| `MacroExpand` | preprocess.c: what one line of text becomes |
| `MacroExpandProofs` | proofs about `MacroExpand`: its types, its limit, the arguments of a call, what it leaves |
| `Lexemes` | abstract: a text as the longest lexemes |
| `Lexer` | lex.c, and the reading of its list |
| `LexerProofs` | proofs about `Lexer` for texts of any length |
| `Elements` | abstract: what positions and designators of a list stand for |
| `Initializer` | parse_initializer, its callers and the stores of codegen.c |
| `InitializerProofs` | proofs about `Initializer`, with the refinement of `Elements` |
| `TypeLayout` | the three sizes of a type, as recursive functions |
| `Types` | the objects of try_parse_type and the declarators around it |
| `TypesProofs` | proofs about `Types` for all constants |
| `Expression` | types, conversions and values of expressions |
| `CodegenProofs` | proofs about codegen.c: `CfgGen` and `Expression`, for all constants |
| `MCScope`, `MCCfgGen`, `MCSymbols`, `MCPreprocess`, `MCMacroExpand`, `MCLexer`, `MCInitializer`, `MCTypes`, `MCExpression` | instances for TLC |

An operator named `X_Something` beside an operator `X` is a plausible slip in the
code that `X` models ("Slip: ..."). It is not used by the specification; putting
it in the place of `X` must break the property it is paired with in
`PROJECT.json`, which shows that the property depends on that code.

### Scope

`active` is `ctx->active_locals` as a sequence, outermost declaration first;
`locals` the chain that codegen gets; `depth` and `next` are `scope_depth` and
`next_local_offset`; `vla` is `vla_size_exprs`, where of an expression only the
declaration that stored it is kept. The recursive descent is `phase` (what is
parsed next) and `open`, the calls of `parse_stmt` that opened a scope and have
not returned. `AddLvar`, `FindLvar`, `EnterScope`, `LeaveScope` and `ResetScope`
are variable.c's functions; the actions are the paths of `parse_program`
(globals, parameter lists, prototypes, bodies, enum specifiers) and of
`parse_stmt` that touch the tables (declarations, blocks, `for` heads with and
without declaration, statements that name an identifier), with each `exit(1)`.

Abstracted: types are `"pointer"` or `"vla"`, since `sizeof` reads a stored count
only for what looks like a pointer; typedefs, tags and members are not names
here; an expression is the one identifier in it.

### CfgGen

A function is generated statement by statement. `blocks` has for each basic block
whether it is open, closed by a terminator, or `"broken"`: something was emitted
behind its terminator. `ins` is the builder's insertion point. `stack` has the
activations of `codegen()` with what each keeps in its local variables: its
`has_return` flag, the blocks it will use later, the saved jump targets. Every
statement kind is an action that enters a construct and, where it has a body,
one that leaves it; `Eval` is an expression, which may move the insertion point
(`&&`, `||` and `?:` have blocks of their own).

Abstracted: values, types and branch targets; of an instruction only whether it
ends its block. Left out: code in a switch body before the first case. The constant
`CodeAfterReturn` says whether a switch body may go on after a return; there the
code goes wrong, so that it has a run of its own and the passing run shows that
nothing else does. A label behind a return is `skipped`: it is parsed, and no
code is generated for it.

### Preprocess

`preprocess_internal` is a loop over lines and calls itself for an `#include`.
`macros` is the list of `ctx->macros` in its order, `currentLine` is
`ctx->current_line`; `conds` and `comment` have the conditional stack and the
block-comment flag of every open file, the file that is read last. Every action
reads one line: a conditional directive opens, continues or closes a group,
`Define` and `Undef` change the list, `Include` enters a file, `EndOfFile`
returns to the includer, `Exit` is every `exit(1)`, and `Inactive`, `Stray` and
`InactiveText` are the lines the code swallows, in the order of its tests.
`asked`, `at` and `pure` are history: the conditions the branches of each group
were given, the physical line, and whether a file has included another. They are
read by properties only.

Abstracted: a text line is one name and what the line does to a block comment; a
macro's value is a number; a condition is what the code makes of the first
operand (it ignores the rest of the line). Left out: what a line expands to,
which is `MacroExpand`, and files whose last line has no newline.

### Symbols

`generate_module` makes the LLVM module in passes: the predeclared functions,
the string literals, the globals of `ctx->code`, then its functions; `pass` says
which. `module` has the symbols in the order they were added. LLVM keeps one
symbol per name and renames a second (`x.1`), which no lookup finds: `renamed`.
`funcTypes` is `ctx->func_types`, which only calls of undeclared functions enter.
The nodes are the environment. A pass takes the nodes of its kind, so a node is
chosen when its pass comes to it; that the parser read a body when it knew only
some of the globals is `seen`. In a body, the expressions that name a symbol are
actions: a call by name (declared or not), a global, a literal, `__func__`, a
function as a value. `gvars`, `funcs`, `calls` and `reads` are history. Fetching
a parameter that the LLVM function does not have is undefined behaviour and ends
in `"undefined"`, of which nothing is promised; `int f(); int f(int a) { ... }`
leads there.

Abstracted: a function type is its number of parameters and whether it is
variadic; one name stands for all predeclared functions; names are not cut to 63
characters. A variable named like a predeclared function (`alloc4` is not
reserved) is renamed, so that lookups yield NULL and the code reads 0;
`AccessesReachASymbol` leaves that name out.

### MacroExpand

One line of text, with the macros that are defined when it is read: the loop over
the line (`status = "text"`), `parse_macro_args` ("args"),
`expand_function_macro` ("body") and `expand_macros_in_text`, whose recursion is
`stack`. A turn of a loop is an action, so that `##`, `#`, `__VA_ARGS__`, quotes,
comments and a call that the line ends in meet in every order. `Inputs` are the
lines with their macros; `MCMacroExpand` builds them from groups of characters
that concern one another (arguments, pasting, comments, chains). The loop is
entered with and without an open block comment, which is the composition with
`Preprocess`: that module says what the flag is at each line, this one what the
line becomes. Abstracted: letters (two or three), one digit, one blank, and one
quote that stands for both kinds, so that a quote of the other kind inside a
string is not told apart.

### Lexer and Lexemes

`Lexer` is the loop of `tokenize`, an action per branch in the order of the code,
with a string literal read character by character since it allocates on the way;
`live` counts what is allocated. Its errors free the list on several paths
(`refused`, `memory`). Behind it are the operations by which the parser reads the
list. `Lexemes` states what the tokens are: not a scan but, for every form, which
pieces of text have it, and that the longest is taken. A character is a class of
characters that the code tells apart. Abstracted: the value of a float; names are
not cut.

### Initializer and Elements

`slots`, `count`, `next`, `index`, `newCap` and `fixed` are the locals of
`parse_initializer`; `phase` is where in one turn of its loop the parser is:
before an element, doubling the table, before the value. A type is a kind and a
number of places; `alias` is a pointer that a typedef names, whose Type object
(`aliasSize`) every declaration with it shares, so that one list gives others
their size. `Close` is the closing brace and what the caller (a global, a local,
a compound literal) does with the list; `Generate` makes the stores of codegen.c.
`Elements` knows only the places written, the cursor, and the length. Doubling
`newCap` past `INT_MAX` is undefined and ends in `"undefined"`. A list in an
element is a call with variables of its own and is not nested in the model.

### Types and TypeLayout

`heap` has every Type object in the order of allocation; `typedefs`, `tags`,
`objects`, members and pointers refer to it by number, so that a declaration that
changes an object changes it for all who share it, as in the code. `stack` is the
recursion of `try_parse_type` for members; its `step` the place in the function.
`list` is the variable whose initializer list is being read: what stands in the
list may name types, and declares nothing. At its end the number of its elements
becomes the size of the variable's Type if that has none (`Sized`), which all
share who have the Type from a typedef; a global asks for the size in front of
the list (`before`), a local behind it, and a compound literal behind its own.
What the elements are is `Initializer`. `shared` and `sized` are history, read
by properties only: the types that a typedef stood for, and those that have
their size from a list.
`TypeLayout` translates `type_size` and `type_align` (parse.c),
`codegen_type_size` (codegen.c) and, from what `to_llvm_type` builds, LLVM's
layout (external); `Regular` and `Packed` say for which types they were written. `Unsized` takes
the sizes that lists gave out of a heap, and `Without` says which types are not
made of some others.
Each is a recursive function on the heap, whose body is an operator of its own:
`TypeSizeOf(h, s, i)` is the size of the type `i` if `s` has those of its parts.

### Expression

`operands` are the values `codegen()` has returned and nothing has taken: a node
takes its operands from the end of the list, which is the order of the code
without an explicit tree. An operand has the type the parser gave its node
(`ty`), the LLVM value (`val`: an LLVM type and bits), what C says (`cty`, `cv`)
and what `codegen_constant` makes of it (`folded`). Widths are small: 3, 4, 5 and
6 bits stand for 8, 16, 32 and 64, which keeps every order between them.
`kept` is true as long as no node below is of a kind where the code is known to
depart from C; section 5 lists those kinds, and the properties speak of all
others. Undefined results of C (overflow of a signed type, division by zero, too
wide shifts) are not read on. Bits are arithmetic: `Power` is the function of the
powers of two, a value of `b` bits is a rest of `Power[b]`, and `&` is a sum of
the bits that both operands have, so that all of it can be reasoned about.
Reals are numbers: there is no NaN, so the ordered `!=` of the code and the one
of C are the same here.

## 3. Runs

| Run | Instance | Shows |
|---|---|---|
| `scope` | 2 names, 2 slots, 2 top-level nodes and functions, 1 nested scope | types and slot bound, stack discipline, complete chain, own VLA counts, disjoint chains, lookup is innermost, refinement of `LexicalScope` |
| `cfg` | 5 statements, 5 activations, 2 labels, plain and logical conditions | targets are innermost (`continue` has none in a switch), flags agree with blocks, label blocks apart, every block ends with its only terminator |
| `cfg_code_after_return` | 4 statements | violated: `case 1: return 1; break;` emits behind a terminator |
| `symbols` | 3 nodes, or 2 with 2 expressions; 2 names and a library function; 0 or 2 arguments; 1 literal | calls have the callee's type, one function per name, static is private, lookups find a symbol, calls that agree with the source fit |
| `symbols_definitions` | as `symbols` | violated: a definition with an empty body is not generated |
| `preprocess` | 5 lines, 2 names, groups 3 deep, 3 files | one definition per name, bits mean conditions, refinement of `ConditionalText` |
| `macro_expand` | lines of 3 to 6 characters in groups, chains of 3 macros, limit 1 | calls are divided at their own commas, the recursion keeps its limit, nothing that could expand is left |
| `lexer` | texts of up to 5 characters in groups, strings that start with 1 byte, `INT_MAX` 200 | the tokens are the longest lexemes, positions are true, no way out loses or frees twice what was allocated |
| `initializer` | 2 lists, 3 elements, indexes to 4, tables from 1 slot, `INT_MAX` 7, types of 0 or 2 places | slots fit the table and the object, the stores fill the LLVM type, a table that grows reaches its index, refinement of `Elements` |
| `types` | 3 Type objects, 3 declarations, 1 name, lists of 0 or 3 elements, structs of 2 members, 2 calls deep | references stay on the heap, members are numbered as LLVM numbers them, a type changes only by its qualifiers, its members and one size from a list (more if it is shared), the `sizeof` of any step is what is allocated after later ones, unions hold their members |
| `types_qualifiers` | 2 Type objects, 3 declarations | violated: `restrict` before a typedef name qualifies earlier parameters |
| `expression` | 5 nodes; one or two values for each of 7 types | the LLVM type of a value is the one of its node, the value is C's, and constants fold to it |

The violated properties state what the README or a comment of the repository
says; `PROJECT.json` quotes the lines under "findings".

Why the bounds are enough. *Scope*: a nested scope and two names give shadowing
and a declaration that outlives its scope, two slots are filled by a parameter
and a local and the limit is hit; two functions are what a leak from one to the
next needs. *CfgGen*: a construct in a construct with a jump in it and a
statement behind it takes four statements, a label and its goto make five; an
activation per statement is the deepest they nest. *Preprocess*: two groups in
each other with an `#elif` or `#else` and a definition before take four or five
lines; three files are the least in which an includer was itself included.
*Symbols*: a call, a prototype and a definition of one name in every order are
three items, and a second call to use the cache makes four. *MacroExpand*: a limit
of one is passed by a chain of three, met by one of two; four to six characters
are a call with an empty argument or one in parentheses. *Lexer*: the longest
decision of the code, an exponent with a sign (`1e+1`), takes four characters and
one behind it; four characters in a string double its buffer twice. *Initializer*:
index 4 takes two doublings of a table of two slots at once, and the capacity 8
that it asks for is past `IntMax`; three elements are a position, a designator and
a position behind it, or two designators of one place; two lists are the ones
that share a typedef. *Types*: what a list does to a
type takes a typedef of a pointer and two variables of it, or a variable between
them that is a struct: three declarations and three objects (the pointer, what it
points to, and a struct or union with the pointer in it). Three elements and an
array of two make the sizes differ. *Expression*: a conversion, an operator of two operands and its
assignment take five nodes; the widths 3 to 6 keep every order between the
integer types and make each value that overflows one of them a small number. The
proofs below cover all larger instances of every module, the widths 8 to 64 among
them.

`MaxFunctions`, `MaxNesting`, `MaxStatements`, `MaxFrames`, `MaxLines`,
`MaxGroups`, `MaxFiles`, `MaxStrings`, `MaxNodes`, `MaxItems`, `MaxPlaces`,
`MaxIndex`, `MaxElements`, `MaxLists`, `MaxTypes`, `MaxDecls` and `MaxMembers` are
bounds of the model only; `MAX_LOCALS`, `MAX_NODES`, `InitialCap`, `IntMax` and
`MaxDepth` are the code's limits, made small.

Deadlock is checked in every run but `lexer` and `macro_expand`, whose last
states have no step; in the others the final states (done, exited, verified) have
a step that changes nothing, so that a state from which the code could not go on
would be reported.

**Fairness.** The compiler is one sequential program: while a loop has input it
takes its next turn, nothing else can run instead. So weak fairness is assumed of
the steps of a loop, never of a particular choice of text. `Initializer`:
`WF_vars(ListSteps)`, a list that was begun is read on; `GrowthEnds` then says
that the doubling of the table comes to an end. `Lexer`: `WF_vars(Tokenize)`;
`Lexemes` asks that every text is read to its end or refused, so
`ImplementsLexemes` has that no branch of `tokenize` leaves `p` where it was.
`MacroExpand` states `WF_vars(Next)` for the same reason and checks invariants
only. The other modules assume none: what they wait for is the environment.

## 4. Proofs

`tlapm` checks the eight proof modules from nothing. Assumptions are those on the
constants: `NamesAssumption` and `LimitsAssumption` (Scope), `NamesAssumption`
and `BoundsAssumption` (Preprocess), `NamesAssumption`, `TypesAssumption`,
`BoundsAssumption` and `StringsAssumption` (Symbols), `SizesAssumption` and
`NULLAssumption` (Initializer), `FlowAssumption` (CfgGen), `TextAssumption`
(Types), `DepthAssumption`, `LettersAssumption` and `InputsAssumption`
(MacroExpand), `CapAssumption`, `IntAssumption` and `TextsAssumption` (Lexer),
`WidthsAssumption` and `ValuesAssumption` (Expression); they say that the empty name is no identifier, that limits and array sizes are
natural numbers, that texts are sequences of the characters that the code tells
apart, that no letter is a digit or one of the code's marks, that the text has
the type keywords and qualifiers the parser knows, that an expression branches
like `&&`, like `?:` or not at all, that the first table of slots has a slot and
is no larger than `INT_MAX`, that NULL is no value, that the predefined macro is
a name with the value 1, that no identifier is the name of a string
(`.str.0`, `.funcstr.f`), that LLVM's integer types are of more than one bit and
each wider than the one before, and that a variable holds a value of its type and
the places of an array can be numbered in an `int`.

**Scope** (`ScopeProofs`). Theorems: `TypesHold`, `StackIsDisciplined`,
`ChainIsComplete`, `VlaSizesAreOwn`, `ChainsAreDisjoint`, `InnermostIsFound`,
`ScopeImplementsFrames`. `TypeOK` is not inductive alone: that `scope_depth` is
the number of open calls, and which phases have some (`Control`), is needed to
know that `LeaveScope` is called with a scope to leave. On top of it, `StackInv`
has the order of the list and "one declaration per scope", which make
`leave_scope`'s "pop while deeper" equal to dropping the declarations of one
scope; `LocalsChain` is inductive with the types, as slots are numbered by all
declarations and not by the visible ones, and own VLA counts follow from it;
`ChainInv` tags declarations with their function, the ones on `code` being of
earlier functions than the current one, so that chains cannot meet. The refinement
maps the list to one function per depth; its lemmas say what appending and
popping do to such a function.

**Control flow** (`CodegenProofs`). Theorems: `TypesHold`, `TargetsAreInnermost`,
`LabelsStayApart` and, where no switch body goes on after a return,
`FlagsAreRight` and `BlocksAreWellFormed`. The inductive invariant `IInv` has two
parts. `Base` holds for every program: an activation refers to blocks that exist,
the targets in the context are those of the innermost loop or switch (for
`continue`, none if that is a switch) and the ones it saved those of the constructs below it (`RightTargets`), and the block of a
label is that of no other label and of no loop or switch (`LabelsDiffer`,
`LabelsFree`).
`Owed` is about terminators and assumes `~CodeAfterReturn`, without which the run
`cfg_code_after_return` refutes it. Whether a block ends is decided far from where
it was made, so the invariant keeps accounts: every block without a terminator,
other than the one at the insertion point, is claimed by exactly one activation
(`ClaimsOf`: the exit of a loop, the end of an `if` whose branch did not return)
or by a label that waits for its statement (`Ledger`), and a has_return flag says
whether the insertion point is such a block (`Flagged`). A statement that ends
gives its claims back; when the function does, only labels have any left, which is
`WellFormed`. There is a lemma for each action (`WhileHolds`, ...), with those on
appending and ending blocks below them.

**Expressions** (`CodegenProofs`, behind the blocks). Theorems:
`OperandsHaveTheirTypes`, `TheValuesAreC`, `TheConstantsAreC`; each is read off the
inductive invariant `ExprInv` (`ExprInvariant`). That a value of LLVM and a number
of C are the same is `Stands`: the number is in the range of the type, read with
the signedness of the node, and the value is its rest by the power of two; then
reading gives the number (`ReadIs`). `Held` says it of an operand that the code
keeps, and `Agree` that the type of its node is C's type, or one that C promotes
(the code leaves a `short` a `short`), or the pointer that the parser takes a
difference of pointers for. `TestOK` and `StoredOK` say as much of a condition that
waits for its branches and of what is stored.
Below it are three groups of lemmas. The first is arithmetic: rests of sums,
products and bitwise ands of rests (`ComputedOfSame`), ranges that hold one
another (`WiderRange`), shifts, quotients (`Least` gives the powers, as induction
cannot be used). The second is conversions: `cast_value` is C's conversion
(`CastStands`), `match_types` keeps the number (`Matched`), and two operands of
which one is wide meet in the LLVM type of C's usual conversions (`OperandsMeet`),
while `get_common_type` gives the node a type that agrees with it (`CommonAgrees`).
The third joins both for each kind of instruction (`ArithmeticStands`,
`ShiftStands`, `ComparisonStands`, `PointerStands`) and for compound assignments,
whose operator has no type (`CompoundStands`). For constants, long long holds every
value of int, so that folding does not wrap (`FoldedIs`).
The proof found the model wrong in one place: `Conditional` took one operand too
many from the list, one from before the condition, which no property saw, as an
operand that is lost is not asked about. It also says why an array has to be
numbered in an `int`: `p - i` negates the index in its own type, which is right for
every index but the least of the type, and only an array longer than `INT_MAX` has
a place that far away.

**Preprocess** (`PreprocessProofs`). Theorems: `TypesHold`,
`BitsMeanConditions`, `FilesAreReadForActiveLines`, `NamesHaveOneDefinition`,
`LinesAreCounted`, `PreprocessImplementsText`. The inductive invariant `CondInv`
joins types, `ActiveIsMeaning` and `IncludersAreActive`. The code decides whether
a line counts from the top of the stack of its own file. That this is the
conjunction over all groups of all open files needs the meaning of both bits for
*all* groups (`TopMeans` for the group that changes, `SamePrefix` for those that
do not), and that includers stay active. `#elif` and `#else` are shown to be one
operation (`Branch`). For the macro table, `OneDefinition` is inductive with the
types, and makes "the first match" of `find_macro` "the match", which gives the
meaning of every name after `#define` and `#undef` (`DefineMeans`, `UndefMeans`).
`LiveIsActive`, `SameAnswer` and these then map each kind of line to a step of
`ConditionalText` (`StepImplements`). `CountInv` strengthens `LinesUntilInclude`
by "files that are not the last have included something".

**Symbols** (`SymbolsProofs`). Theorems: `TypesHold`, `CallsHaveCalleeType`,
`NamesHaveOneFunction`, `LinkageFollowsStatic`, `AccessesReachSymbols`,
`AgreedCallsAlwaysFit`. All rest on `StepGrows`: no step
changes the kind, name, type or renaming of a symbol that is there, and one that
is added is renamed exactly if its name was taken. So a lookup by a taken name
has one answer for ever (`TakenStep`). `TypeOK` needs that the first symbol stays
the library's, which `func` is set to between bodies. For calls the invariant is
`CacheMatches`: the name of an entry is taken, and a function found by it has the
type of the entry, so the type that a call takes is its callee's whether or not
the cache has it. `OneFunctionPerName` follows from `Unique` (no two symbols are
found by one name) and `NamesMatch` (a function is renamed only where a global
has its name; variables are globals or strings). For linkage, `NodesTaken` (the
name of a node is taken from then on) shows that a new symbol has no earlier
node, and `Unique` that a node changes the linkage of no other symbol of its name.
For accesses, the order of the passes is the argument: literals are numbered by
their place (`StringsNumbered`), a global is added when only the library's
functions are there to take its name (`LibraryAlone`), and the string of `__func__`
before the body that reads it (`FuncStrFound`). For calls that agree with the
source, `TypesHaveOrigins` traces the type of every function to one of its nodes or
to an earlier call, and neither kind of origin is ever lost (`OriginStays`).

`TypesHold` of Preprocess and of Symbols, `FilesAreReadForActiveLines`
(`IncludersAreActive`) and `LinesAreCounted` (`LinesUntilInclude`) are proved and
not run: the theorem says it for every instance.

**Initializer** (`InitializerProofs`). Theorems: `TypesHold`, `SlotsAlwaysFit`,
`PlacesAlwaysWritten`, `ImplementsPromise`. An element is read in up to three
steps. `SlotsFit` says what holds between two elements; while one is read,
`slot_count` may already count a slot that is still NULL, which is what `Located`
describes: it is the slot of the element itself, and the table is too small for
it exactly while it grows. `Sized` carries the size that was asked for at the
opening brace to the closing one. For the stores, `ListsFill` has that a list
with elements has as many as its type has places: a typedef without a size gets
it from its first list that is not empty and never changes it again
(`SizeAfterClose`), so that lists closed before still fit. The refinement reads
the cells off the table (`CellsOf`): growing does not change them (`SameCells`),
a value changes one (`WriteCells`), and the length at the closing brace is the
one `Elements` asks for (`CloseLength`), as the last counted slot was written.

**Types** (`TypesProofs`). Theorems: `TypesHold`, `MembersAreNumbered`,
`TypesAreKept`, `SizesAreAllocated`, `UnionsAreLargeEnough`. Steps change Type
objects that names share, so the invariant is about the heap (`HeapFits`: a type is
made of older ones, members are numbered by place) and about the calls of
`try_parse_type` that are open (`StackFits`). What
makes the closing brace of a body harmless is that the struct still has no members
and that no two open calls read a body of the same struct, even through its tag;
this is in `CallFits` and `StackFits`, and gives `TypesKept`. Each action shows
`Holds`: the heap only grows, and types keep what they are but for the members of a
struct that had none (`KeepsBut`). That a size is written twice only to a type that
has the name of a typedef needs `ListInv`: the type of the list that is being read
is on the heap, is a pointer, and had a size in front of the list only if it has
it still or is shared.

For the sizes the heap has to be `WellMade`: what a type is made of (`PartsOf`: the
element of an array, the members of a struct or union) is whole, and can be given
ranks that fall from a type to its parts. The order on the heap is no such rank, as
a tag's object is older than the members it gets; but nothing is made of a struct
while its body is open (`Complete`, `Open`), so that closing it may give it the
highest rank (`OneMade`). `MadeInv` adds that the members read so far of open bodies
are whole. On such a heap `Solution` shows that the recursive functions of
`TypeLayout` exist, and `Descent` is the induction for what they return. Sizes
without padding are sums (`PackedSizes`), sizes are multiples of alignments
(`Multiples`), and so the size of a union of members that are aligned alike is its
largest member's without rounding (`RegularSizes`, `UnionsHold`).

The heap of the code need not be well made: by a list, a struct can become a part
of itself. So all of this is about `Own`, the heap without the sizes that lists
gave, for which `MadeInv` is inductive: what a list writes does not show there
(`GivesKeeps`). `SizesAreAllocated` compares the sizes of one step with those of
the next and has that they stay, so that the first is also the last. `LooseStep`
is that a pointer which can still get a size after a step could before it, so that
a type that is settled stays so; the `Alike` lemmas are the induction that two
heaps which agree on all parts of a type give it the same sizes.

**Lexer** (`LexerProofs`). Theorems: `TypesHold`, `BlocksStayReachable`,
`PositionsAlwaysTrue`, `LongestLexemesAreRead`. `LexInv` joins the types with what
the string literal that is being read has (its bytes fit its buffer, with one to
spare for the terminator). For the blocks, what `live` counts is shown equal to
what the list holds by counting: a token more is a block more, and a string token
two (`FreeTokens` is a cardinality). For the positions, `PlaceInv` says where the
counters stand inside a token as well; `Counted` is what a scan over letters,
digits and blanks adds to them, for a scan of any length. `LongestLexemesAreRead`
is the refinement of `Lexemes`, all but its fairness. The first character says
which forms a piece can have at all (`Beginnings`, `OnlyForm`); for each of them,
where the code stops is where the form ends (`WordTaken`, `CharTaken`,
`FloatTaken`, ...), and no longer piece has it (`FloatIs`, `IntegerIs`,
`HexFloatIs`, ...), where one text has two forms as well: `1e5` is an integer,
too, up to the `e`. A string is read in many steps that are none of `Lexemes`;
`StringInv` says that every quote read since its beginning is behind an odd number
of backslashes and the one that comes next is not, and `Alternates` that each
backslash turns this round. Refusals are the other way about: nothing that begins
there is a lexeme (`InvalidRefused`, `BadCharRefused`), or it opens a comment that
nothing closes (`UnterminatedRefused`).

**Macro expansion** (`MacroExpandProofs`). Theorems: `ExpansionKeepsItsLimit`,
`TypesHold`, `ArgumentsAlwaysDivided`, `NothingStaysLeft`. For the limit nothing
has to be known of the texts: a first call is at depth 0 (`FirstCall`), one more
is made only below it (`NextCall`), and one that goes on or returns keeps the
depths of those below it (`TopGoesOn`, `CallReturns`). `TextInv` is the types of
every loop; what `AfterQuoted`, `Stringified` and `VaArgs` return for a text of
any length is had by the smallest place at which they would go wrong.
`DivisionInv` says what the argument list is at every character of a call: the
place read is behind a divider (`IsFresh`), in an argument (`IsInArg`) or at the
end of the call (`IsEnded`), each finished argument lies between two dividers that
follow each other (`IsPiece`), and there are as many as dividers so far; the code
skips blanks before an argument and cuts those behind it, which is what `Trim`
does to the whole piece.

`NothingIsLeft` speaks of a line without quotes and comments, of chains that fit
the limit, and of calls that no name follows at once. `LeftInv` says what holds on
the way of a line that is so undisturbed. The texts made so far hold no object's
name (`CleanIn`); one that ends in a name is not followed by more of it in what is
read next (`Apart`), nor does a text that waits for a call end in one; and
every object named in the text of a call at some depth ends a chain of that
length (`ReachedIn`). The names of two texts put together that stand apart are
names of the one or of the other (`Joins`), so that each append keeps the texts
clean; where the code stops at its limit, an object's name in the text would end
a chain longer than allowed (`NoLonger`, `TooDeepLeft`). A mark that was copied
never goes away (`MarksStay`), so that a line undisturbed now was undisturbed
before. The proof found an earlier form of the property false beyond the bounds
of its run: a call's result and a name behind it were read as one name, and so
were letters behind a digit. The property now asks for what it needs, and the
run has the lines.

**Induction.** The library's induction theorems take an operator as a parameter
and cannot be used. Where a recursive function is over numbers, the proofs take
the set of the places where the claim fails and a least member of it instead
(`Least`, `Greatest`), and build the function one place at a time. For types they
take the ranks of `Founded` in the place of the numbers.

**Only model-checked**: `GrowthEnds`, the part of `ImplementsLexemes` that says that every text
is read to its end, and all else that depends on fairness, which is beyond the
prover; and the properties that the code violates.

## 5. Known departures that no run shows

These were met while modelling; the modules say what the code does, and their
properties leave the case out or do not speak of it.

- Scopes. Enum constants are looked up before locals, whatever scope they are of
  (parse.c:62); the initializer of a global behind a function sees that
  function's locals (parse.c:1111); `sizeof` of a pointer can read the element
  count of a VLA of an earlier function (parse.c:164).
- Control flow. `continue` in a switch in a loop is refused, as the switch clears
  the target (codegen.c:1766, 1835), where C goes on with the loop and
  src/README.md:142 lists `continue` among the statements that nest;
  `InnermostTargets` says what the code does, a target of NULL; a label behind a return in a block is parsed and
  not generated, so that a goto to it has an empty block (codegen.c:887).
- Initializers. A local union is stored like an array of int, whatever its member
  (codegen.c:2167). `PlacesAreWritten` counts places and does not ask of which type
  they are, and `Elements` leaves open to which member of a union a value is cast.
- Types. `type_size` has no case for short, nor `type_align` one for an array's
  elements (parse.c:1669), so a struct with such members has another size in
  `sizeof` than in LLVM; `SizeofIsAllocated` speaks of the types of `Regular`. A
  union whose greatest member by `codegen_type_size` has padding can be too small
  for another (codegen.c:118); `UnionsHoldMembers` asks for packed members.
  A list gives its length to a Type that a typedef shares (parse.c:1122, 1220,
  1927): after `typedef long *T; struct S { T p; };` a `sizeof(struct S)` is
  folded to 8, and `T x = {1, 2, 3};` behind it makes the struct 24 bytes; a
  `struct S` that `T` points to becomes a part of itself by `T x = {0};`, and
  has no size at all; a `sizeof x` in the list of `x` is that of a pointer; and a
  global's list, which looks at the size in front of itself (parse.c:1104),
  overwrites one that a compound literal inside the list gave meanwhile.
  `SizeofIsAllocated` and `UnionsHoldMembers` speak of types that no such
  pointer is a part of.
- Preprocessor. A comma in a string divides the arguments of a macro call
  (preprocess.c:468), and a file may end in an open group (preprocess.c:918).
  `__LINE__` is that of the included file after an `#include`
  (preprocess.c:505); directives inside a block comment are obeyed
  (preprocess.c:522).
- Macro expansion works on text, not on tokens: what `F(x)` becomes and a name
  right behind the parenthesis are one name when read again, and letters behind a
  digit (`1L`, `0xFF`, `1e5`) are looked up as a name (preprocess.c:399, 846).
  `NothingIsLeft` asks that no name follow a call at once and does not count the
  letters behind a digit.
- Expressions (left out of `kept`). Loads through a pointer or of a member of
  unsigned narrow types are sign-extended; two narrow operands are not promoted;
  unary minus is typed int; an unsigned operand beside a real one is read with its
  sign; a shift by a wider operand widens; the value of an assignment is the
  right side before its conversion; `++` of a char or short stores 32 bits and
  `++` of a real and `~` of an assigned real are refused by LLVM; an argument of
  type bool is not normalised; a literal beyond `INT_MAX` is clipped; an unsigned
  index of a pointer is read with a sign; the difference of two pointers is typed
  as a pointer; `/=` and `>>=` of integers dereference a NULL type; folding
  ignores casts and signedness; `double g = 1;` at file scope; `(short)x` is not
  taken for a cast; a compound assignment evaluates its left side twice
  (parse.c:1441); a call is always typed int (parse.c:2187); `!=` of reals is ordered
  (codegen.c:1283), so that it is false of a NaN.

## 6. Not modelled

- The driver (main.c, file.c) is a straight line of calls that end the program on
  failure; what is worth saying about it, that a module the verifier rejects is
  written all the same (codegen.c:914), is listed as a hazard.
- Of the expression parser, the grammar (precedence climbing builds the tree that
  its calls spell out and has no state beyond the names, which are in Scope);
  calls, subscripts, members and `sizeof` as expressions; `long long`.
- Of code generation, addresses and aggregates, the arguments of calls beyond
  their number, and debug output.
- LLVM's own passes, file I/O, the text of messages, memory management except for
  locals' chains, tokens and strings; the runtime stub, build files, self-hosting
  headers, demos and tests.
