# A TLA+ verification of the ADAN compiler and its runtime

ADAN is a small imperative language ("designed to be written like JavaScript", README.md:5 of the
repository).  The repository holds its compiler, written in C, and its standard library, partly in C and
partly in ADAN.  The compiler is a sequential pipeline; the process library is where programs meet
concurrency.  There is no test suite: what the code promises is in its assertions, diagnostics and
README, and mostly in the code itself.

Paths below are relative to the repository.

## 1. Inventory

### The pipeline

    source --scanner/parser--> AST --validator--> AST --lowering--> IR --llvm emitter--> .ll --linker--> program

Each stage calls the next with a data structure; there are no messages and no callbacks.  Interaction that
is easy to get wrong goes through **global state**: the flat symbol table and the loop targets of
`lower.c`, the registries of imports, signatures and exports of `validator.c`, and the file system.

| component | state it keeps | operations | what makes it correct | hard behaviours |
|---|---|---|---|---|
| scanner (`src/frontend/scanner`) | position, depth of braces, stacks of quotes and interpolations | next token | tokens cover the source | a `}` that ends an interpolation or a block, end of input inside of a token |
| parser (`src/frontend/parser`) | three tokens of lookahead, recovery flag, error count, symbols and aliases | one function per rule, `synchronize` | accepts the language, builds its trees, always ends | casts, names of modules and calls begin alike; recovery; nobody reads the error count |
| AST (`src/frontend/ast`) | the tree | create, clone, free | every node freed once | ownership moves on import |
| symbol table (`src/stm.c`) | a stack of scopes | push, pop, insert, lookup | lexical scoping | scopes left behind |
| validator (`src/frontend/semantics`) | scopes, loop depth, current return type, registries | one `validate_*` per node | accepts only what the lowering can lower with the same meaning | registries keep the first entry, import cycles, names that collide |
| lowering (`src/backend/lower.c`) | current block and function, flat symbol table, loop targets | `lower_statement`, `lower_expression`, `lower_program` | the IR does what the source says | blocks reserved for later, terminators, hidden names |
| IR (`src/backend/ir`) | modules of functions of blocks | one emitter per instruction | each block ends in one terminator | emitters refuse with a warning, the caller goes on |
| LLVM emitter (`src/backend/llvm`) | the output file | print the module | prints what the IR says | repairs blocks without a terminator |
| linker driver (`src/backend/linker`) | temporary objects, argument lists | find tools, compile, link, clean up | no temporary file survives | a subprocess that fails half way |
| driver (`src/main.c`) | the paths and the exit code | the pipeline above | exit code 0 means a program was made | the `.ll` file of a failed link |
| value runtime (`src/backend/runtime`) | objects, arrays, strings on the heap | create, set, get, push, pop, insert, remove, slice, format | every string has one owner | interior pointers that outlive their container's entry |
| process library (`libs/process`) | pipes, builders, child processes | run, run_capture, spawn, kill, is_running, environment, file system | all output is captured, the call returns | concurrency with the command, full pipes, EAGAIN, early close |
| regular expressions (`libs/regex`) | pattern tree, match state | compile, match, find, replace, split | agrees with the definition of matching | backtracking, empty matches |
| libraries in ADAN (`libs/*.adn`) | none, or one global | collections, json, math, path, random, string, log, test | each function against its definition | boundaries |

PROJECT.json lists every component with its status, and 40 hazards: the places where this code is hard to
test, each with the properties that would catch it going wrong, or with the reason why none does.

### Components and what is hard in them

*Lowering.*  An `if`, `while` or `for` creates all of its blocks at once and emits into them later; in between,
arbitrarily nested statements are lowered.  `ir_emit_br` and `ir_emit_cbr` refuse a block that has already
ended and only print a warning, `ir_emit_load`, `ir_emit_store` and `ir_emit_call` append to an ended block without looking.
That nothing is ever refused or appended is a global argument about who holds which block.

*Capture.*  `adn_process_capture_exec` multiplexes two pipes with `select` and nonblocking reads while the
command, and what it forks, writes to them.  The command may fill a pipe, close one output early, leave
a background process that holds both, or be killed while it is blocked.

*Values.*  The items of arrays and the entries of objects own their strings; a read returns the owned pointer,
a pop hands the ownership over, a set frees what was there, a slice copies.  An argument may be a pointer
that an earlier read returned, into the very container that is changed.

*Imports.*  A module is validated where it is imported first, in the middle of the validation of its importer, with
the importer's scopes under its own.  Its declarations get internal names, are registered as exports and are put behind
those of the importer.  Registries are global, searched from the front, and keep the first entry of a name;
modules are told apart by the last segment of their path.

*Builds.*  The driver and the linker driver leave the outside world between steps in files with names made of the
source's path, or of the process id and a counter.  Each call to the outside may fail; a build may be killed; two may run
at one time; a process id is used again.

*Syntax.*  Whether a name begins a call, a cast, a member or a function of a module is decided from up to three tokens
and from what was declared so far; after an error the parser skips to a token that looks like a beginning.

*Patterns.*  The matcher tries alternatives in order and commits to the first success inside of groups; captures are
copied and written back.  Each call of the library has its own loop over positions, with its own treatment of empty matches.

*Names.*  The validator resolves names on a stack of scopes, the lowering on one flat table, in a different
order.  They have to agree on the declaration each use refers to.

## 2. The modules

| module | models | state | checked by |
|---|---|---|---|
| `StructuredFlow` | the meaning of a body of statements: which statements, conditions and increments are performed, in which order | `at`, where the program is | as the abstract specification of `Lowering` |
| `Lowering` | `lower_statement` on control flow, the emitters of `ir.c`, the execution of the printed blocks | block tables `code`, `term`; current block `cur`; `stack` of open statements; loop `targets`; `ip` | `MCLowering` |
| `LoweringProofs` | proofs about `Lowering`: block tables, frames, terminators | | tlapm |
| `SourceProofs` | proof that `Lowering` implements `StructuredFlow` | | tlapm |
| `CaptureService` | what a capture promises | `sent`, `status`, `result` | as the abstract specification of `ProcessCapture` |
| `ProcessCapture` | `adn_process_capture_exec`, the command and its background processes | program counter `pc`, `open`, `ready`, `got`, the pipes and who holds their write ends, the processes | `MCProcessCapture` |
| `ProcessCaptureProofs` | proofs about `ProcessCapture` | | tlapm |
| `ValueStore` | arrays and objects as sequences and functions of values, with the conversions between types | `array`, `object`, `last` | as the abstract specification of `RuntimeValues` |
| `RuntimeValues` | the arrays and objects of `runtime.c`, the memory of their strings | buffers `items`, `entries` with `count`, `size`; memory `cell`; `held`, a string the program got | `MCRuntimeValues` |
| `RuntimeValuesProofs` | proofs about `RuntimeValues`: types and owners | | tlapm |
| `ValueStoreProofs` | proof that `RuntimeValues` implements `ValueStore` | | tlapm |
| `Syntax`, `Grammar` | `tree.c` as trees; the language as productions with the trees of a text: the reference of `Parser` | | `MCParser` |
| `Parser` | `parser.c`, `parser_utils.c` | the `agenda` of pending calls, their local `values`, the lookahead `ahead`, errors, scopes, aliases; `text` and `forms`, what the grammar still allows | `MCParser` |
| `Scanner` | `scanner.c` | a function of a state and a source | `Algorithms` |
| `Regex`, `RegexMatch`, `Utf8` | `regex.c`: the pattern parser; the matcher and the calls; the decoder | functions | `Algorithms` |
| `Imports` | the walk of `validator.c` over modules | the registries, as a record that the walk passes on | `Algorithms`, `Driver` |
| `ImportsReference` | what imports promise, over the files | | `Algorithms` |
| `Algorithms` | inputs that grow, and the properties of the functions above | `kind`, `input`, `pieces` | `MCAlgorithms` |
| `Linker` | `linker_link`, what clang and the file system answer | `files`; for each build `step`, `todo`, `modules`, `items`, `temps`, `count`, `pid`, `trouble` | `MCDriver` |
| `Driver` | `main`, composed with `Linker`; what the analysis makes of a command is the constant `Analysis` | `pc`, `command`, `analysis`, `exit` | `MCDriver` |
| `Build` | `Driver` with the analysis of `Imports` | | `MCDriver` |
| `DriverProofs`, `ResultProofs` | proofs about `Driver` and `Linker`: files; what the exit status means | | tlapm |
| `NameBinding` | `stm.c`, the scoping of `validator.c`, `sym_put`/`sym_get` and the order of `lower_program` | `scopes`, `bound`; `table`, `left`, `lowered` | `MCNameBinding` |
| `NameBindingProofs` | proofs about `NameBinding`: the validator, the lowering, the theorems | | tlapm |

**How the state and the actions correspond to the code.**  The `map` of PROJECT.json names the lines of every
definition.  In outline:

* `Lowering`: a source body is a sequence of tokens, chosen one at a time, so that TLC explores *every*
  body up to a length.  A token that opens a statement is the code of its case in `lower_statement` up to the
  recursive call, `else` and `end` are the code behind the calls; `stack` is the C call stack of
  `lower_statement`, with the block pointers its frames keep.  `SkipSimple`, `SkipOpen`, `SkipElse` and
  `SkipEnd` are the statements that `AST_BLOCK` never reaches.  `Finish` adds the final `ret`.  Then the blocks run: `Exec`, `Jump`
  and `Branch` step through the printed code with arbitrary outcomes of the conditions.  Expressions are one
  event; the `for` over an array is left out.
* `ProcessCapture`: `pc` is the place in `adn_process_capture_exec`; `select`, the two reads, and the wait are
  separate steps, between which the processes of the command act.  The pipes, `SIGPIPE`, `fork` and exit are
  the operating system: external, modelled as the code relies on them.  The fork gives the command
  both write ends in one step and the runtime closes its own in a later one, as in the code.  `pipe`, `fork`, `select`, `read`
  and `waitpid` may each fail (`Errors`).  The code does not look at what `waitpid` returns: `WaitFails` reports code 0
  and ok, and the command may still run; `untold` remembers that the system did not tell how it ended.
* `RuntimeValues`: one action per operation of `runtime.c`, with any kind of read, any index inside of the
  array and beyond it, and any argument that the program can have: a number, a literal, or the string it got last.  `cell`
  is the heap as far as strings go, and a freed place is used again.  `MovedUp` and `MovedDown` are the `memmove`s, on
  buffers that are longer than what is in use.  A failing `realloc` is `ArrayFull` and `ObjectFull`.
  A slice pushes its items one by one, each push may fail to grow, and the loop goes on: `SliceItems` keeps any part of the
  items that such failures can leave (`Pushed`), and `last` says whether it is the whole slice or a "short" one.  A float becomes text as `%g`
  prints it: six digits, with an exponent beyond them (`ToText`).  `last` records each
  call with its result, which is what `ValueStore` constrains.  `RunCommand` is what `process.c` does with an
  argument array.
* `Parser`: a recursive descent parser is a stack machine.  `agenda` holds what the pending calls will still do, `Descend`
  replaces a call by its body (one operator per parse function), `Ascend`, `Create`, `Combine` and `AddItem` are
  returns and the construction of nodes, `Consume` and `FailHere` are `consume`, `Synchronize` is the recovery.  A
  token is chosen when the parser looks at it (`Scan`), so that TLC explores every text of a *dialect*, a few kinds
  of tokens behind a prefix, and stops a text once the counted errors are made.  A crash of the parser (the NULL lexeme
  of the end of file, behind `set`, `const`, a comma of parameters and others) is a state of the model.
* `Scanner`, `Regex`, `RegexMatch`, `Utf8`, `Imports` are sequential code without a suspension: they are operators, a state
  and an input to a result.  A loop is a recursion over the position.  The C stack of the matcher's continuations
  is the recursion of `MatchItems` and `MatchRepeat`; the copies of captures are values.
* `Algorithms` makes them checkable together: its one action appends a piece to an input, and every property is an
  invariant of one kind of input.  It may be read as: for all inputs of at most so many pieces.
* `Imports`: `Analyze` is the whole analysis.  The record it passes on has a field for each global registry.
  `ImportFile` is `validate_import_statement` in its order: mark, declare, validate, restore, collect, rename, declare,
  append.  The name `__ns_<module>_<name>` is the pair of its parts (`Internal`): the code joins them with an underscore, which is not
  injective (`a_b` with `c`, `a` with `b_c`), and exact for the names of the run.  The parser's choice between a call of a module and of a method is part of it (`IsModuleCall`), since it depends on the imports
  that come before.  Types are names; conversions and the types of arguments are left out.
* `Linker` and `Driver`: each call to the outside is a step of its own, and may fail.  `files` is the file system that
  all builds share; `by`, the build that wrote a file, `parts`, the set of what went into it, and `whole` are what the properties are about.
  `Driver` hands what the analysis makes of a program, the bundles, embedded modules and libraries it names, to
  `Linker`.  The analysis is a constant with an assumption (`AnalysisAssumption`: no directory and no module twice), which `Build` gives the
  value that `Imports` computes, and which TLC evaluates for every command of the run; so the proofs are about any analysis that keeps
  to it, and do not reach the recursive definitions of `Imports`.  `Kill` stops a build anywhere and leaves `files` as they are.
* `NameBinding`: again the source is chosen token by token while the validator walks it, with its scopes; then
  `StartLowering` lays out the four passes of `lower_program` (all globals, their initializers, the other expressions and assignments outside of
  functions, the functions that `main` reaches), and each token is lowered on the flat table.  A function is two tokens: its `Signature`, which
  declares its name in the scopes and nothing in the table (an extern function is no more than that), and what begins its parameter and body.
  A use directly behind a global is its initializer.  The increment of a `for` is resolved before
  the body by the validator and after it by the lowering, as in the code.  Left out: more than one
  parameter, functions inside of functions, control flow and blocks outside of functions, code behind a `return`, the types of expressions, and the
  zero that is stored when a lookup yields nothing.  `left[p]` is what pass `p` of the lowering has not come to.

## 3. The runs

| run | question | bounds | distinct states |
|---|---|---|---|
| `lowering` | do the blocks do what the source says, and is every block well formed? | 8 tokens: three nested loops, or a `for` with an `if`/`else` and a jump in it | 1,773,983 |
| `lowering_void` | is a lowered function always one `ir_validate_module` accepts? **no** | 4 tokens, conditions that may be void | counterexample |
| `processes` | does the read loop implement the capture service, does the call return, and is a byte lost whatever fails? | pipes of 1 byte, reads of 2, 2 bytes per stream, NUL among them, one background process, a failure of each of the five calls | 1,035,441 |
| `values` | do arrays and objects have value semantics, and does every string have one owner? | 2 arrays of 2 items, 1 object with 2 keys, a float that `%g` rounds, 2 strings at a time, 2 literals that are numerals, buffers from 1 on | 32,906 |
| `values_held` | does a string the program got stay valid? **no** | as `values` | counterexample |
| `values_commands` | can an array of strings be passed to a command? **no** | as `values`, with commands | counterexample |
| `binding` | do validator and lowering agree on names? | 5 tokens, a function counted as its signature; 2 names, 2 types, both symmetric | 668,173 |
| `binding_hidden` | do they agree when an inner scope reuses a name? **no** | the same | counterexample |
| `frontend` | does the parser accept the language, build its trees, and end? | 22 dialects, each with all texts of 5 to 12 tokens behind a prefix; up to 3 errors | 991,721 |
| `algorithms` | do patterns match, characters decode, tokens cover, imports bind? | patterns, texts, bytes, sources of 4 pieces; 5 declarations in `main` and three modules, two with one last segment | 265,170 |
| `build` | is the exit status true, are temporary files gone, are builds independent? | 2 builds of 8 commands, 2 process ids, 1 kill, 4 modules | 377,072 |
| `reexport` | does a module's name mean the module's own definition? **no** | as `algorithms`, modules only | counterexample |

**Why the bounds suffice.**  A control-flow error shows with a jump inside a branch inside a loop (6 tokens); 8
leave room for a second loop around or behind it.  A pipe smaller than what is written makes
the writer block, a read larger than the pipe covers a partial read; two
bytes per stream show loss, duplication and order.  A name is misresolved by two declarations and a use, and
5 tokens hold two functions with a parameter each and a use in one of them, or a function, a `for` in it, which is two, and a redeclaration or a use.  Two arrays and an object move a string
from any container to any other; two items have a first and a last one for `memmove`, a first capacity of 1
instead of 4 reaches each growth.  The view of the values runs leaves out `last` and the unused end of the
buffers, which no action reads; TLC checks the properties on every step it generates, so nothing is lost.

The parser decides within three tokens, so each dialect holds the tokens that compete in one decision, and is long enough for
the construct twice, nested or side by side.  Four pieces make a pattern with a group, an alternation in it and a repetition, or a
repetition of a repetition behind a character; the texts of up to three characters make it backtrack.  A character of UTF-8 has at
most four bytes, and the bytes are the ends of the ranges the decoder tests.  Five declarations are two imports, a chain or a diamond or a
cycle, with a function at its end and another that competes.  Two builds are enough for a collision, and one kill for what
it leaves behind.  Beyond these bounds there are
the proofs of section 4, for `Lowering`, `ProcessCapture`, `RuntimeValues`, `NameBinding`, `Driver` and `Linker`.

**Properties.**

* `Lowering`: `ReservedOpen` (what an open statement will emit into is open and its own), `BlocksTerminated` (the
  condition of `ir_validate_module`), `TerminatorsFinal` (nothing behind a terminator), `SourceSemantics`
  (refinement of `StructuredFlow`: every run of the blocks is a run of the source).
* `ProcessCapture`: `Conserved` (no byte lost, duplicated, reordered, whatever fails), `Complete` (nobody can write any more when the call goes on to
  wait), `ServiceSafety` (refinement of `CaptureService`: the result
  has all of the output and the code the command ended with; behind a failed `waitpid` the code is 0 and the output still all there), `Returns`.  The last three hold until an error of `select` or `read`
  gives a stream up (`spoiled`): behind one the output may be short, and the call may wait for ever.
* `RuntimeValues`: `Owned` (each string in a container is allocated and in one place), `FreedByOwner` (only the set or clear
  that removes a string frees it), `ValueSemantics` (refinement of `ValueStore`: every read yields what was
  written last at that place, converted; a slice has its items in order, and lacks some only where a push could not grow the buffer).
  `ValueStore` and `RuntimeValues` convert with the same operators, so `ValueSemantics` says which value is converted and where the result
  goes, and takes the text of a number from `ToText`.
* `NameBinding`: `LexicalBinding` (the scope stack finds the innermost declaration, by a declarative
  definition), `NeverUnknown` (the lowering knows each *variable* that the validator resolved a name to), `UnhiddenBinding` (validator and lowering agree on it where no
  variable hides another).  Of the names of functions the first is not true: see below.
* `Parser`: `SameLanguage` compares the parser with the productions of `Grammar` *token by token*: `forms` is the set of
  sentential forms that the text read so far leaves open, and an error comes exactly where it is empty.  `SameTree` compares the tree with what the
  grammar gives the text: `IsProgram` reads it off the text from the outside, with no order of parsing.  `Terminates`: every text is read to its end.
* `Algorithms`, patterns: `MatchSound` and `FlatComplete` compare the matcher with `Outcomes`, the set of all ways a tree
  can match, without an order of attempts; the first for every pattern without a negated look-around, the second, since groups and
  alternations commit, for patterns without them.  `SplitJoin`, `ReplaceSelf` and `CallsAgree` hold the calls
  of the library against each other, on every pattern; `EscapeExact` and `CharactersWhole` go through two conversions.
* `Algorithms`, sources: `SourceScanned`.  What the tokens leave out is layout, each is a longest lexeme, and the ends of interpolations pair with
  their beginnings, by a fold over the tokens with one stack (the code has two and a counter).
* `Algorithms`, modules: `CallsMean` compares the names the walk gives to calls and variables with `Meaning`, read off the files;
  it is stated for programs without cycles in which names tell things apart (`DistinctNamespaces`, `NoneShadowed`,
  `DistinctPrivates`, `SameCounts`, `OnceDeclared`): the registries do not.  It also leaves out every call of a private function of another module that `main`
  imports itself (`lost` in `Bind`): such a function gets no signature where `main` imports its module, so a module that is imported later
  has its call refused, in the same files that pass in another order.  `ModulesMerged` is for *all* programs: each function is merged once, the walk ends
  unless a module imports one with its own last segment, and no program calls a private function.
* `Driver`: `Honest` (exit status 0 means the executable is there, made of this program's IR and of every source and library it needs, also
  when another build runs or died), `Tidy` (what a build leaves behind), `Blameless` (a correct program is built when nothing outside
  fails), `Isolated` (no step of a build changes a file another one has), `Ends`.

Every property has a mutant in its module, a definition changed the way a bug would change it, under which
TLC finds the property violated.

**Fairness.**  *Capture*: the runtime is one thread and always takes an enabled step (weak
fairness of `Proceeds`).  A read that `select` announced is eventually not an EAGAIN (strong fairness of `Read` and
`ReadEnd`, of either stream): each spurious one goes back to `select`, and the kernel does not report a readable pipe for ever
without a read succeeding.  A process of the command goes on (weak fairness of its writes and its exit): that is an assumption about the *command*,
without which no caller of `waitpid` can return.  No fairness of scheduling between the two streams is assumed: the loop serves both.
*Parser*: it is one thread, and its text has an end: weak fairness of `Next`.  *Build*: weak fairness of each build that
runs, `WF_vars(Step(b))`: a call to clang or to the file system returns.  A build need not be started or killed.

**What the violations show.**

* `lowering_void`: the validator never looks at the type of a condition.  A call of a void function yields no
  IR value, `ir_emit_cbr` prints a warning and emits nothing, the block stays open.  `ir_validate_module`
  would refuse the function, but is never called; the LLVM emitter closes the block with a `ret`, and the program
  returns at the loop.
* `binding_hidden`: a name may be declared again in an inner scope, and the validator resolves it lexically.
  `sym_put` overwrites the one entry of the name and leaves it when the scope ends.  The shortest case is a
  `for` whose body declares the loop variable's name again: the increment, lowered behind the body,
  increments the inner variable.
* `values_held`: a string read from an array or an object is the container's own.  When the array is cleared or
  the key set again it is freed, and the variable that holds it names freed memory.
* `values_commands`: the argument vector of a command is made of the array's own strings, and all of it is freed after the
  fork: the array is left with freed strings.  An array of numbers is safe: its strings are made for the call.
* `reexport`: what a module imports it exports under its own name, too, and first.  `libs/log/log.adn` imports `adan/io` and
  defines `error`; a program's `log.error` is io's `error`, without level or prefix.  The same holds for `contains` of
  `adan/test/assert`, `split` of `adan/path/parts` and `matches` of `adan/regex/match`.  Inside of the module the name means its own function.

**What the models show beside the properties**, where nothing says what is right, so that no run claims a violation:

* A program with syntax errors is compiled from the tree that recovery left: `main` does not read the error count
  (`Driver!ReadSource`).  A source cut off behind `set`, `const` or a comma of parameters stops the compiler (`Parser!Crash`).
* Behind a failed `waitpid` a command counts as one that ended with code 0 (`ProcessCapture!WaitFails`).  A slice for which memory runs out
  is returned without some of its items (`RuntimeValues!Pushed`).
* The validator declares the name of a function as a symbol of the type that it returns (`NameBinding!Signature`), so the name alone is
  accepted as a value.  The lowering has no entry for it, prints "Unknown identifier" and goes on: an initialization stores 0.
* The validator accepts `if`, `while`, `for` and blocks outside of functions, and no pass of `lower_program` lowers them.
* `grammar.ebnf` has expressions in the last part of a `for` where the code takes `=`, `+=`, `-=`, `++`, `--` only, and lacks `%`,
  `^`, casts, members, indexes and literals of objects and arrays; the model's `Grammar` follows the code there.  `i8` and `u8` are types, and cannot be cast to.
* `derive_import_namespace` takes quotes off a path but not backquotes; a parameter with the name of an imported module is taken for the module.
* A class reads its dash as a character: `[a-c]` is a, - and c in `regex.c`, a range in `internal.adn`, and which of the
  two runs depends on the text.  A text that is quoted twice loses both pairs (`Unwrap`); look-arounds use up a number of captures.
* Away from the repository's root every link fails: the runtime is looked for at `src/backend/runtime` (`Driver!Bundles`).
  A build fails, too, behind one that was killed with the same process id (`mkdir` finds its directory), and when a carried module's C
  file is bundled for another module of its directory.  Without `-o` the executable is put beside the source, where
  `README.md:64` says "in the current directory".

## 4. What is proved

The proofs hold for every value of the constants that satisfies the named assumptions.

| theorem | module | states | under |
|---|---|---|---|
| `TypeCorrect` | `LoweringProofs` | `Spec => []TypeOK` | |
| `ReservedStayOpen` | `LoweringProofs` | `Spec => []ReservedOpen` | |
| `BlocksAreTerminated` | `LoweringProofs` | `Spec => []BlocksTerminated` | every condition yields a value |
| `TerminatorsAreFinal` | `LoweringProofs` | `Spec => TerminatorsFinal` | |
| `BlocksFollowSource` | `SourceProofs` | `Spec => []Flow` | every condition yields a value |
| `BlocksImplementSource` | `SourceProofs` | `Spec => SourceSemantics` | every condition yields a value |
| `TypeCorrect` | `ProcessCaptureProofs` | `Spec => []TypeOK` | |
| `NoByteIsLost` | `ProcessCaptureProofs` | `Spec => []Conserved` | |
| `CapturesAll` | `ProcessCaptureProofs` | `Spec => []Complete` | |
| `ImplementsService` | `ProcessCaptureProofs` | `Spec => ServiceSafety` | |
| `TypeCorrect` | `RuntimeValuesProofs` | `Spec => []TypeOK` | no array of strings is passed to a command |
| `EachStringHasOneOwner` | `RuntimeValuesProofs` | `Spec => []Owned` | no array of strings is passed to a command |
| `StringsFreedByOwner` | `RuntimeValuesProofs` | `Spec => FreedByOwner` | no array of strings is passed to a command |
| `ValuesKept` | `ValueStoreProofs` | `Spec => ValueSemantics` | no array of strings is passed to a command |
| `TypesHold` | `DriverProofs` | `Spec => []TypeOK` | |
| `IsolatedHolds` | `DriverProofs` | `Spec => Isolated` | |
| `TidyHolds` | `DriverProofs` | `Spec => []Tidy` | |
| `HonestHolds` | `ResultProofs` | `Spec => []Honest` | |
| `BlamelessHolds` | `ResultProofs` | `Spec => []Blameless` | |
| `TypesHold` | `NameBindingProofs` | `Spec => []TypeOK` | |
| `BindingHolds` | `NameBindingProofs` | `Spec => []LexicalBinding` | |
| `KnownHolds` | `NameBindingProofs` | `Spec => []NeverUnknown` | |
| `UnhiddenHolds` | `NameBindingProofs` | `Spec => []UnhiddenBinding` | |

*Lowering.*  `TypeOK /\ ReservedOpen` is inductive: the blocks that open statements keep are open and pairwise
different, so a step on one frame leaves the others alone, and a new block has a new number.  `TerminatorsAreFinal`
follows from it.  `BlocksTerminated` speaks of the end only and is not inductive; what makes it so is
`OpenAccounted`, the converse of `ReservedOpen`: each open block is the current one or kept by a frame, so that nothing
is left open when the stack is empty.  With conditions that may be void it fails, and that is the run
`lowering_void`.

*The source's meaning.*  `BlocksImplementSource` is the refinement of `StructuredFlow`, for bodies of any length and nesting.
`StructuredFlow` finds the next event by searching the text (`Closing`, `ElseOf`) and by a function that is recursive over it
(`Settle`); the blocks find it by branches.  What connects them is the invariant `Flow`, which speaks of the *depth* behind
each token.  `Nesting`: the frames are the open statements of the body so far, from the outermost inwards, and know whether their
`else` has come.  `Skipping`: a frame without blocks is one of a statement behind a terminated block.  `Targeted`: the loop
targets are blocks of the open loops, in their order.  `Laid`: each block has a *role*, such as "what follows the statement at 4", and is either
finished, the current one, or still reserved by a frame; a finished block holds one straight piece of the body that begins
where its role says and branches to the roles that the last token of the piece leads to.  Roles are what makes it inductive: when a block is finished, the blocks that it
branches to need not be filled, and where their statement ends need not be known.
`Flow` is inductive with `TypeOK` and `ReservedOpen`: a new token at the end changes no depth before it, so what is said of
finished blocks stays, up to the `else` or the end that the token is of a statement.

At `Finish` every statement is closed and every block that is left is finished or the last one.  `Settle`, and `Landing` of `Lowering`, are functions with one value
that satisfies their recursive definition: the lemma `Recursion` gives it for a definition whose calls lie further on, by a
least counterexample (well-foundedness from the library), and needs no induction.  Targets do lie further on: a `break`, an `else` or
an end goes to a later token, and what goes back to a loop stops at its condition or increment.  So each place in a block shows the observer what the source does next from
its place of the piece on (`PieceShows`, `PieceLands`), and each step of `Lowering` is a `FlowParse`, the `FlowStart`, a
`FlowStep`, or a stutter: a jump, whose target the observer is shown before it.

*Capture.*  The invariant is `TypeOK /\ Conserved /\ Steady`.  `Steady` says what a program counter implies, and that
until an error of `select` or `read` (`spoiled`) a stream is given up only once it is read to its end and no process holds its
write end: from then on nobody can get it back.  The refinement maps the
service's `sent` to what was written so far; a step of the loop maps to a stutter, the return to the
service's answer, and a failed `waitpid` to the service's step that loses the status (`untold`), behind which the answer is code 0.  `ServiceSafety` itself ends where `spoiled` begins, so the theorem needs no assumption.

*Values.*  The invariant is `TypeOK`, `Owned` in a form without a bound on the places (`OwnedByItem`, `OwnedByEntry`,
`OwnedApart`), `KeysDistinct` and `WithinBound`.  `Owned` alone is not inductive: it sees the first entry with a key
only, so a second one with the same key could hold a string that two places free; `KeysDistinct` says that there is
none.  `WithinBound` brings the places of the invariant back to those that `Owned` names.  Every call is one of three changes: of
one array or one object, in which each place gets an old value of its own or the one new value, which is made at a
free place; a clear; a slice, which makes a string for each of the items it keeps.  A command that gets an array without strings changes nothing (`RunKeeps`); with strings
`Owned` fails, and that is the run `values_commands`.

*The store of values.*  `ValuesKept` is the refinement of `ValueStore`.  Under the invariant above each call maps to one call of
the store.  For an array the argument is the same for push, insert, remove and pop: the new items are `Composed` of old
ones, by where they come from, and of the one new value; the `memmove`s, the growth of the buffer and the choice of
the free place go into "where they come from", and the store's `Append`, `InsertAt`, `RemoveAt` and `Front` are such compositions, too.
For an object one entry is replaced or added.  A slice that lost items maps to the store's `ShortSlice`: what it kept is a thinning of the part, in its order.  What is left is that nothing else changes its meaning: a string is
text in memory, and the memory of a string in another container stays because each has one owner (`Owned`).  So the
theorem needs what `Owned` needs, no command with an array of strings.

*Names, in the validator.*  `Mirror` says what the stack of scopes is: scope `s` belongs to the part of the source that begins at
the construct with key `at[s]` (a loop and a function have two scopes, for their head and their body, a block one), the keys increase with `s`, each
open construct has its scopes, and the entry of each name is the *first* declaration in that part of the source.  From it
follows that a lookup from the top finds what `Lexical` defines without a stack; `Nested` (what `nesting` lists are the open
constructs, from the outside in) and `Placed` (where the grammar lets a token stand) make it inductive.  That one of several declarations is the first is the existence
of a least number, from well-founded orderings of the library: no induction is needed.

*Names, in the lowering.*  `Passes` says that what is left to do is the end of each pass, `Tabled`, that the table has the last
declaration that lowering has come to, in *its* order: globals before bodies, then by position; the passes between them declare nothing.  A name that the
validator resolved to a variable has a declaration that comes before it in that order, too: `KnownHolds`, no value is made up for a variable.  If none
hides another there is one declaration only that both can mean: `UnhiddenHolds`.  `binding_hidden` shows that the condition is needed.  The names of functions are
no variables: a function's name used as a value is accepted, and is unknown to the lowering.

*Builds.*  A step of one build changes the variables of that build, and files it may name: the lemma `Frame`.  So each
invariant is about one build, is shown for the steps of that build, and a lemma "...Stays" takes it past the steps of
the others.  There is a chain of them, each with the one before:
`Based`, types and what the program counters imply about each other;
`Owned`, every file is one that its writer may name, and two builds that run are different processes (a killed build's process id may be used again:
then its files lie there with the new build's names, and that is what `mkdir` fails on), which gives `Isolated`;
`Tidied`, what a build has written is its output or listed in `temps` and the step it is in, which gives `Tidy`;
`Sound`, the objects of a build have different names, and what is compiled, what waits and what is carried are together the sources that the program needs, which gives
`Honest`;
`Blamed`, these three have nothing in common unless a source comes twice, so no link fails for a symbol defined twice, which gives `Blameless`.
Assumed are `CommandsAssumption`, `AnalysisAssumption` and `EntryAssumption`: directories have no source in common, carried modules
have sources of their own, the analysis names none twice.  All three are evaluated in the run `build`.

**Only model-checked:**

* `Returns`, `Terminates` and `Ends` are liveness under fairness, which the prover cannot do.
* What is checked of `Parser` and `Algorithms`: the modules are `RECURSIVE` definitions over trees, patterns and texts, or reach them;
  what such a definition computes for every input is an induction over data.

## 5. What is not modelled, and why

* *Not in any model checker's reach or not this repository's code*: what the C libraries, OpenSSL, libsodium and LLVM
  compute; the statistics of random numbers; floating-point rounding, but for the six digits that a number keeps as text; the Windows branches of the `#ifdef`s.
* *Without a state or a decision of its own*: the clone and free of trees, the embedded library table, the optimiser (its
  passes are empty), terminal output, build scripts, log and test libraries.
* *Planned*: see below.  In particular expressions and calls in the lowering, types in the validator, the table of
  child processes, JSON, paths, collections, the regular expression engine in ADAN.
* *Left out of modelled components*: `for` over an array and expressions in `Lowering`; the failure of
  `malloc` and `strdup` in the runtime and of any allocation elsewhere, but for what `Linker` calls trouble; more than one
  parameter, functions inside of functions, control flow outside of them, code behind a `return` and the types of expressions in `NameBinding`; lines and columns in
  `Scanner` and `Parser`, and the eight places of the scanner's two stacks; types of expressions in `Imports`; the inference of search
  paths from the libraries found on the host in `Linker`; the file names beyond what tells two files apart in `Driver`.

## 6. Plan

In the order of importance to a user of the compiler.

1. (done) `StructuredFlow`, `Lowering`, `LoweringProofs`, `SourceProofs`: the blocks mean what the source says.
2. (done) `CaptureService`, `ProcessCapture`, `ProcessCaptureProofs`: capture with concurrency and failure.
3. (done) `NameBinding`, `NameBindingProofs`: agreement of the two name resolutions.
4. (done) `ValueStore`, `RuntimeValues`, `RuntimeValuesProofs`, `ValueStoreProofs`: who owns a string, and the values a container has.
5. (done) `Imports`, `ImportsReference`: what a name of a module means, and which modules become part of a program.
6. (done) `Driver`, `Linker`, `Build`, `DriverProofs`, `ResultProofs`: the exit status, the files, builds at one time.
7. (done) `Parser`, `Grammar`, `Scanner`: the language and its trees, recovery.
8. (done) `Regex`, `RegexMatch`, `Utf8`, `Algorithms`: the engine against all ways to match.
9. `ProcessTable`: spawn, kill and is_running on the table of children, which nobody reaps, composed with
   `RuntimeValues!RunCommand`.
10. `RuntimeTypes`: the result types the validator and the lowering infer for runtime calls.
11. More algorithms in `Algorithms`: `string_format`, powers and other integer algorithms, path normalisation, JSON, the
    engine of `internal.adn` against `RegexMatch`.
12. Proofs: the parts of `Parser` that are not recursive, types and the agenda; `Lowering` with conditions that may be void up to
    the first void one, where `BlocksFollowSource` need not stop.
