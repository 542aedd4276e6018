# A TLA+ verification of Volvox

Volvox is a statically typed language with a compiler and an interactive
interpreter (the REPL, `volvox -J`) built on LLVM. This directory holds TLA+
modules for the parts of it that are hard to test: the compiler's front end and
its decisions, from the command line to the exit code; the code it emits for
branches, loops, destructors, arithmetic and main-level variables; the interactive
session with its threads and signals; and the run time: thread handles, maps,
mutex, semaphore and emulated thread local storage. TLC checks the modules on
small instances; for eight components TLAPS proves the safety properties for every
instance.

`PROJECT.json` lists the runs, the source lines of each definition (`map`), a
plausible bug per property that breaks it (`mutants`), the hazards, the
disagreement a run shows (`findings`) and the theorems. Paths below are relative to
the root of the repository; line numbers are those of the commit modelled.

    tlc -config MCBranchFlow_all.cfg MCBranchFlow    # a run
    tlapm SemaphoreProofs.tla                        # the proofs of a module

1. [The system](#1-the-system)
2. [The modules](#2-the-modules)
3. [The runs](#3-the-runs)
4. [Fairness](#4-fairness)
5. [What is proved](#5-what-is-proved)
6. [Where code and documents disagree](#6-where-code-and-documents-disagree)
7. [What is not modelled](#7-what-is-not-modelled)
8. [Plan](#8-plan)

## 1. The system

### Parts and how they meet

| Part | State | Operations | Modules |
|---|---|---|---|
| Driver: `src/main.cc` | options, decisions, names and existence of files | read options, decide, write, link, strip, run | `Driver`, `Compiler` |
| Modules and imports: `src/lexer.cc`, `src/main.cc` | a stack of lexer contexts, modules, imported symbols, collected statements | import, end of file, top level statements, `load` | `Loader`, `MainLoop` |
| Lexer and expression parser: `src/lexer.cc`, `src/parser.cc` | look-ahead, blanks | tokens, operator precedence | `Syntax`, `Writing` |
| Prototypes and overloads: `src/parser.cc`, `src/mangler.cc`, `src/functions.cc`, `src/types.cc` | a list of prototypes per name, defined symbols | define, declare, choose an overload | `Prototype`, `Calls` |
| Default constructors and destructors: `src/parser.cc`, `src/functions.cc` | attributes of types, `AutoMethods`, `last_defined_type` | define, delete, provide | `Constructors` |
| Types and arithmetic: `src/types.cc`, `src/codegen.cc` | none | result types, wanted types, conversions, instructions | `Types`, `Arithmetic` |
| Branches: `src/parser.cc`, `src/codegen.cc`, `src/functions.cc` | scopes, storage, merge points, pending `brk` levels; at run time the objects alive and the stack | parse and emit `if elif else while repeat for brk return`; destructors on every way out | `BranchScope`, `BranchFlow` |
| For loops: `src/codegen.cc` | pointer, size, index | iterate over numbers, ranges, arrays, vecs, maps | `ForEach`, `ForLoop`, `MapLoop` |
| Session: `src/main.cc` | the atomic `execution_thread`, a thread per expression, its exit value | read, compile, spawn, join; SIGINT, SIGABRT, SIGFPE handlers | `Repl` |
| Main-level variables: `src/codegen.cc`, `src/parser.cc`, `src/threads.cc` | shadows, chains of savers, restorers, constructors, destructors | declare, save, restore, construct, destroy | `Globals`, `Session`, `SessionStore` |
| Threads: `src/threads.cc` (emitted code), `clib/threads_c.c` | one malloc'ed control block per `thread` expression: reference counter, eventfd, result, arguments | evaluate `thread f(..)`, run the wrapper, `t.wait` | `ThreadHandle` |
| Maps and sets: `clib/map.cc`, `lib/volvox/builtin.vx` | AVL tree of malloc'ed nodes, element count | `m[k]`, `m[k] = v`, `insert`, `delete`, iteration, literals, destructor | `AvlTree`, `OrderedMap`, `VolvoxMap` |
| Mutex: `lib/volvox/sync/10_mutex.vx` | a robust pthread mutex | `lock`, `trylock`, `timedlock`, `unlock` | `Mutex` |
| Semaphore: `lib/volvox/sync/20_semaphore.vx` | an eventfd, a sticky error | `post`, `wait`, `timedwait`, `trywait`, `close` | `Semaphore` |
| Emulated thread local storage: `clib/emutls.c` | an index per variable, an array of objects per thread | address of a variable, end of a thread | `Emutls`, `ThreadLocals` |
| Vec, reference counts, closures, move analysis: `builtin.vx`, `src/functions.cc` | buffer, size, capacity; counts | push, copy, move, destroy | none |
| Library: strings, files, processes, time, random numbers, io | descriptors, generator state | wrappers around the C library | none |

They meet as follows. The driver reads the options and then the program; the
loader hands every top level statement to the parser and the code generator. What
follows the definition of a type decides which functions construct and destroy its
objects, and these are called where branches, loops, threads and the session create
and leave objects. In the REPL every expression runs in a fresh thread, between a
restorer and a saver that copy all global variables; a `SIGABRT` raised by it ends
that thread only, which is why the mutex of the library must survive owners that
die, why a semaphore may be interrupted by Ctrl-C and why an abort behaves
differently for `thread` expressions in the REPL and in a program. The tree of
`clib/map.cc` is also the compiler's own symbol table.

### What is hard

* **Concurrency.** A control block is shared by the wrapper and every copy of
  the handle. SIGINT may be taken by any thread and is passed on in three steps.
  Semaphore waiters race between `ppoll` and `read`. `unlock` in the REPL probes
  with `trylock`. Threads that use a thread local variable for the first time race
  for its index.
* **Failure.** Threads die at any step while they own a mutex or while others
  wait for them; `eventfd`, `pthread_create`, `malloc` fail; system calls are
  interrupted; a declaration fails half way; writing, linking and stripping are other
  programs that fail.
* **Time.** Relative durations are passed to calls that want absolute times, and
  an interrupted or beaten wait goes on with the time that is left.
* **Order.** Options are looked at in the order they are given; modules import each
  other; later declarations join the lists that earlier calls were decided by;
  attributes of a type are set and read before its definition is complete.
* **Two passes.** Types go up an expression while it is parsed and down again while
  code is generated, in separate functions that must agree.
* **Long histories.** Trees that only a dozen insertions and deletions reach;
  nested branches with early exits.

### What makes each part correct

* *Driver*: the options mean the same in every order; exit code 0 means that all that
  was asked for was done; no source is overwritten.
* *Modules*: code is generated in the module a statement is written in; an import
  brings what is public; reading ends, cyclic imports notwithstanding.
* *Parser*: what is written is what is read.
* *Overloads*: a call that matches exactly keeps its meaning; symbols and lists of
  prototypes are consistent.
* *Constructors*: cloning and destroying an object handles each of its parts once.
* *Arithmetic*: the announced type is the computed one; numbers are not changed by
  the types they pass through; quotient and remainder belong together.
* *Branches*: each object is destroyed exactly once on every path; what is in
  scope is set; `brk` leaves what it says; the stack does not grow.
* *For loops*: the values visited are those of the range or container, in order,
  also at 0 and at the largest number; a loop over a map that changes under it visits
  all that stays.
* *Session*: Ctrl-C never ends the session but ends what runs; the published
  handle is null at the prompt; the globals are one store although each expression has
  copies of its own.
* *Threads*: a wait returns the stored result, after the thread ended; one join
  per thread; no use of a freed block; a wait returns.
* *Maps*: the tree is valid and holds exactly the allocated nodes; each operation is
  that of a finite function.
* *Mutex*: one holder, who can unlock; the mutex stays usable; a lock returns.
* *Semaphore*: tokens are conserved; it breaks for a reason only; nobody sleeps
  while there are tokens; a timed wait ends, and not early.
* *Thread local storage*: one object per thread and variable, the same as long as the
  thread runs; nothing is left behind.

The hazards, each at its line, with the properties that are about it, are the
`hazards` of `PROJECT.json`.

## 2. The modules

Names of the source are kept where TLA+ allows it. An action is a whole step of
the code between two points at which another thread, a signal or a caller can
see a difference.

### Driver, Loader, MainLoop, Compiler (`src/main.cc`, `src/lexer.cc`)

`Driver` is `main()` around the compilation: `ReadOption` is one turn of the option
loop and `ReadArgument` one of the loop over the files behind the options. The cases of the
first (`ModeOption`, `NameOption`, ...) see what the earlier ones set;
`Decide` and `NameOutput` are the decisions behind it, in the order of the code;
`Write`, `Link`, `Strip` and `RunProgram` may fail. A file name is its directory and
the parts between its dots, so that "the name of the source with another ending" is
what the code does to it.

`Loader` is the lexer's stack of contexts: `push_state` and `pop_state`, the next
input file, what an import brings (`import_from_module`) and what a name means
(`Found`). A file is a sequence of lines of statements, each a record of what the
loader looks at. `MainLoop` has an action per kind of statement. Statements are
collected, and get their code when the lexer changes its module (`process_body`) or
at the end. `Compiler` puts the loader between the driver's decisions and its
writing.

### Syntax, Writing (`src/lexer.cc`, `src/parser.cc`, `src/token.def`)

`Syntax` reads a sequence of lexemes with their blanks: `gettok` decides whether a
sign is an operator, part of a number or the start of an argument, and where an
operator nobody writes stands (`sin x`, `2a`); `ParseUnary` and `ParseBinOpRHS` are
the functions of those names with their binding powers (`Operand` and `Operation` hold
their bodies, `ParseFrom` the recursion). `Writing` is the
reference: how a tree is written with as few brackets as the hierarchy of
`doc/Specification.md` asks for, in two styles.

### Types, Prototype, Calls, Constructors, Arithmetic, Frontend

`Types` has `getConv`, `getResType`, `getDesiredTypes` and `getComplexRes` of
`src/types.cc`. A type is its kind and its significant bits; the widths are
constants, since the code only compares them. `Prototype` is `ParsePrototype`, the
mangler and how arguments are passed: a symbol is the sequence of its parts.
`Calls` has the lists of prototypes, `conflicts`, `check_and_add_proto` and
`selectProto`.

`Constructors` has the types with their attributes and `AutoMethods`: four names per
type, Deleted or Missing where there is none. `Marked` is the attribute a header sets
before it is complete, `Noted` the name the definition writes down before its body is
read, `finish_codegen` the full version of a constructor or destructor, and
`finish_constructors_and_destructor` what is provided when something else follows.
The code of a function is the sequence of calls it makes for fields.

`Arithmetic` types an expression as the parser does (`BinaryExprAST`) and computes it
as the generated code does: an operand is converted to the type wanted of it
(`convert_raw`), and the instruction is chosen by the operands (`Divide`, `Compare`,
`Shift`, ...). An integer is a pattern of bits of its width, a float the nearest
number with its significand.

`Frontend` lets a session use one of four parts: declare, define types, compute, or
read. They share little state, so a behaviour exercises one.

### BranchScope and BranchFlow (`src/parser.cc`, `src/codegen.cc`, `src/functions.cc`)

`BranchScope` chooses the source text of a function body token by token and
compiles it as the parser and the code generator do: a scope per open branch
(`locals_table`), the storage a declaration gets (`StorageOf`: that of the variable
of the same name in the first part, if there is one), the variables a closed branch
leaves to its surroundings (`MergedVars`), the branch a `brk` repeated n times leaves
(`BrkDepth`, `syntax_nesting`), which parts count as returned, and the objects each
way out destroys (`get_destruct_vars`). Its code is a sequence of instructions.
`BranchFlow` runs that code with every choice of conditions and iteration lengths:
`Cond` is the switch on `mustsavestack | condition` of a while loop, `EndWhile`,
`EndRepeat`, `EndFor` the ends of the bodies, `RunBrk` a break, `HandleReturn` a
return. `alive` is the storage that holds an object, `twice` and `lost` record
wrong and missing destructor calls, `sp` counts the temporaries on the stack.

The model is confined to functions that get code (`CanClose`). For others the
compiler stops with an internal error: a name declared in both parts but after a
`brk` in one of them (`src/codegen.cc:4191`), or in the body of a `repeat` after a
`brk` (`:4074`). A variable declared in both parts of which one only returns has no
storage after the branch and is left out, too. Objects are declared from a value
(`x = f()`), not by a constructor call.

### ForEach, ForLoop (`src/codegen.cc`, `src/parser.cc`)

`ForEach` is what a loop promises: the elements one after the other, and the else
part only if there is none. `ForLoop` is the code for a number, a range, an array or
a vec. `PrepareIterator`, `CreateCondition` and `Iterate` are those of `ForExprAST`;
`ctrl` is the number, or the address of the element, that is compared with `limit`
*before* it is advanced, `Index` the key, `val` the element copied into the value
variable and `copies` the objects constructed for it. A type is a range of integers
with its unit, so that signed and unsigned words and reals share one arithmetic, and
an array is a range of addresses. The loop as written (`loop`) is chosen in the
initial state; `Sound` names the loops that go wrong (section 6).

### ThreadHandle (`src/threads.cc`, `clib/threads_c.c`)

One control block per thread expression. `ThreadExpr` is what `codegen_raw`
emits: malloc, the counter (`InitialRefcount`: 1 with a target, else 0), the
eventfd if the handle is stored, `pthread_create`. The wrapper's steps are
`Call`, `ThreadDestructors`, `Release` (the atomic decrement; branches on the
value *before*), `Signal` (the Keeper's write) and `Exit`; those of
`__join_thread` are `StartWait`, `Poll`, `Read`, `Join` and `LoadResult`. `Repl`
decides whether an abort ends the thread or the process. A handle is "kept" in a
variable, "discarded", or "temporary" (`(thread f(1)).wait`); a wait on the last
one reads a descriptor that is not there and is left in the state "wild", about
which nothing is claimed (section 6).

### Repl (`src/main.cc`)

The main thread's `mpc` walks through reading, `pthread_create`, publishing the
handle (only `spawn_bool_expr` does), join, clearing the handle, and using the
exit value. The execution thread ends by itself (`ExpressionEnds`,
`ExecReturns`), by `finish_thread` (`ExpressionAborts`) or by an interrupt.
`CtrlCHandler` is three actions per thread, `Exchange`, `PutBack` and `PassOn`,
because `execution_thread` is read and written in between; a running handler
suspends its thread. Compiling is one step that either yields an expression or
leaves everything as it was.

### SessionStore, Globals, Session (`src/codegen.cc`, `src/parser.cc`, `src/threads.cc`)

`SessionStore` is what a session promises: one store of global variables that an
expression reads and writes back. `Globals` is how it is done: a global is thread
local, its shadow (`shared`) outlives the threads, and a declaration
(`HandleGlobalVariable`) extends up to four chains of generated functions and runs its
setter on the main thread. A declaration goes wrong in three ways that differ in what
they leave in the two tables of names: `RefuseDeclaration` the parser's entry,
`DeclarationFails` nothing, `NoConstructorFound` both, with a variable that has no storage.
Code that refers to such a variable, as a top level `return` does to all with a destructor,
is never run; the session ends instead (`SetterAborts`). `Restore`,
`Assign`, `SaveOne` are the steps of an expression's thread, `StartThread` to
`ThreadEnds` those of the wrapper of a thread it starts, with the chains as they were
when the `thread` expression was compiled. An object is how it came to be
and whether it is alive. `Session` composes `Globals` with `Repl`: each step of the
session's threads and signals is a step of `Repl` with its effect on the globals.

### AvlTree, OrderedMap, VolvoxMap, MapLoop (`clib/map.cc`, `builtin.vx`, `src/codegen.cc`)

`AvlTree` has the tree as a record of a root and a function from nodes to fields,
and every algorithm of `clib/map.cc` on it: search, insertion with its rotations,
deletion by predecessor or successor with double rotations, iteration both ways,
the destructor, and the test functions' checks. `VolvoxMap` is a map or set
variable: the methods of `struct __map`, literals, and the two ways the compiler
assigns to an element (through the address of the value for words, by an insertion
for strings). Keys are integers, only compared; a string key is distinguished
from a numeric one where the code is. `OrderedMap` is what a map promises: a
finite function, its count, and whether an operation changed anything.

`MapLoop` is a `for` loop over a map, in either direction, whose body goes on
assigning, inserting and deleting. The loop keeps a pointer to the current node over
the body (`CurIter`) and asks for the node's neighbour afterwards (`NextNode`). `due`
is a history variable, the keys that were in the map ever since the loop began and
are still to come; `odd` only makes each operation a step that changes something, so
that `ImplementsMap` is also about operations that wrongly do nothing.

### Mutex (`lib/volvox/sync/10_mutex.vx`)

`owner` and `state` are those of a robust glibc mutex; `Take`, `Give`,
`TrylockResult`, `UnlockResult` and `Consistent` are its functions (external). The
methods are taken apart at each system call: lock, then `Recover` for an orphaned
mutex; `Probe`, then `GiveBack`, `RecoverForUnlock` or `Unlock`. `Dies` ends a
thread anywhere, as finish_thread does. `holds`, the threads whose lock returned,
is a history variable.

### Semaphore (`lib/volvox/sync/20_semaphore.vx`)

`count` is the eventfd. `Enter` reads `err`; the write of `post` and, in the
waits, `ppoll` and `read` are steps of their own, as are a signal, `close` and the
clock. `arg`, `finish` and `expiry` are the locals `interval`, `end_time` and the
kernel's deadline. `posted`, `taken` and `reasons` are history variables. Calls
that begin after `close` are left out: they use descriptor 0.

### ThreadLocals, Emutls (`clib/emutls.c`)

`ThreadLocals` is what thread local variables promise. In `Emutls` the steps of
`__emutls_get_address` are those another thread can see: the first, unlocked read of
the index, `pthread_once`, the mutex, the second read, the new index; then the array
and the object, which belong to one thread. `OutOfMemory` is the abort of a failed
allocation, `emutls_key_destructor` the end of a thread, which waits for
`SkipRounds` further rounds of destructors (1 on Android, 0 elsewhere; the instance has
1, so that the destructor takes both of its branches). No step touches a thread local of
a thread that is ending.

### Composition

`Compiler` composes `MainLoop` and `Driver`, `Session` composes `Globals` and `Repl`,
`Frontend` `Constructors`, `Arithmetic` and `Writing`; `BranchFlow` extends
`BranchScope`; `VolvoxMap` extends `AvlTree`, and `MapLoop` adds loops to it. Four
abstract modules are implemented: `OrderedMap` by `VolvoxMap`, `ForEach` by `ForLoop`,
`ThreadLocals` by `Emutls`, `SessionStore` by `Session`. The others compose by what one promises and
another assumes: `Mutex!Dies`, `Semaphore!PollInterrupted` and
`ThreadHandle!BodyAborts` are the effects on the library of what `Repl` does to
execution threads; `BranchFlow` has the control flow of `for` with an arbitrary number
of runs, `ForLoop` and `MapLoop` say how many there are. The `MC*` modules only hold
the values of constants; `Repl` and `Mutex` need none.

## 3. The runs

States are distinct states. Deadlock is checked for the maps and for `Emutls`. The
other systems really may stop: a compiler exits, a session ends, calls per thread are
bounded, loops and functions return, and a wait on an aborted thread blocks for ever.

| Run | Instance | Shows |
|---|---|---|
| `compile` | every program of two top level lines out of eight, with modules that import each other, under -t, -j, -J; one small program under every set and order of up to three of 25 options, with seven sets of files | `OrderDoesNotMatter`, `FilesAsAsked`, `ModulesKeptApart`, `Ends` |
| `frontend` | every order of up to 3 of some 30 declarations, up to 2 of different names; three types, one within the other, with every choice of constructors and destructors; expressions of up to 2 operators over 10 operands; trees of up to 5 nodes | `ListsConsistent`, `ExactIsStable`, `PartsHandledOnce`, `AnnouncedType`, `NumbersKept`, `DivisionEquation`, `RoundTrip` |
| `branches` | bodies of up to 6 tokens with if/elif/else, two names, brk, return; bodies of up to 4 tokens with all branches and brk of 1 or 2 levels, run up to twice | `DestroyedOnce`, `InScopeAlive`, `StackRestored`, `BreakLeaves` |
| `for_values` | integers of 3 bits, reals from -6 to 14 quarters, arrays of up to 3 elements; all ends, both directions | `ImplementsForEach`, `OneCopy` |
| `session` | 3 expressions, 5 declarations of 2 names, a signal at any step, a started thread | `ImplementsStore`, `ConstructedInOrder`, `SymbolsMatch` |
| `repl_session` | 2 expressions, int or test, 3 Ctrl-C | `InterruptNeverEndsRepl`, `InterruptEndsTest`, `NoStaleHandle` |
| `thread_repl` | 2 threads, 2 waits, 1 result, REPL | `WaitReturnsResult`, `HandlesSafe`, `WaitReturns` |
| `maps` | a map with number keys 1..4, 2 values, four literals, with loops over it; a set of 12 string keys | `ImplementsMap`, `TreeValid`, `IteratorLive`, `VisitsInOrder` |
| `mutex_repl` | 3 threads, 2 calls each, deaths anywhere | `Exclusive`, `HolderUnlocks`, `LockReturns` |
| `semaphore` | 3 threads, initial value -1 or 0, posts of 0 or 1, limit 2, 1 signal, close | `TokensConserved`, `NotBeforeTime`, `NoLostWakeup`, `TimedwaitReturns` |
| `emutls` | 2 threads, 2 variables, arrays of 1 and then 4 objects, 5 addresses, 1 skipped round | `ImplementsTls`, `NothingLeaked`, `AddressReturns` |

One more run, `division`, ends with a counterexample; it is the subject of section 6.
It is the instance of `frontend` with the compiler's default way of division
(`Floored = TRUE`); the passing run has that of `-fdiv-c99`.

The largest are `branches` (4.6 million states), `session` (840 000) and `frontend`
(350 000); each takes about a minute with two workers.

### Why the bounds are enough to see the cases

* `compile`: two lines hold an import and its use, or an import and what it cuts off;
  a module, a module of a module and the cycle back are the shapes the lexer's stack
  distinguishes. Three options hold each pair that overrules one another, with a third
  one between them.
  `Paths` holds every path those imports name (a conjunct of `HandleImport` says so).
* `frontend`: a list of three prototypes holds a getter, a setter and what follows, or
  an exact match with one overload before and one behind it. Of three types one has the
  next as a field and, in an array, the innermost; the types contain each other to the depth at
  which a provided function calls a provided one. Two operators hold an intermediate
  result and an operand of it on either side. Widths are scaled down (2, 4, 6, 8 bits
  for 8 to 64, floats of 5 and 7 bits) so that all wrap around; the code only compares
  widths. Five nodes hold every pair of neighbours on the ladder of precedences.
* `branches`: six tokens hold an if with elif or else, with declarations and
  early exits in each part, or two nested ifs; four hold two nested loops with an exit and a
  declaration, and the second run of a body is the one that differs from the first. The
  names are interchangeable (symmetry: no property names one, none is a liveness
  property).
* `for_values`: three bits have both signs, 0, both ends of the type and values next
  to them; every pair of ends is tried. Reals in quarters have ranges that end before,
  at and after the half of a step.
* `session`: an expression starts with what the one before left or was ended in;
  one declaration has a constructor, one has a deleted one, one copies another global, one
  is not global, and
  one name is that of an external function as long as no declaration of it fails. Interrupts (`CtrlC`) and
  aborts come at any step, also between two savers.
* `repl_session`: three interrupts are enough for one on each of the two threads
  while the first is being passed on, and the second expression finds what the
  first left in `execution_thread`. No thread of an earlier expression is in the
  instance: with one, its handler can leave a stale handle (section 6).
* `thread_repl`: the hazards are between one wrapper and two waits on copies of
  its handle; the second thread adds waits on different handles and discarded ones.
* `maps`: an AVL tree of twelve nodes is the smallest (Fibonacci) one in which a
  deletion rotates at two levels. Four keys, with loops, have single and double
  rotations in insertions and deletions, and a deletion that moves a neighbour that
  is not the child.
* `mutex_repl`: a holder, one that probes and one that waits; two calls each let a
  thread take the mutex from a dead owner and be its dead owner for another one.
* `semaphore`: one posts, two compete; with a limit of 2 a third token overflows.
  The negative value and the post of 0 are the rejected arguments.
* `emutls`: two threads race for one index while the other's array grows for the
  second; the fifth address is the one an object may get that another just gave back.

Bounds in the modules are constants named in their headers: `MaxExprs`, `MaxInts`,
`MaxCalls`, `MaxSize`, `MaxTime`, `MaxSignals`, `SEMVMX` (a bound of the code, made
small), the token counts of `Families`, `MaxIter`, `MaxOptions`, `MaxDeclarations`, `MaxLists`,
`MaxTyped`, `MaxTree`. The declarations of types in `frontend` are bounded by the three
types; a header that is repeated changes nothing.

### What the properties leave out

* `WaitReturns` excepts threads that were not created or aborted, and waits that an
  interrupt ended: the code gives them no result.
* `InScopeAlive` excepts functions in which one `brk` leaves several statements; with
  them it fails (section 6). `DestroyedOnce` is said of functions with ifs only, the
  branches for which it holds; the loops are in section 6.
* `TimedwaitReturns` excepts a `ppoll` whose expiry is later than the last tick of
  the bounded clock.
* `AnnouncedType` excepts an integer beside an imaginary number (section 6).
* `PartsHandledOnce` is said of types whose marks have the functions they promise
  (`Promises`): no body had an error, not `init` alone is deleted, and no field of a
  type with a constructor of its own cannot be cloned (section 6).
* `ListsConsistent` excepts, from "what is defined can be called", prototypes that take
  a vec or map, and from "equal symbols, equal types", those that differ in the kind of a
  reference (section 6).
* `ConstructedInOrder` is about those globals a thread constructs; for others see
  section 6.

## 4. Fairness

Only weak fairness, only of steps the operating system or the code takes by itself.

* `Compiler`: once the options are read, the compiler goes on by itself; reading them is
  the user's choice, but their list ends.
* `ThreadHandle`: the wrapper's steps and the steps of a wait. The thread's function
  is taken to end (a promise of the program); aborts, failing calls, interrupts and
  new expressions are never forced.
* `Repl`: the main thread after it has read an expression, the end of a finished
  expression, and each thread's handler once its signal is pending. A running
  expression may run for ever; input and signals may never come.
* `Mutex`: each thread inside a method takes its steps, and a thread that holds the
  mutex unlocks it or dies. Nobody has to lock. `LockReturns` holds with weak
  fairness because calls are bounded, so that the others cannot overtake for ever.
* `Semaphore`: time passes and threads inside a method take their steps. Nobody has
  to call, least of all `post`.
* `Emutls`: each thread takes the steps of the functions of `emutls.c`; nobody has to ask
  for a variable, and nobody has to end.
* `ForLoop`: the steps of the loop. Its body is taken to end; it need not `brk`.
* `Session`, `Frontend`, the maps and the branches: no liveness is claimed.

## 5. What is proved

TLAPS proves the following for every value of the constants, from the assumptions
in the modules' ASSUMEs: that null values are none of the others, that bounds and
arguments are integers, and that declarations (`DeclarationsAssumption`), options and
arguments (`CasesAssumption`) are of their types. Three theorems have a hypothesis of their
own, which the bullets below explain: `HandleCleared`, `FilesKept` and `BreaksLeave`.

| Module | Theorems | Inductive invariant |
|---|---|---|
| `ThreadHandleProofs` | `TypeCorrect`, `ResultCorrect` (`WaitReturnsResult`), `HandlesAreSafe` (`HandlesSafe`) and its halves `JoinedOnce`, `BlocksSafe` | `IInv` |
| `MutexProofs` | `TypeCorrect`, `StaysExclusive` (`Exclusive`) and its halves `Recoverable`, `HoldersAreOwners`, `UnlockSucceeds` (`HolderUnlocks`) | `IInv` |
| `SemaphoreProofs` | `TypeCorrect`, `Conserved` (`TokensConserved`), `BreaksForReason`, `NeverEarly` (`NotBeforeTime`) | `IInv` |
| `ForLoopProofs` | `TypeCorrect`, `NoWrap`, `CopiesDestroyed` (`OneCopy`), `LoopGivesPromised` (`ImplementsForEach` without its liveness) | `IInv`, `VisitInv` |
| `EmutlsProofs` | `FreedAtTheEnd` (`NothingLeaked`), `EmutlsImplementsTls` (`ImplementsTls`) | `IInv` |
| `SessionProofs` (`Repl` and `Session`) | `TypeCorrect`, `InterruptNeverEnds` (`InterruptNeverEndsRepl`), `HandleCleared` (`NoStaleHandle`), `SymbolsMatchTable` (`SymbolsMatch`), `SessionImplementsStore` (`ImplementsStore`), `ThreadGlobalsInOrder` (`ConstructedInOrder`) | `IInv`, `AloneInv`, `TableInv`, `StoreInv`, `OrderInv` |
| `CompilerProofs` | `OptionsInAnyOrder` (`OrderDoesNotMatter`), `SuccessIsHonest` and `FilesKept` (`FilesAsAsked`), `StatementsStayHome` and `ModulesStayApart` (`ModulesKeptApart`) | `CompilerInv`, `HomeInv`, `ApartInv` |
| `BranchProofs` | `BranchInvHolds`, `StackAlwaysRestored` (`StackRestored`), `BreaksLeave` (`BreakLeaves`), `ScopesAlive` (`InScopeAlive`), `ObjectsDestroyedOnce` (`DestroyedOnce`) | `BranchInv`, `BreakInv`, `ObjectInv` |

* **ThreadHandle.** What a wait returns depends on an order: the result is stored,
  then the eventfd is written, then read by one wait, which then joins. `BlockInv`
  is the wrapper's side of it (a written eventfd means a stored result, a kept
  handle keeps a live block, an open eventfd and a reference), `WaitInv` the wait's
  (past the read, the counter is 0 and the wrapper is past its write, so it stays
  0). Two waits past the read of one eventfd contradict `WaitInv`.
* **Mutex.** That holders are owners needs that a thread in the middle of a recovery or a
  probe is the owner without holding (`InMethodOwns`). That the mutex stays usable needs
  that an inconsistent mutex always has an owner about to repair it (`StateFits`): if that
  one dies, the mutex is orphaned again, not lost. `UnlockSucceeds` is an action
  property: what the probe of a holder finds is `EBUSY`.
* **Semaphore.** `LocalsFit` says what the locals mean at each step: at a `ppoll`
  of timedwait the deadline is not before `end_time`, however often the wait was
  beaten; from that `NeverEarly`. `BreaksForReason` (the semaphore breaks only after a
  bad argument, a signal, an overflow or a close, never because a race was lost) is an
  invariant that is proved and not run.
* **ForLoop.** For every number type, whatever its range: `Ahead` says that where the
  loop advances, the control variable is still more than half a step before the limit,
  and that the limit is a value of the type; so one step does not wrap (`NoWrap`, proved
  and not run). `Owned` says at which steps the loop has a copy. `LoopGivesPromised` is the
  refinement of `ForEach`: how many elements are promised is a quotient (`CountFits`); the
  control variable has the value, and the index, of the element whose turn it is
  (`VisitInv`); so each of the loop's two comparisons asks whether there is another
  element (`ComparisonFits`), also for reals, which stop within half a step.
* **Emutls.** A refinement: every step of the emulation is a step of `ThreadLocals` or
  changes nothing it sees. The mutex is held exactly between lock and unlock
  (`MutexInv`); who gives a variable its index has seen, under the mutex, that it has
  none (`LocalInv`); indices are given once and never exceed the counter (`IndexInv`),
  so a new index is one at which nobody's array holds an object; no object is in two
  places, and what is allocated is in an array (`ArrayInv`, `LiveInv`). `SizeFits` and
  `ResizedKeeps` are about the sizes of arrays and what copying them keeps.
* **Repl.** `StepsInv` says which steps of the main thread, the execution thread and its
  handler go together, `PublishedInv` that no handle anybody holds is later than the
  expression and, while the expression is ordinary, none is its own: so no interrupt
  ends it. `HandleCleared` needs more (`AloneInv`): a published handle is that of the
  test function the main thread waits for, and only the main thread's handler, which
  suspends it, holds one. That is true as long as no thread of an earlier program is
  left, and the theorem has `Workers = {}` as its hypothesis: with such a thread
  `NoStaleHandle` fails (section 6).
* **Session.** Every step is one of seven kinds (`SessionSteps`), which reduces the session
  to what happens to the globals. The chains of savers and restorers have exactly the
  globals (`HandlersInv`), and a global the saver has not come to is still to be saved,
  any other is saved (`SaverInv`): so when nothing is left to save, the shadows are the
  thread's copies, as `SessionStore!Finish` asks; an expression that ends before that is
  one that is abandoned. For the order of constructors and destructors, `CallersInv` says
  that the two chains hold each variable once and in opposite orders, `PendingInv`
  the same of what a started thread has still to call, and that this is the end of one
  chain and the beginning of the other; `LivesInv` reads the state of each copy off the
  two lists. `Earlier` is the order in a chain, with a lemma for each way to extend one.
  `SymbolsInv` is `SymbolsMatch` with names that are no variables; it needs of the table
  only that each entry is of one of the four kinds (`TableInv`).
* **Compiler.** The invariant has one part per phase. What the options read so far have
  set does not depend on their order (`ReadingInv`), so what `main` decides from them
  follows from their set (`DecidedInv`), then from their set and the names
  (`AskedInv`); after that the phases differ in what is on disk (`Wrote`, `Linked`).
  `FilesKept` has `PlainSources` as its hypothesis: names of sources end as those of sources
  do, and no argument is another source's name plus `.vx`. The proof found the case that
  it excludes: with `volvox a.vx.vx` the program is called `a.vx` (section 6).
  `HomeInv` says that what is put off until a file ends is of the module that is open,
  which is why it must be generated before the lexer goes back (`StatementsStayHome`).
  `ApartInv` is behind the other half, that what an import brings is there and public. The
  open modules are a stack without repetition, each imported by the one below it (`StackOk`),
  so the module that ends is not open any more when it is imported from, and a module
  that was imported from is never read again (`ImportsOk`): what is declared goes to the
  top of the stack. What may be taken from it are its private functions, when another
  module imports it; nothing public goes with them, since an overload that is public stays. For
  variables it takes that a module has one of a name (`TablesOk`), for which a public and a
  private `global` of the same name must not both count as declarations: the code takes the
  second as an assignment to the first (`DeclareNewVariable`), and `Global` does so, too.
* **Branches.** For bodies of any length and depth. Each action of the parser keeps the
  layout (`Structured`): what the fields of the open statements mean (`OpenInv`), where
  else parts and merge points are (`PlacesInv`), that branches are one within the other
  (`NestInv`) and that every instruction is in its branch (`CodeInv`). From it
  `OneWayIn`: control enters the body of a loop from the loop's own instructions only.
  So the saved stack pointer is the one at entry once the condition has been asked
  (`StackInv`), and each run starts with it. `BreaksLeave` is about `brk brk`: the levels of
  a brk are the open statements from the one it leaves inwards (`CountInv`), and
  the merge points of the statements around that one are strictly behind its own
  (`StrictInv`), because a part with a brk goes on behind the statement that is left
  (`GoesOnInv`), which needs that pending levels are handed to the outside (`LevelsInv`).
  `for` does not hand them on, and an if whose parts both return then gets no merge
  point: there `brk brk` leaves one statement too many (section 6). The hypothesis
  `SingleBrksWithReturn` excludes it: bodies with `return` have no brk of several levels;
  without it TLC finds the violation in seven tokens.
* **Branches: objects.** `ScopesAlive` and `ObjectsDestroyedOnce` join what the parser
  records with what the code then does, so `ObjectInv` has a part for each. `ScopeInv` is
  about the code: whichever way control arrives at an instruction, it brings the variables
  the parser had in scope when it generated that instruction (`FlowInv`, with `Finds` for
  a place that is still to be filled). The ways out of a branch differ in what they
  leave in scope, and the merge point takes what is merged, so each of them must have
  declared it: merged are variables declared before the first brk of their part
  (`FirstInv`), no way out leads from where `brk_part` is still 0 (`NoBrkInv`), and a name has in
  the second part the storage it has in the first (`SlotInv`, `DeclaredInv`). Elif is
  the hard case, for its ways out are those of the chain: an elif is alone in its part
  (`ElifInv`), only its ways out lead out of another branch as well (`OutInv`), and what
  arrives at the merge point of a branch that is still open is noted in it, or
  handed on to it later (`EndInv`); so a chain after which the parser takes the code as
  dead has no way out. `AliveInv` is about the run: the objects alive include what is in
  scope and, without loops, are exactly that; a loop that was entered but not yet asked
  its condition still has what is in scope behind it. `StartInv` says that a function starts
  with nothing in scope.

Only model-checked: all liveness properties, which TLAPS cannot prove under fairness, among
them that loops end; the maps, whose algorithms are recursive operators and whose correctness
is an induction over trees; and the modules of the front end, whose expressions, trees and
types are recursive, too.

## 6. Where code and documents disagree

### With a run

* `division` (in `findings`): `doc/Invocation.md:58-61` says that with both ways of
  division "the following equation is always fulfilled: a = b * (a/b) + (a%b)". The
  floored quotient of the default (`src/codegen.cc:2661-2666`) is one too low whenever the
  signs differ and nothing is left over, while the remainder is right: -6 / 2 is -4, and
  -6 % 2 is 0. Also 0 / -2 is -1, 6 % -2 is -2, and -6.0 % 2.0 is 2.0.

Three more counterexamples come with small changes of a run's configuration:

* `MCMapLoop_both.cfg` with `Types <- NumberSets`: `TreeValid`. Inserting a number a set
  already has tests `target` instead of `*target` (`clib/map.cc:399`), links the old node
  below itself for a moment and leaves wrong balance factors; the tree's own check
  functions (`:707-711`) report it.
* `MCMapLoop_both.cfg` with `Types <- Dictionaries`: `ImplementsMap`. `m[k] = v` for an
  existing key of a map of strings to strings keeps the old value
  (`src/codegen.cc:2151-2166`); `doc/Specification.md:438` says "insert/replace".
* `MCBranchFlow_all.cfg` with `Families <- SmallLoops` and the invariant
  `LoopsDestroyOnce`: an object declared in the body of a loop is destroyed at the end of
  the body (`src/codegen.cc:3117`, `:3075` for ranges) and again before the next run
  (`:4233-4247`); `lib/volvox/builtin.vx:80-81` says "this should never happen".

Three properties that a text of the repository states, stated in the modules, do not hold
either: `Compiler!StripOnlyLinked` (`src/main.cc:2110-2112`), `Compiler!TypesFinished`
(`src/functions.cc:868`: a type defined last in a file is forgotten before what it misses
is provided, `src/lexer.cc:496`) and `Session!ThreadsConstruct`
(`doc/Specification.md:1003`: "it is called for each new thread"; not for a global that is
initialized by a call or by `= S{...}`, `src/codegen.cc:1398`).

### Met while modelling: the compiler

* *Options.* `-i file` falls through to `-o` (`src/main.cc:1842`; `doc/Invocation.md:79`).
  `-o x.o` turns linking off after `-strip`, `-r` and LTO were decided (`:2152`): with `-r` a
  null name is run (`:2788`). `-J -emit-llvm` keeps the interactive mode. `-r` with an
  absolute name runs `".//abs"`. `volvox a.vx a.o` overwrites `a.o`, and `volvox a.vx.vx`
  a source `a.vx`. `-C` is documented,
  `-P` is the option. A syntax error at top level purges the line, and the compiler exits
  with 0. Short names are indexed before their start (`:1658-1671`).
* *Imports.* After a newly read import the rest of the line is lost; a `global` with
  something behind a `;` loses that. A second `global x`, with `pub` or without, is an
  assignment to the first, also if that was imported. A bare top level `return` does not stop; one with a
  value in an imported module ends the main loop. A second `from X import *` fails, as does
  the same prefix twice; `import m as <bad>` imports with an empty prefix. `load` during
  the last file of `-J` loses that file's remaining lines.
* *Declarations.* Overloads that differ only in the kind of reference, or in the constness of
  the receiver, are accepted as different but share a symbol: the second definition is
  refused, and a declaration and a definition may disagree on what is returned.
  `FullTypes_differ` ignores element types: `def f(v vec[f64])` takes the place of
  `def f(v vec[int])` in the list. `f(int)` and `f(ref int)` both match exactly
  (`src/functions.cc:250`). A declared function that is declared again makes calls with
  conversions ambiguous. A prototype with variable arguments is taken before an exact
  match. A type has at most one conversion operator.
* *Constructors.* The destructor of a struct runs after those of its fields, its
  constructor before theirs. `def init T` alone also becomes the clone constructor
  (`src/functions.cc:2090`). If a field with a constructor cannot be cloned, the type's
  own clone constructor silently leaves that field and all behind it
  (`insert_field_destructors` returns). After `delete init T` copying skips the constructors
  of the fields while the destructor runs for them (`:881`; the comment at `:870` says one is
  created). An error in the body of `~T` leaves the attribute without a function, and
  `abort()` when one is needed (`src/AST.cc:305-311`). A refused header `def T()` that does
  not follow its type marks it all the same (`src/parser.cc:2752` before `:2802`), and types
  that contain it are treated differently. `delete` of both constructors may be carried
  out for one. A field refers to its type while that has no attributes, to a copy
  afterwards (`:478`).
* *Expressions.* The weak invisible operator is below `,` in `src/token.def`, above `*` in
  `doc/Specification.md:41`: `1 + sin x` is read as `(1 + sin()) x`. `-1^2` is `(-1)^2`, `-a^2`
  is `-(a^2)`. `-1ul` is 2^64 - 1, a decimal beyond 64 bits becomes a float, octal escapes
  do not work (`src/lexer.cc:671-676`).
* *Arithmetic.* A sign does not pass the wanted type on: `34L + -(a*b)` truncates the
  product (`doc/Specification.md:167`). `^` of narrow integers is computed as i32, though the
  narrow type is announced. An integer beside an imaginary number is announced by its width
  but computed in f32 or f64 (`src/codegen.cc:2479`). `==` of -1 and the largest unsigned
  number holds, while `<` is exact. `i8 << i32` passes the parser and fails in code
  generation. Unsigned to bool and i64 to f64 are automatic (`doc/Specification.md:172`).
  An exponentiation in `getComplexRes` uses an uninitialized width.

### Met while modelling: branches and loops

* A nested `brk brk` leaves the outer branch but does not count in its `brk_part`
  (`src/parser.cc:1274`): a variable of the outer branch declared after it is merged
  although it may be unset. `for` does not hand pending levels to the outside, and a
  branch whose parts both return has no merge block for such a `brk`
  (`src/codegen.cc:3840`), which then leaves one statement more than it has levels.
* A loop over a range leaves its last body and its else part without destructors
  (`src/codegen.cc:3068`); a loop over a map with merged variables loses one object
  per run. Declarations by constructor call do not reuse the storage of the first
  part (`src/codegen.cc:2443`).
* `ForLoop!Sound`: `for i in n` computes n - 1 before it compares
  (`src/codegen.cc:3326`), so an unsigned 0 or the least signed number runs through
  all values. A variable that exists before the loop does not get the element of an
  array of one (`:3537`), and loses each object it is given. A new variable is given a
  copy of the first object even of an empty array (`:3482`). `return`, or a `brk` of
  several levels, does not destroy the copy (`:4254` is not on its way).
* A loop over a vec takes pointer and size once (`:3444`).

### Met while modelling: the session

* Ctrl-C does not end an ordinary expression: `spawn_int_expr` never publishes its
  thread (`src/main.cc:907-922`; the comment at `:1519` says it is terminated). An abort in
  an ordinary expression ends the session, because 0 is not the magic exit value
  (`:970`; the comment at `:866` says the thread only is terminated).
* A SIGINT handler on a thread of an earlier expression can put the handle of a
  finished thread back (`src/main.cc:1534`).
* Setters run on the main thread: an abort there ends the session. A killed expression that
  had replaced a global object leaves the shadow with the destroyed one. A refused
  declaration leaves a half declared name that can never be declared again; `cleanupGlobal`
  frees the name also when the failing declaration did not enter it
  (`src/codegen.cc:1189`). A declaration that is to call a constructor that is missing or
  deleted (`src/functions.cc:836` marks such types) returns without `cleanupGlobal`
  (`src/codegen.cc:1635`): symbol and entry stay, no module defines the variable, and the
  unfinished setter is left in the module. The name can never be declared again, and code
  that refers to the variable ends the session. A top level `return` does not save.
* Each thread that ends destroys its copies: also those never constructed, and for variables
  that are not thread local the session's only one (`RegisterThreadDestructor`,
  `src/codegen.cc:1802`). A thread has the chains of the time its `thread` expression was
  compiled. `HandleGlobalVariable` dereferences a null pointer in an error path.

### Met while modelling: the run time

* `timedlock` passes a duration where an absolute time is expected
  (`lib/volvox/sync/10_mutex.vx:151`) and gives up at once on a busy mutex.
* One interrupted `ppoll`, or one post beyond the maximum, disables a semaphore
  for all threads (`lib/volvox/sync/20_semaphore.vx:203`, `:159`); a wait whose
  descriptor another thread closes never leaves its loop (`:217`).
* `(thread f(1)).wait` builds the block as for a discarded value
  (`src/codegen.cc:840`), without an eventfd, although it is waited for
  (`src/threads.cc:157`). Waits on a thread that aborted in the REPL never return
  (`doc/Specification.md:1050`). A failed `pthread_create` is not noticed (`:250`). Control
  blocks of discarded handles are never freed (`:93`).
* The count of a map literal includes duplicates (`src/codegen.cc:272`).
* `mark_as_referencing` stores one element behind its array (`src/global.h:745`). An
  interrupted sleep swaps its two time spans once only
  (`lib/volvox/time/30-sleep.vx:79`). On Windows `emutls_exit` frees the objects of the
  calling thread only.

## 7. What is not modelled

* *Windows and pipe variants* of threads, mutex, semaphore, session and thread local
  storage: the Linux ones are modelled; the others are other branches of the same
  functions.
* *Driver*: `-m`, `-s`, `-P`, the search of tools and directories, debug information.
* *Lexer and parser*: string literals and comments, selectors, list and string
  expressions, statements inside expressions; how characters become names and numbers.
* *Declarations*: interfaces, named results, default arguments, closures.
* *Constructors*: constructor calls for single objects, moves and reference counts;
  unions and C structs, which have none of their own.
* *Arithmetic*: powers at run time, vectors, rounding of quotients of floats.
* *Loops* over a vec whose body changes the vec, or over a vec that was never given
  memory; number loops whose body assigns the control variable; loops over a map whose
  body deletes the current element, or destroys the map.
* *Branches*: conditions known at compile time, values of branches, a returned local
  object (its destructor is left out), main-level variables.
* *Session*: variables of variable size, references and functions as values; the
  pthread_t of a joined thread is not taken as reused; compiled programs, whose
  globals have no shadows.
* *Mutex destructor*, locking a mutex one holds (it blocks, as POSIX says), calls of a
  closed semaphore.
* *Vec, reference counting and closures*: not begun.
* *Strings, formatting, files, processes, sockets, time, random numbers, io*: conversions
  and wrappers around the C library; their correctness is about characters, numbers or
  other systems. *Arrays*: layouts of indices and literals, without state.
* `wineditline` is another project's; `mingw`, `editors`, `experiments`, `valgrind` are not
  part of the running system.

## 8. Plan

Done: the modules of section 2. What would add most next, in order of importance:

1. Proofs: `Calls` (that a setter is paired, and that what is defined stays listed, by
   an invariant on the lists; `SymbolsAgree` would need that mangling is injective, an
   induction over types). It rests on recursive operators of `Prototype` and `Types` that would have to become
   recursive functions first.
2. `Vec`: buffer, size and capacity with push, insert, delete, copy, assignment, move
   and destruction, implementing a sequence; every element is destroyed once. With it the
   reference counts of closures and the move analysis of `src/functions.cc`.
3. Constructor calls for single objects, which join `Constructors` with `BranchFlow`: what
   is constructed on a path is destroyed on it.
4. `BranchScope`: values of branches, and what `DestroyedOnce` becomes in loops once an object
   declared in their bodies is destroyed only once (section 6).
5. Sleep with its retries; spawn with its three pipes.
