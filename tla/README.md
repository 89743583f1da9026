# Verification of lamassu-js

TLA+ specifications of the concurrent and failure-prone parts of lamassu-js, a
JavaScript engine in C11 (bytecode compiler, verifier, interpreter, garbage
collector, promises, modules), with the TLC runs that check them on small
instances and TLAPS proofs for every value of their constants.

Paths below are relative to the repository; `js_promise.c` and the like are in
`src/runtime/`.

## The system

| component | state it keeps | operations | what makes it correct |
|---|---|---|---|
| promises and microtasks (`js_promise.c`) | `JsPromise.state/value/reactions`; the VM's `jobs_head..tail`, `jobs_free`, `running_job` | `then`, `await`, resolve, reject, `js_run_jobs` | settle once, no reaction lost or doubled, FIFO per promise, everything settled is served |
| promise library (`js_promise.c`, 402-900) | state objects behind bound natives | `all`, `allSettled`, `any`, `race`, `finally`, the executor | an aggregate settles once, and when its elements have |
| interpreter (`js_interp.c`) | `JsFiber` (stack, frames, try entries, upvalues, fuel), `ctx->fiber`, `reentry_depth` | calls, async calls, await/resume, throw/unwind, fuel check | a fiber is resumed once per await; budgets are never exceeded or underflowed; unwinding reaches the right handler |
| VM and context (`js_vm.c`) | `bytes_live`, `heap_limit`, `interrupt`, `fuel`, `fuel_left` | create/free, allocate, interrupt, arm fuel | accounting never drifts from what is allocated |
| collector (`js_gc.c`) | `cells`, marks, `roots`, `mark_stack` | mark, sweep, protect/unprotect | reachable is never freed; marking never needs memory |
| modules (`js_module.c`) | registry, `JsModule.status/deps/imports/eval_error`, orchestration state objects | fetch, graph load, instantiate, link, evaluate, dynamic import | each module fetched once and run once, dependencies first, failures reported to every importer, no deadlock on cycles |
| strings (`js_string.c`) | weak atom table with tombstones | intern, remove | one cell per content while it lives |
| objects (`js_object.c`, `js_map.c`) | insertion-ordered hash map, dense elements | get, set, delete, freeze | lookup and order survive growth and tombstones |
| Map and Set (`js_mapobj.c`, `js_setobj.c`, `js_valindex.h`) | dense arrays and an index over them | set, delete, iterate | the index agrees with the arrays; iteration under mutation |
| bytecode reader (`js_bytecode_read.c`) | stack and try depths per instruction | load, verify | what it accepts keeps the interpreter's preconditions; it accepts what the compiler emits |
| reactor (`src/reactor.c`), wasm API (`src/wasm_api.c`) | compartment life cycle, handles | configure, load, run, reset | calls in any order leave a usable instance |
| builtins, dates, numbers, regular expressions, errors | none of their own | pure functions, callbacks into guest code | results of the algorithms |
| frontend (lexer; `js_parser.c`, `js_compiler.c`, writer) | lookahead and arena; scopes, jump patches, operand depth | source to syntax trees to bytecode | the text of a tree is read as that tree; the code does what the tree means, whatever exits cross whatever statements |
| tools and packages | processes, bindings | hosts of the engine | environment of the models |

Components interact on one C stack. A host calls in (`js_call`,
`js_eval_module`, `js_run_jobs`), natives call back into guest code
(`js_call`, bounded by `JS_MAX_REENTRY`), and code below a running job may drain
the same queue again (`js_run_module` does so after every module body). There
are no threads apart from `js_vm_interrupt`, which may be called at any moment.
What is hard is therefore reentrancy (nested drains, callbacks), deferred
settlement (a promise answered in a later turn, or never), allocation refused
half way through an operation that cannot report it, collection inside an
allocation, and budgets carried by copies. `PROJECT.json` lists these hazards
line by line with the properties that cover them.

## Modules

| module | models | checked by |
|---|---|---|
| `JobPool` | the counts of the job-node reserve: `job_reserve`, `job_alloc`, `job_recycle`, `jobs_free_trim` | `jobpool_reserve`, `jobpool_trim`; abstract specification in `microtasks_live` |
| `JobPoolProofs` | theorems about `JobPool` | |
| `Microtasks` | promises, reactions, the queue, nested drains, async fibers, interrupts, refused allocations | `microtasks_safety`, `microtasks_live`, `microtasks_adopt_oom` |
| `MicrotasksProofs` | theorems about `Microtasks`: types and settlement; where each reaction is, order, fibers, what is owed, the refinement of `JobPool` | |
| `Fuel` | `ctx->fuel`, `fuel_left` and the remainders of nested, parked and resumed fibers | `fuel`, `fuel_refund` |
| `FuelProofs` | theorems about `Fuel` | |
| `ModuleGraph` | the module registry, the shallow fetch and the graph load of concurrent imports, refused allocations | `modulegraph` |
| `ModuleGraphProofs` | theorems about `ModuleGraph` | |
| `ModuleEval` | linking and evaluation of loaded graphs, dynamic import, nested drains, refused allocations | `module_eval`, `module_unbound` |
| `ModuleEvalPlaces`, `ModuleEvalProofs` | the invariant of `ModuleEval` and the lemmas every step needs; one lemma per action and the theorems | `module_eval` checks the invariant |
| `Syntax` | the syntax tree of `js_syntax.h` | `bytecode` |
| `Parser`, `Text` | `js_parser.c`; the tokens a tree is written as | `bytecode` |
| `Compiler` | `js_compiler.c`: scopes, slots, upvalues, jumps, handlers | `bytecode`, `bytecode_exits` |
| `Verifier` | what the loader demands of a function: its header, its operands, operand and try depths | `bytecode` |
| `Worklist` | the loader's worklist, which finds those depths, and its verdict | `bytecode` |
| `Interpreter`, `Values` | the dispatch loop, calls, closures, unwinding; conversions, operators, properties | `bytecode`, `bytecode_exits` |
| `InterpreterProofs`, `InterpreterCounts` | theorems about `Interpreter` and `Verifier`: operand stack, references, handler order; numbers of handlers | |
| `Strict` | a fold that keeps TLC from nesting unevaluated results | through its users |
| `Meaning` | what a syntax tree means: the abstract specification of compiler and interpreter together | `bytecode`, `bytecode_exits` |
| `Pipeline` | what parser, compiler, loader and meaning make of named programs, as tables | `bytecode`, `bytecode_exits` |
| `Bytecode` | the composition: read, compiled, loaded and run against the meaning | `bytecode`, `bytecode_exits` |
| `Topics` | the programs and the bounds of both runs | `bytecode`, `bytecode_exits` |
| `Sentences` | one program with every form of expression in every place of every other | `bytecode` |
| `MCJobPool`, `MCMicrotasks`, `MCFuel`, `MCModuleGraph`, `MCModuleEval`, `MCBytecode`, `MCBytecodeExits` | instances for TLC | |

`JobPool` is the abstract specification of the counts in `Microtasks`, `Meaning`
that of `Compiler` and `Interpreter`. `ModuleGraph` ends where `ModuleEval`
begins: sources have arrived. Both take the order of the queue from
`Microtasks`.

### Microtasks

`stack` is the C stack, innermost activation first. A `drain` frame is an
activation of `js_run_jobs`, a `job` frame a job on the `vm->running_job` list
with what it runs (`body`: guest code inside `run_fiber`, a native, nothing, or
a call refused at `JS_MAX_REENTRY`), a `call` frame the first stretch of an
async call. With an empty stack the host itself runs. The actions `NewPromise`,
`Then`, `ThenRefused`, `Resolve`, `Reject`, `CallAsync` and `EnterDrain` are what
code on top of the stack may do between two steps of its own; `Await`,
`AwaitValue`, `FiberReturn`, `FiberThrow`, `HandlerReturn`, `HandlerThrow` and
`PassThrough` are the ways an activation ends, each with the settlement and the
recycling of the node that the C code does before it returns to the loop;
`StartJob` and `LeaveDrain` are the loop of `js_run_jobs`, the trim included.

What a handler computes is not modelled: it returns or throws any of a few
values, promises included, so try/catch inside a fiber is the choice between
`FiberThrow` and the other ends. Host scripts and natives that run outside a job
are the host; an await refused by the allocator is `ThenRefused` followed by
`FiberThrow`. `nextId`, `derived` and `done` are history variables.

`Pool` instantiates `JobPool` with the number of reactions on pending promises,
the length of the queue, the depth of the running-job stack and the number of
reactions that are nowhere; `PoolSpec` says every step of `Microtasks` is a step
of the pool or a stutter.

### Fuel

`left` is `ctx->fuel_left`, `fuel` the field of the same name of each fiber,
`stack` the chain of `ctx->fiber` and its callers. `Spawn` covers every way a
new fiber comes to be (`js_call`, `js_run_module`, `call_async`, a then-job),
`Resume` a drain that goes on with a parked fiber; both go through `Advance`, the
model of `advance_fiber`, which may refuse at `JS_MAX_REENTRY`. Each instruction
is `Execute` or `Yield`; `Stopped` is the failed check, which no handler can
absorb because it fails again at the handler's first instruction. `Unlimited`
stands for `UINT64_MAX`, which no run counts down from. The host arms a budget
between turns only. `spent` and `granted` are history variables.

### ModuleGraph

`status`, `depSpecs` and `waiting` are the registry: a `JsModule` with the
reactions on its `fetch_promise`. `asked` holds the modules whose loader promise
the host has not settled. Each element of `Imports` is one call of
`js_eval_module` or one `import()`, with the fields of its state object (`root`,
`seen`, `remaining`, `promise` as `graph`). `queue` is the microtask queue
restricted to the continuations of `js_module.c`: `answered` is
`fetch_on_resolved` or `fetch_on_rejected`, `fetched` and `failed` are
`graph_on_fetched` and `graph_on_failed`, `loaded` and `loadFailed` the import's own.
The queue itself is the subject of `Microtasks`; here its FIFO order is taken
over, with one job per reaction.

`graph_on_fetched` is not atomic: for each dependency it may call the loader,
which is host code (or guest code) and may import further modules and settle
promises it returned before. `loop` is its position, and `Import`,
`ImportRefused`, `ImportSpoilt` and `LoaderSettles` are possible between two
iterations. An import made while `Fetch` itself calls the loader leaves the same
state as one made before it. A loader that drains the microtask queue is not
modelled. What evaluation does to a loaded module is `Evaluation`, a change of
status between two jobs.

`refusals` counts refused allocations. `ImportRefused`, `EnqueueRefused`,
`EnqueueUncounted`, `FinishRefused` and the second halves of `TakeFailed` and
`EnqueueUnresolvable` are what the code does then; reading or writing a field of
the state object allocates its key, and of those calls only the ones in
`load_graph` are tested.

### ModuleEval

`status`, `deps`, `ep`, `bp`, `reason` and `index` are the fields of a `JsModule`
and of the state object of its evaluation chain; `op` holds the imports, the
`js_eval_module` of a host or the `import()` of a body. `stack` is the C stack:
`root` is `root_on_fetched`, `inst` and `link` are `instantiate` and
`link_module` at a dependency, `step` is `eval_step`, `body` the body's own code
and `ran` the rest of `js_run_module`, which drains the queue again. So any
continuation of any other import runs in the middle of an evaluation. A body may
import, throw, end, or suspend on the host or on one of its imports
(`Import`, `BodyStops`), and a suspended one runs to its end in some later drain
(`FiberEnds`). Reactions on an evaluation promise
(`epWait`) become jobs when it settles (`SettleEval`). A graph load is one
action (`GraphLoads`), since `ModuleGraph` has its steps; its sources may fail,
and `module_unbound` starts from modules that loaded before a dependency failed.
`starter`, `joined`, `runs` and `lost` are history variables.

`refusals` counts refused allocations. The state of a chain is a script object,
so reading or writing a field of it (`mstate_get`, `mstate_set`) allocates, and
the chain tests none of these. What a refused one does depends on the field.
Without its 'module' `eval_step` returns false, which no caller looks at: the
chain stays where it is for good (`EnterStep`). Without the 'promise' a chain ends
and its promise stays pending (`Tells`). In both cases `Loses` notes the module in
`lost`. Without the 'index' the walk over the dependencies starts again (NaN is
converted to `uint32_t`, undefined in C and 0 on the targets the engine is built
for), and a write of it that is refused leaves the old one (`EnterStep`, `TakeDepDone`,
`StepReturns`). A NULL 'module' is dereferenced where an evaluation ends and
before a body; then the process is gone (`NullModule`, `crashed`). That is what a
native build does; WebAssembly, where address 0 can be read, is not modelled.
Where the C code does test an allocation, the chain, the instantiation or the
import fails with "oom" (`InstStep`, `RootInstantiates`, `RootEvaluates`,
`RootReturns`, `StepDep`, `StepReturns`, `BodyRefused`, `BodyReturns`).

### Parser, compiler, loader and interpreter

The C parser and compiler mutate a structure; here each operation takes it and
returns the next, so an operator stands for a C function and a `LET` for the
order of its calls. `Compiler` keeps what the C keeps: the chain of functions
being compiled, their scopes, slots and captured flags, loop and switch labels,
pending jumps, the counted operand depth. An instruction occupies one address;
the encoding of operands and the limits of
`js_compiler.c:24-27` are left out, as are the REPL's lexical bindings, module
imports and exports, regular expressions and `import()`. `/ % ** & | ^ << >>
>>>` are parsed and compiled but not computed.

`Interpreter` makes one step per instruction. `h()` is a native that returns 1 or
0 or throws, as the host likes, and the host may interrupt at any instruction and
while the program waits for a promise. `js_run_jobs` takes no job while the flag is
up (`js_promise.c:340`), so a program that is interrupted while it waits stays as it
is; `js_vm_clear_interrupt`, after which it could go on, is an action of
`Microtasks` and not of `Interpreter`.

The data of a program is what its control flow depends on: integers and NaN, strings
as text, plain objects, arrays, functions with their `prototype` (`SetPrototype` is
the assignment to it), errors by their class. Strings are iterated, spread, indexed
and compared as in the code. `Values` leaves out, and no program uses, the methods of strings,
numbers and arrays; fractions, and text that is converted to a number; keys that are
text of more than one digit, and indices so large or sparse that they become
properties; surrogate pairs; strings compared by other units than digits and small
letters; the `prototype` of natives, and properties of the errors the engine raises.

`Worklist` computes the fixpoint of `js_bytecode_read.c`: every depth an
instruction can be reached at. `Verifier` says what an accepted function and its
fixpoint satisfy (`Accepted`), apart from how it is computed; that is all the
theorems about loaded code use. `Bytecode` runs each program as compiled and as
loaded. `Meaning` is a big-step evaluator that knows nothing of bytecode: given
the same answers of the host, the program must log, return or throw the same
(`MeaningKept`). Where the language as documented and as implemented differ and
nothing is at stake, `Meaning` follows the engine (an assignment to a `let`
before its declaration does not throw).

`Parser` is checked from the other end: `Text` writes a tree as tokens by the
grammar of ECMAScript, with parentheses only where the grammar demands them, in
a full style and a terse one (no semicolons where a line end will do,
shorthands, bare arrow parameters), and `ParsesBack` says the parser makes the
tree of them again. The lexer, regular expressions and `import()` are left out.

`Parser`, `Text`, `Compiler`, `Meaning`, `Worklist`, `Strict` and what composes
them use `RECURSIVE` operators and are for TLC only. `Values`, `Verifier` and
`Interpreter` do without, and `InterpreterProofs` and `InterpreterCounts` are about
them. A program starts
with `loaded` true or false: what a host compiles and runs at once never passes
the verifier.

## What the runs check

| run | question | result |
|---|---|---|
| `jobpool_reserve` | is every pending reaction's node there while at most `JS_JOBS_FREE_MAX` are pending? | `ReserveHeld`, `NoJobLost` hold |
| `jobpool_trim` | ... and with one more? | `NoJobLost` is violated, see Findings |
| `microtasks_safety` | nested drains, adoption, async calls, refusals and interrupts | `NoReactionLost`, `StartOrder`, `ResumedOnce`, `SettleOnce`, `FulfilledPlain`, `ReactionsOnlyWhilePending` hold |
| `microtasks_live` | with memory to spare, is everything settled and served? | `NoOrphan`, `NoOrphanAsync`, `SettledIsServed` hold, `JobPool` is implemented |
| `microtasks_adopt_oom` | ... and when an allocation is refused? | `NoOrphan` is violated, see Findings |
| `fuel` | can a remainder underflow, can a turn mint fuel, does endless code end? | `NeverUnderflows`, `SpentIsGranted`, `TurnsEnd` hold |
| `fuel_refund` | does a turn stay within its budget when parked fibers come back? | `BudgetShared` is violated, see Findings |
| `modulegraph` | do concurrent imports of overlapping graphs load each module once, completely, and always finish? | `FetchedOnce` holds, also when an allocation is refused; `GraphComplete`, `NoImportStranded` hold while none is |
| `module_eval` | do imports that link and evaluate one cyclic graph, in each other's drains, run each body once, after what its chain began, and all get the right answer, refused allocations included? | `EvalInv`, `BodyOnce`, `BodyAfterDeps`, `OutcomesAgree`, `ImportsSettle` hold |
| `module_unbound` | does no body run with an import unbound? | `BodiesBound` is violated, see Findings |
| `bytecode` | does a program mean the same as text, as compiled and as loaded, and does the loader's proof of its stack hold while it runs? | `ParsesBack`, `MeaningKept`, `LoaderAccepts`, `DepthsProved`, `StackProved`, `DepthCounted`, `OpenUpvaluesLive`, `HandlersLive`, `StopFails`, `StopKept`, `Halts` hold |
| `bytecode_exits` | ... also when a break leaves a try? | `MeaningKept` is violated, see Findings |

Every property has a mutant in `PROJECT.json`: a plausible bug in a modelled
definition that makes the run find the property violated. The mutant operators
stand beside the definitions they change, marked "Mutation".

### Bounds

*Microtasks*: three promises and one async fiber, at most three reactions (two
in the liveness run), `FreeMax` 3 or 1 for 64, `MaxReentry` 2 for 200. Three
promises are a promise, one derived from it and one adopted; three reactions let
two wait on one promise while a third is queued or running; with one fiber
the re-entry limit is reached by nested drains. Promises are interchangeable,
so the safety run uses symmetry over them; the liveness runs do not. Refused
allocations leave at most `MaxFree` spare nodes. `SettledIsServed` and `PoolSpec`
run with `MayFail` off: what happens with it on is the two findings.

*JobPool*: `FreeMax` 3 and as many, or one more, reactions pending; what matters
is the side of `FreeMax` they are on, and the theorems cover every other value.

*Fuel*: three fibers (a caller, a callee and a parked one), budgets 0 (none) and
4, `MaxReentry` 2 so that the third nested entry is refused.

*ModuleGraph*: two imports, three modules, lists of at most two dependencies, one
refused allocation. Two imports suffice for every relation a load has to
another's fetch (first, joining, after success, after failure); the lists give
chains, diamonds, self-imports and cycles of two and three modules; a synthetic
module is the leaf. `Later` is `errored`, the only outcome of evaluation that a
later fetch tells from a loaded module. Rotations of the modules map the set of
lists to itself, so they are a symmetry, as are the imports. The theorems cover
every other graph and number of imports. The host may stop answering, so
deadlock is not checked; `NoImportStranded` is about the states in which it has
answered everything.

*ModuleEval*: two imports, of any module, by the host or by a body, over two
graphs. A root with two arms that depend on each other has a
cycle, a dependency reached along two paths, and every order in which chains
meet a module before, during and after its evaluation; there one allocation is
refused. In the other a module imports a second one (`Roots`: nobody asks for the
third), and two allocations are refused, so that one refusal meets what another left behind:
a failure with "oom" whose own lookup is refused, a walk that starts again and then
loses its place, a NULL module after a refused promise. 241,334 states.
`module_unbound` has one module that imports another, four interchangeable
imports and no refusal. The theorems cover every other graph, number of imports
and refusals. When all is answered nothing is left to do, so deadlock is not
checked.

*Bytecode*: 95,448 states of 159 programs, each compiled and, in a second initial
state, written and loaded. The programs are, first, the six exits (break and
continue with and without a label, return, throw) in 14 statements, which stand
in turn in a `for-of`, a `for` with a captured variable, or a try with a finally
block with or without a catch; then a program for each part of the language; and
`Sentences`. Two answers of the host, after which it stops, let each condition
go both ways once more (it returns 1 or 0 or throws); four frames are the deepest call. A program stops when
it is done or interrupted, so deadlock is not checked. `Sound` leaves out the
combinations that the findings below are about. Loops are nested two deep: that
reaches every jump, and it is why `DepthCounted` leaves out finally blocks, whose
operands grow with what they are called above (Findings).

### Fairness

`Microtasks!FairSpec`: the host drains again while jobs are queued and nothing
runs (the embedding contract in `include/lamassu.h`), a drain keeps dequeuing
until it may leave (the loop of `js_run_jobs`), an activation eventually ends
(guest code is bounded by the fuel; strong, because a handler may drain and come
back any number of times in between), and the host clears an interrupt.
`SettledIsServed` is stated for behaviours in which interrupts eventually stop.
`Fuel!FairSpec`: code on the C stack keeps executing; nothing is assumed of the
host.
`ModuleEval!Fairness`: the engine makes its steps and the host drains while
something is outstanding; the host answers every graph load and everything a body
awaits of it (strong, because those answers are taken inside drains, which end
and begin again). `Interpreter!Spec`: an interpreter that is running goes on,
which is its loop; nothing is assumed of a host that lets a program wait. `Halts`
therefore says of a program that it ends or waits, and of one that is interrupted
that it ends if it was running.

## Findings

- `jobpool_trim`: the trim at the end of an outermost drain keeps 64 nodes, also
  when more reactions are pending. Their settlement then allocates, and a
  refused allocation drops the job silently although `js_promise.c:145` calls
  that branch unreachable and line 215 says the reserve is never raided. With
  70 or 80 handlers on one promise and an allocator that refuses from then on,
  64 run.
- `microtasks_adopt_oom`: `js_promise_resolve_with` ignores a refused
  `reaction_alloc` when a promise adopts another. The promise stays pending and
  nobody is told, although "registration CAN fail visibly" (`js_promise.c:213`).
- `fuel_refund`: a fiber that awaited comes back with the remainder it was parked
  with, and `advance_fiber` writes that over `ctx->fuel_left`. `k` parked fibers
  make a turn execute up to `k` budgets, against `include/lamassu.h:303-305`. By
  the same copy a fiber of a spent turn can starve a freshly armed one, and a
  fiber parked when there was no budget stays unlimited.

- `module_unbound`: a module whose instantiation failed keeps a `deps` array with
  NULL entries, which `js_module.c:546` takes for instantiated, and one whose
  linking failed stays LINKING, which line 612 takes for a cycle in progress. A
  third import passes both stages and runs the body with the import unbound,
  against `include/lamassu.h:391-393`.
- `bytecode_exits`: `compile_stmt` (`js_compiler.c:2088`) emits no `TRY_POP` for
  the handlers that a break or continue leaves. The handler stays installed and
  catches an exception thrown long after, against
  `docs-site/guide/language.md:74`.

Found on the way; those marked * were met by running the engine, the others by
reading. Most are of the frontend; `Sound` (`Topics`) and the choice of
programs keep them out of the run `bytecode`.

- A refused lookup in the state object of an evaluation strands an import. One
  that is refused at `js_module.c:746` makes `eval_step` return false, which lines 709
  and 837 ignore; refused at 694, 730 or 786 the settlement is skipped. The
  evaluation promise stays pending and so does the import's, against
  `include/lamassu.h:391-393`. At 691, 728 and 773 the NULL that comes back is
  dereferenced. `ModuleEval` takes all these steps (`lost`, `crashed`), and
  `ImportsSettle` says that no other refusal leaves an import without an answer.
- A finally block is counted as if it were entered where its try begins
  (`js_compiler.c:1993`), `emit_finally_gosubs` (591-604) counts nothing for
  the operands it is called above, and `PUSH` tests nothing. A return that leaves eight
  `for-of` loops inside a try, with a finally block that makes a call of 14 arguments,
  needs 34 operands in a frame that has reserved 33, both headrooms of 8 included
  (`js_compiler.c:1632`, `js_interp.c:1018`); `Compiler` and `Interpreter` do the
  same with that program. The stack's capacity is a power of two from 64, so the
  room is often there by chance. Loaded code is counted right, by the worklist.
- * `continue` out of a try in a loop: the loader rejects what the compiler emitted
  ("too many stack shapes at one instruction"), against the comment at
  `js_bytecode_read.c:592-610`.
- * A captured `let` is shared or overwritten after an abrupt exit of its block: by
  break, by continue of a `while`, by a throw out of a block or a `for` inside a
  try that has a catch variable. The upvalue is closed at the block's end only.
- * `return` in a try whose finally block throws runs that block twice.
- * `break` or `continue` inside a finally block leaves its return address or the
  thrown value on the operand stack.
- * `n?.b().c` does not short-circuit after the call, and `(a?.b).c` does.
- * Two destructuring parameters are rejected: their anonymous slots compare equal
  in `declare_local`.
- * An optional call `f?.()` leaves the compiler's depth one too high
  (`js_compiler.c:1262-1274`). A later break or continue in a loop of the same
  function then pops a local; of such code the loader says "bytecode stack
  underflow".
- With both catch and finally, the guard's `TRY_PUSH` (`js_compiler.c:1943`) is
  emitted while the thrown value is on the stack, so a stale slot becomes live
  below the error (`Stale` in `Interpreter`), against the comment on `RET_SUB` at
  `js_interp.c:1966-2003`.
- `js_resolve` adopts promises only, though `include/lamassu.h:327` says thenables, too.
- `docs-site/guide/language.md` lists labeled statements as unsupported; they are
  supported.
- The parser rejects `[{a=1}, b = function(){ s; }] = x` and `(a?.b).p = 1`, accepts
  `new a?.b()` (a syntax error by the comment at `js_parser.c:1082-1084`),
  `((a)) => b`, `([a.b] = []) => 1`, `for (x = 5 of y)` and `({if})`, and takes the
  call in `new async(x)` for the callee. `if (x) function f(){}` and
  `if (x) let y` are accepted and not hoisted.

## What is proved

The constants are arbitrary apart from the named assumptions `PoolConstants`,
`MicrotaskConstants`, `FuelConstants`, `GraphConstants`, `EvalConstants` with
the two about sentinels, and the three of `Interpreter`. Theorems with a
condition name it in their statement.

- `JobPoolProofs`: `PoolTypeCorrect`; and, assuming `MaxPending <= FreeMax`,
  `ReserveNeverRaided` and `SettlementLosesNoJob`. Neither invariant is
  inductive alone: a settlement loses nothing because the nodes are there, and
  they stay there because the trim keeps at least as many as are pending.
  `ReserveInv` is their conjunction with the types. The assumption is what
  `jobpool_trim` violates.
- `MicrotasksProofs`: `TypeCorrect`, `ReactionsMeanPending`,
  `NeverFulfilledWithPromise` and `PromisesSettleOnce`, for any number of
  promises, fibers, reactions and nested drains. The inductive invariant is
  `PromiseInv`: the types (which include that whoever a reaction, a job or a
  frame refers to has a result promise) with the first two properties; the
  action property follows from it step by step.
- `MicrotasksProofs` also: `ReactionsAreKept`, `JobsStartInOrder`, `FibersResumedOnce`
  and `ImplementsPool`, under `[]ReserveKept`; `DerivedNotForgotten` and
  `AsyncNotForgotten`, under `~MayFail`. `NoReactionLost` is not inductive: that a
  settlement drops nothing depends on the free list, and that a job is not
  doubled depends on where every other reaction is. `LostInv` says it all at once.
  The lists hold reactions registered on their promise, newest first (`ListInv`),
  the queue holds jobs of settled promises, those of one promise oldest first
  (`QueueInv`), the running jobs are distinct and not done (`ActiveInv`), the
  numbers in those places and in `done` are disjoint and are all numbers ever
  given (`PlacesInv`), and each listed reaction has a spare node where an
  allocation may fail (`Reserved`). A step is then a move (`Moved`): settling takes
  reactions from a list to the queue, reversed; registering adds the newest number
  to a list or to the end of the queue; `StartJob` takes the head. The order in
  which jobs start follows: the head of the queue is the oldest of its promise
  there, and what is still on a list is on a pending promise. `FibersInv` puts
  each fiber in the one place its state names, and `OwedInv` gives every promise
  that was handed out a settlement or a reaction that will bring it.
  For the refinement, the places are counted: `nextId` is one more than listed,
  queued, running and done reactions together (`CountsAgree`), so that what a step
  does to the other four tells what it does to the pending ones.
  `ReserveKept` says `PendingReactions <= FreeMax` in every state if allocations may
  fail. It is what the code needs, not what it guarantees: `jobpool_trim` is the
  execution without it, and in `microtasks_safety` `FreeMax` is as large as the
  number of reactions, so that it holds there. It is no condition at all where no
  allocation fails. `microtasks_adopt_oom` shows why the two about forgotten
  promises need `~MayFail`.
- `FuelProofs`: `FuelTypeCorrect`, `FuelNeverUnderflows` and
  `TurnsSpendWhatTheyAreGranted`. `FuelInv` adds that each fiber is on the C stack
  at most once and running, and that whoever is about to execute, the top fiber
  or the context, holds no more than what is granted and not yet spent: nested
  copies are harmless because only one of them is ever the one that counts.
- `ModuleGraphProofs`: `GraphTypeCorrect`; `LoaderCalledOnce`, with or without
  refused allocations; `GraphLoadsComplete` and `NoGraphLoadStranded`, without.
  `RequestInv` says that a loader promise answers once, while its module is
  fetching. `LoadInv` ties the counter to the messages: `remaining` is the number
  of modules seen and not processed, each import has at most one continuation or
  place in a `waiting` list per module and only for modules it wants, and the
  dependencies of what is processed, or behind `loop`, were seen unless the load
  has failed. `ArrivesInv` adds the converse, that whatever a pending load wants
  is waiting, queued or in the loop, and that a fetching module is asked for or
  answered. None of the three is inductive without the types and the ones
  before it.
- `ModuleEvalProofs`: `EvalInvariant`, `ModuleEvalTypeCorrect`, `BodiesStartOnce`,
  `BodiesFollowDependencies` and `OutcomesAlwaysAgree`, for any set of modules, any
  graphs over them, cycles included, any number of imports and any refusals. A
  chain is the evaluation of a module or the last part of an import. A chain that
  is under way is in exactly one place, a frame, a job, a reaction or the fiber of
  a suspended body, and one that has not begun or has settled is in none
  (`PlaceInv`); without that a second continuation could start a body again. The
  exception is a chain in `lost`, which is in none (`NoneDropped`): only its own
  refused lookup puts it there, nothing that happens to another chain does. What the place says of the
  chain is true (`ChainInv`: a `step` or a waiting reaction has not started its
  body, a `bodyDone` job follows a fulfilled body), above frames that link are
  only such frames (`LinkInv`), and whoever began an evaluation is waiting for it, has its result, or
  fails with its reason (`ByModules`, `ByImports`); that account is what
  `BodyAfterDeps` and `OutcomesAgree` read off. A body that runs its own code is on
  top of the stack, so what it calls finds no chain half way. `ModuleEvalPlaces`
  has the lemmas on lists, stacks and moves that all 21 kinds of step share.

- `InterpreterProofs`, of any code whatever: `InterruptedFails` and
  `InterruptedActsNoMore`, since an interrupted program raises at every
  instruction, handlers included, so that what is left of it is unwinding, and one
  that waits is not resumed; and
  `HandlersInOrder`, the first half of `HandlersLive`. A handler is set for the top
  frame, and a return drops the handlers of the frame that goes before it goes, so
  that the list stays ordered by frames also where the loader was never asked.
- `InterpreterProofs`, of the programs the loader vouches for (`Vouched`): those that
  were loaded, whoever wrote them, and those just compiled that it would accept and
  that have no finally block to return from, because `RET_SUB` tests where it goes in
  loaded code only. `VouchedFrames` and, for loaded code, `LoadedStack`;
  `VouchedTypes`, `VouchedUpvalues` and `VouchedOperands`: the interpreter does not
  check its operand stack, and the loader's verdict is enough that it need not. Of
  the code only three assumptions are made, and TLC evaluates them with `bytecode`.
  `CodeAssumption`: a function is what the reader can decode (counts are not
  negative, constants refer to functions of the program). `VerdictAssumption`: of a
  function found acceptable the loader has a set of depths that contains the entry,
  is closed under the steps of pass 2 and passes its tests. That is the verifier
  itself, and the run evaluates it on every function that the worklist accepts.
  `HostAssumption`: natives answer with values that refer to nothing.
  The invariant is `Inv`. Every reference in a stack slot, an object, a global, an
  upvalue or a closure names something that exists; a frame lies above the operands
  of the one below; each frame, the suspended callers included, is at an instruction
  and an operand depth that the worklist found, and each handler would be entered at
  one; handlers are in the order of their frames; a slot has at most one open
  upvalue, and the slot is a local of a live frame. `StackProved` is not inductive
  without the rest: a return goes back into a caller whose depth is known only
  because its frame's base is where the call left it, and `RET_SUB` is safe because
  its operand is compared with the return points found at the current depth.
  Unwinding keeps `OpenUpvaluesLive` because it closes what lies above the cut, and
  the cut is no lower than the locals of the frame that catches. TLC confirmed `Inv`
  on the states of `bytecode` before it was proved.
- `InterpreterCounts`: `CountedHolds`, `CountsProved` (`DepthsProved`) and
  `HandlersWithin` (`HandlersLive`). The loader finds a number of handlers with each
  depth, and neither property follows from its verdict alone. `RET_SUB` compares
  depths, so a finally block entered from two places with different numbers of
  handlers may return to either. `CountsSettled` says of the loader's tables that
  it arrives, with the handlers it has, at a shape that was found. And a handler
  records the operand depth at which it was set; code that afterwards drops operands
  from under it is accepted, and unwinding then raises the stack again.
  `DepthsLayered` says that with more handlers the stack is no lower than where one
  was set with fewer. Both are conditions on tables computed before the program
  starts, not on its states.
  The invariant is `Counted`: each frame is at its instruction with the depth and as
  many handlers as it has; each handler was set by a `TRY_PUSH` found at the depth the
  handler records and with the number of older handlers of its frame. The second
  part is what unwinding needs: what it leaves behind is a successor of that
  `TRY_PUSH`. `Counted` says nothing of order, so it is inductive only on top of `Inv`.
  `HandlersWithin` follows because a handler is not counted among the older ones: its
  frame has more now than when it was set. TLC confirmed `Counted` on the states of
  `bytecode` first.
  Of the 159 programs there, all of which the loader accepts, `CountsSettled` holds
  for 132, among them 63 of the 90 that return from a finally block, and both hold
  for 98, among them 39 of the 100 that set handlers. Most of the others
  return through a finally block whose own handler is still set, or have both catch
  and finally, whose guard is set above the thrown value (both under Findings); of
  all of those the two properties are model-checked.

Only model-checked: of `Bytecode`, `MeaningKept`, `ParsesBack`, `LoaderAccepts` and
`DepthCounted`, which are about what the parser and the compiler make of a tree:
their recursion needs `RECURSIVE` operators, which the prover does not support, and
the theorems would be inductions over trees, which it cannot do either. For the same
reason `DepthsProved` and `HandlersLive` are proved under the conditions above, and
`TypeOK` and `OpenUpvaluesLive` of programs the loader vouches for; of what the
compiler makes of the other programs they are model-checked. That the worklist
computes a closed set is evaluated, not proved (its loop is recursive). And liveness:
`SettledIsServed`, `TurnsEnd`, `ImportsSettle`, `Halts`.

## Plan

1. `PromiseCombinators`: `all`, `allSettled`, `any`, `race`, `finally`, the
   executor's resolving functions.
2. `Heap`: marking, sweeping, roots, the pre-sized mark stack and the heap limit.
3. `AtomTable`, `PropMap`, `ValIndex`: the hash structures, each against a set, a
   function or a sequence.

Proofs to add, with those modules: the invariants of the heap and the hash
structures.

What a refused allocation does to a graph load stays a limit: `load_graph`'s
promise may fulfil early or stay pending when the counter could not be read or
written (`js_module.c:408-410`, `469-470`), and `graph_fail` gives up when it
cannot read the promise (`js_module.c:387`). `ModuleGraph` takes these steps; no
property is stated of what follows, except `FetchedOnce`.

Left out: the lexer, the compilation of imports and exports and the writing of
bytecode files, the builtins, formatting and parsing of numbers and dates, the vendored regular expression engine (not in the
tree), process and file I/O of the tools and the language bindings.
