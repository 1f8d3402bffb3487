# Apexforge: specification, model checking and proofs

Apexforge compiles *directives*, declarative programs with principals,
authority checks, causal paths, state and events, into a representation called
AIR, links and validates it, and executes it deterministically. Around the
language stand a language server (LSP over stdio) and clients of it for Visual
Studio and VS Code. This directory holds TLA+ specifications of these parts, the
TLC configurations that check them on small instances, and TLAPS proofs for every
instance about the runtime engine, the module graph, the project build, the
language server and its three clients.

```
tlc -workers 2 -config MCRuntimeEngine.cfg MCRuntimeEngine
tlapm RuntimeEngineProofs.tla
```

## Inventory

Paths are relative to `src/apexforge/` unless they start with `editors/`.

| component | state it keeps | operations | what makes it correct |
|---|---|---|---|
| runtime engine (`runtime/engine.py`, `state.py`, `diagnostics.py`) | per execution: committed snapshot, events, assignments, effects, trace, diagnostics; per call: a working copy of them | `execute`, recursion over directives, paths, conditional bodies; rollback of what fails; evaluation of expressions and pure functions | an entry directive takes effect as a whole or not at all; state and record agree; only authorised directives act; recursion is bounded; failures are diagnosed, once |
| authority engine (`authority/engine.py`) | the policies | `check` | deny by default |
| causal engine (`causality/engine.py`) | none | `select_path` | deterministic: greatest weight, then smallest id |
| lexer and parser (`language/lexer.py`, `parser.py`) | position | a recursive descent over tokens | the same tree for what is printed from it |
| compiler (`language/compiler.py`) | none | one unit to AIR | refuses early only what would be refused later |
| module graph (`language/modules.py`) | none | resolve imports, cycles, order, visibility | an order exists iff no cycle is reported; dependencies precede dependents |
| project build (`language/project.py`, `air/linker.py`) | none | normalise, read headers, resolve, compile, link, validate, find the entry | exactly the valid projects are built |
| runtime validator (`language/validation/runtime_validator.py`) | none | passes over a linked program | what the engine assumes of programs |
| type system (`type_system/`) | none | inference, substitution, specialization, lowering of generics | typed programs do not fail of types; lowering changes nothing |
| standard library (`standard_library/`) | none | pure functions, their checks | results have the declared type |
| language server (`language_server/server.py`, `protocol.py`, `diagnostics.py`) | lifecycle flags, negotiated capabilities, documents, cancelled ids, queued notifications | one handler per message | one answer per request; diagnostics of the text that is stored; nothing outside initialize ... shutdown; a bounded ledger |
| providers (`language_server/formatting.py`, `definition.py`, `references.py`, `rename.py`, hover, ...) | none | pure functions of the documents | an edit keeps what the program means |
| Visual Studio client (`editors/visualstudio-apexforge/.../ApexForgeLanguageClient.cs`) | active process, two generation counters, a semaphore | activation, callbacks of the host, exit event, restart | one reachable server; a restart reports what happened; restarts end |
| VS Code client (`editors/vscode-apexforge/runtime/lsp-client.js`) | pending requests, process, state | request, timeout, cancellation, start, stop | no promise is lost, a request given up leaves nothing behind, stop ends |
| VS Code extension (`editors/vscode-apexforge/extension.js`) | one controller per workspace folder: client, start and restart promises, generation, synchronised versions | start, stop, restart, document events, providers | documents reopened after a restart; displaced servers end; no stale diagnostics |
| authorities, roles, workflows (`authority/compiler.py`, `registry.py`, `role/`, `workflow/`), semantic validator | registries, queues | compile, inherit, route | cannot run at this commit, see "Not modelled" |
| tooling, CLI, tools, packaging | files | sequential input and output | outside the reach of a model checker |

**How they interact.** The build calls parser, compiler, linker, validator and
(on request) lowering in sequence; the engine then runs what the validator
accepted, and calls the authority engine and the causal engine synchronously. A
client and the server exchange messages over a pair of FIFO pipes; the server
handles one message at a time and writes the response, then the queued
notifications, before it reads the next. The Visual Studio client is called
back by its host on thread-pool threads; the VS Code client and extension run on
one event loop, in which every `await` is a place where other tasks run.

**Where it is hard.** Nested failures in the engine (three kinds of nesting,
each with its own rollback), cyclic invocations at the depth limits, messages
in any order at the server, exceptions in the middle of a handler, the full
ledger, the races between activation, callbacks, exit events, timeouts and
restarts in the clients, and the agreements between stages that are written
apart: the cycle search and the topological order, the early checks of the compiler
and the linked validator, static types and erased values, generic calls before
and after lowering, printer and parser, rename and name resolution. Each is
listed, at its line and with the properties about it, under `hazards` in
`PROJECT.json`.

## Modules

| module | models |
|---|---|
| `RuntimeEngine` | `RuntimeEngine.execute`, as a machine with an explicit call stack |
| `AtomicExecution` | what `execute` promises: no stack, roots commit or abort whole |
| `RuntimeEngineProofs` | theorems about `RuntimeEngine` |
| `LspSession` | `LanguageServerSession.process` as operators on a session record |
| `LanguageServer` | `run_language_server`: one server and a client that may send anything |
| `VsLanguageClient` | `ApexForgeLanguageClient`, threads and host included |
| `ServerProcess` | what `LspProcessClient` promises about one process |
| `LspClient` | `LspProcessClient` itself, shown to implement `ServerProcess` |
| `LanguageServerProofs`, `VsLanguageClientProofs`, `LspClientProofs`, `WorkspaceServerProofs` | theorems about the server and its clients |
| `WorkspaceServer` | `WorkspaceLanguageServer` and the editor's events, on `ServerProcess` clients |
| `ModuleGraph` | `_find_cycle` and `_topological_order`, loop turn by loop turn |
| `ModuleGraphProofs` | theorems about `ModuleGraph` |
| `ProjectBuild` | the stages of a project build |
| `ValidProject` | which projects can be built, said of their sources alone |
| `ProjectBuildProofs` | theorems about `ProjectBuild` |
| `InductionLemmas` | induction over the naturals as facts about sets, for the proofs |
| `TypeInference` | inference, generic substitution, constraints |
| `StandardLibrary` | signatures, invocation checks and results of the library |
| `SourceCompiler` | one unit to AIR |
| `LinkedValidation` | the validator on functions, states and actions |
| `Evaluation` | the evaluator of expressions and pure functions |
| `GenericLowering` | collection of specializations, lowering |
| `TypedProgram` | the way of one program through all of these |
| `Parsing`, `Formatting`, `Definitions` | the parser; the printer; definition, references, rename |
| `Outline`, `Completing` | hover, document and workspace symbols; completion |
| `SourceEditing` | a document that is typed in, formatted, renamed and looked at in turn |
| `MC...` | the values of the constants, and reference definitions |

`map` in `PROJECT.json` relates each definition to the lines it models.
Definitions whose comment says "Faulty variant" are not part of any
specification: each is a plausible bug, and shows that a property would notice.
`TypedProgram` and `SourceEditing` and the modules under them use RECURSIVE
operators over syntax trees, so they are checked by TLC only; all others are
written so that they can be proved about.

### RuntimeEngine

One execution. `prog`, `grants` and `entry` are the inputs, chosen in `Init`.
`stack` is Python's call stack: a frame of kind "directive" is a call of
`_execute_directive`, one of kind "actions" a call of
`_execute_ordered_actions`, and each has the buffer (`buf`) of state, next
event index, assignments, events and effects that the call may still lose.
`committed` is what `execute` accumulates, `roots` its loop variable, `signal`
tells whether the top call is returning a failure ("failed") or raising one
("raised"), `diagnostics` counts reports and `done` is a history of the roots.
Actions are the code's steps: `ResolveEntries`, `EnterDirective` with its three
rejections (`RejectCycle`, `RejectDepth`, `Deny`), `BeginPath`/`FinishPath` per
decision, `Assign`, `Emit`, `BeginBranch`/`FinishBranch`, `RaiseError`,
`CatchError`, `AbortCall`, `ReturnDirective`, `CommitRoot`, `AbortRoot`,
`Finish`. Expressions and facts are the constant `Eval(expr, snapshot)`, which
may give `Fault`: which function was called and how deep its pure call stack
went makes no difference to what the engine does next (what it computes is
`Evaluation`'s). References are resolved by the constant function `Resolve`.
Trace entries are left out: nothing reads them. Not modelled: a causal policy
other than `max_weight`, which the validator rejects, and snapshots of the
wrong type passed in by the caller, which raise before anything happens. All errors of
evaluation are one kind, as the engine treats them alike; an exception of Python that
is no runtime error (an exhausted interpreter stack, say) leaves `execute` with nothing
committed for its caller to see, and is left out.

`AtomicExecution` is the contract: a root with its checks passed commits as a
whole (its assignments replayed on the old state give the new state, its events
get the next indices) or has no effect at all. `RuntimeEngine` is shown to
implement it with `committed`, `roots` and `done` mapped to themselves and
everything on the stack hidden.

### LspSession and LanguageServer

A session is a record with the flags, the capabilities, the document store and
the ledger; `Processed(session, message)` gives the session afterwards and what
is written. A message carries its method, id and a flag `valid` standing for
all checks of its params that need no session state, in the position the code
makes them: for `initialize` that is after the capabilities were configured.
All nine providers are members of `Feature`; the analysis of a text is the
constant function `Analysis`, where `Raised` stands for an exception without
diagnostics. `LanguageServer` adds the loop and a client that may send any
message in any order, which is the strongest environment there is, and
histories of what that client knows: what it was shown, what it declared, which
cancellations it is owed. Left out: payloads that are not JSON (answered with id
null, without touching the session), a failing write (the process dies), trace
value and counters (never read).

### VsLanguageClient

Three kinds of threads: `ActivateAsync` per process, the host's callback about
the handshake with it, and `RestartAsync` per execution of the command. What a
thread does under `processGate`, each `Interlocked`/`Volatile` access and each
call that starts or kills a process is a step of its own. `TryTerminate` stops
a live process and does nothing to one that is not started (the
`InvalidOperationException` is caught), as the code does. The host is external:
it may serve a StartAsync event late or never, concurrently with an earlier one,
report a handshake late, and servers may exit at any time; a handshake can only
succeed with a live server. The Exited event may be handled at any time after
the exit. Locals are reset when they are read for the last time. Not modelled: a
`Kill` that the operating system refuses, and a restart with no subscriber to
StartAsync, which returns at once.

### ServerProcess, LspClient and WorkspaceServer

`LspClient` is one object of `LspProcessClient`. JavaScript runs a task until it
awaits; `ready` is the microtask queue with the continuations of `start()` and
`stop()` that are ready to run, in order, and events (output, `close`, timers,
cancellations) are handled only while it is empty. `pending` is the request
table and `request` the outcome of every promise ever made. The server may
answer, refuse, hang, write something that is no message, or die; the process
may fail to spawn. A chunk of output that cannot be decoded loses the answers in it; a
message that is decoded but is not JSON-RPC 2.0 loses those after it. `timers` and
`tokens` are the handles of a request that can still fire, and `told` is the history of
the `$/cancelRequest` notifications that reached the pipe. `start` and `stop` may be called at any time, also while the
other is under way.

`ServerProcess` is the contract between the two: `start` and `stop` settle, a
started client had a process, and `stop` returns only once there is none. It
includes fairness, and the run `lsp_client` checks the whole of it as the
property `KeepsContract`. `WorkspaceServer` then uses clients that do what
`ServerProcess` allows and no more, so the request table need not be carried
into it: the composition is by assume and guarantee.

`WorkspaceServer` is the controller of one folder, one document in it (which may
be closed and opened again: `documents` counts its objects, each with versions
from 1), and the servers it has started, each with its two pipes and the text it
holds, which follows `LspSession`. `core[c]` is where the `_startCore` that made
client c waits, `task[t]` where a call of an event handler or provider does; the calls
are numbered in the order in which they are made. One
difference from JavaScript is deliberate: continuations that are ready run in
*any* order, not in the order of their promises' reactions. This includes what
the runtime does, so the properties hold of it; the violation of
`RestartStartsAnew` needs no order that the runtime would not choose.
`SoleFolder` says whether `activate()`, which waits for the servers of all
folders before it registers the handlers, waits for this folder only.

One document hides one thing. A start opens the documents of the folder one after the
other; when a notification throws in the middle (`encodeMessage` refuses a document that is
too large), the catch clause clears `client` but not `openVersions`
(`extension.js:555-559`), and the exit of that client no longer counts as the current one's.
The documents opened before it then look synchronized to the next server, which never gets
them. With a single document nothing was opened before, so `VersionsAreSent` and
`NothingRefused` are checked and proved for one document per folder only.

### ModuleGraph and ProjectBuild

`ModuleGraph` steps through the loops of the two functions: `Visit`, `LookAt`,
`Leave` for the search (`state` has the code's 0, 1 and 2), `Take` for Kahn's
algorithm on a heap. A module is its rank in the order of (casefold, name), the
order in which both loops proceed. The phase "escaped" is the `AssertionError`
that the code raises when the order is incomplete although no cycle was found.

`ProjectBuild` takes sources apart line by line as `parse_module_header` does
(a line is a module line, an import, blank, ill-formed or text) and goes through
the stages of `build_project_sources`; `refused` with a code and the units
blamed is the exception. It uses what `ModuleGraphProofs` establishes of the
graph (a cycle is reported iff there is one, and the order puts imports first)
instead of running the loops again. Bodies are abstracted to what they declare
(one directive or function, states) and refer to. `Over` is a build that has been
executed or refused and does nothing more, so that a stage which could neither go on
nor refuse would be a deadlock, which the run checks for. `ValidProject` is the
reference: a project is `Valid` by conditions on its sources, in which no stage, order
or linked program occurs.

### The typed modules

A source program is a list of functions and a directive, as syntax trees.
`TypedProgram` compiles its units one by one, links them, validates, may lower
the generics, initialises the cells and performs the actions. All errors of
one stage are one refusal; which code is raised first is left out. Types are
erased after validation as in the program: `Evaluation` looks at values only.
Floats are exact rationals; a text is a TLA+ string. Of the standard library eight of
twelve groups are computed: logic and generic helpers, integers, floats,
conversions, strings, results, collections. A function whose parameters or return
type are not annotated is checked gradually by the code, and such a program may
fail of a type at run time; the properties about types are therefore stated for
completely annotated functions (`FullyTyped`).

The operators were compared with the Python program outside this directory: the
same programs were built and run by both, and they agree on every refusal and
outcome, except for the depth limits, which are small here.

### The editing modules

A text is a sequence of tokens, each with a flag that says whether white space
precedes it: this is as much of the characters as an edit can disturb (`Lexed`
reads touching words as one again). `Parsing` has an operator per method of the
parser; `Formatting` prints a tree; `Definitions` finds the declaration an
occurrence refers to, its references, and the edits of a rename, with the
spans the parser gives. `SourceEditing` is a document changed by its
author (who takes out tokens or blanks), by formatting and by renames, in any order.
`Meaning` in it is the reference: the tree with each name replaced by the
declaration it has under the scope rules of the compiler.

`Outline` and `Completing` are the views: operators of a text, as the providers are
pure functions. Hovering, the outline and completion each walk the tree on their own,
and find the place of a name by searching for its characters in the span of a node, so
a place is a character of a token. Left out are the wordings (of a label or detail the
kind is kept), headers of modules and imports, the files of the folder that a workspace
search reads besides an open document and its ranking, character case, the order of
the completion list, and a cursor inside a word.

## Runs

Each property of a passing run has a mutant in `PROJECT.json`: a plausible bug in
one mapped definition under which TLC reports that very property.

| run | asks | distinct states |
|---|---|---|
| `engine` | safety of `RuntimeEngine`, refinement of `AtomicExecution`, termination | 72,974 |
| `server` | documents, diagnostics, lifecycle, the ledger | 60,864 |
| `vs_client` | safety of the Visual Studio client, and that restarts end | 212,012 |
| `lsp_client` | requests, start and stop of one process; refinement of `ServerProcess` | 178,810 |
| `workspace` | documents and servers of a folder across restarts and crashes | 180,346 |
| `module_graph` | every graph over four modules | 261,162 |
| `project_build` | every header of up to four lines; 43,200 projects of three sources, three entries each | 937,847 |
| `typed_program` | some 24 000 programs from source to outcome | 104,346 |
| `editing` | formatting and renaming under changes, and the views of the document | 292,494 |
| `workspace_restart` | violation: a restart that starts nothing | |
| `typed_start` | violation: an accepted program without an initial state | |
| `rename_safe` | violation: a rename after which the text does not parse | |

**Engine.** `EventsNumbered`, `OnlyAuthorizedAct`, `InvocationsBounded`,
`FailureDiagnosed`, `EachRootOnce`, the action property `OneCausePerAbort`, the
refinement `AtomicRoots`, and `Termination`. Four directives, d1 to d3 with
every combination of six, six and five bodies (cycles through two and three
directives, failures before and after effects at every level, nested and too
deep conditionals, legacy paths, two decisions), four policies, six lists of
entry references including duplicates, unknown ones and the default. The limits
are 3 for invocations and 2 for conditionals, not 32 and 64: chains of four
directives and a nest of three conditionals exceed them, so both sides of each
limit are reached. `CHECK_DEADLOCK FALSE` because an execution ends. Fairness is
`WF(Next)`: the engine is a single synchronous call that keeps running.

**Server.** `DiagnosticsCurrent` (what is shown is what is stored),
`VersionsAscend`, `ServedInSession`, `CancelledOnce`, `NewestCancelHeld`. Two
documents, two versions (enough to repeat one and to go back), a right, a wrong
and an unanalysable text, a feature that needs a document; three ids and a
ledger of two, so that it overflows; `MaxCancels` = 1 bounds the unclaimed
cancellations of one id. The symmetry of documents and of ids is sound, since
all properties are about states and single steps. The process may end at any
time, hence `CHECK_DEADLOCK FALSE`.

**Visual Studio client.** `NeverDropped` (a reachable running server stays
reachable until it is dead), `ReadyIsTrue`, `RestartsEnd`: two processes, the one
of the load and one replacement, and two restarts, so that one of them meets a
host that serves it late or never. No symmetry, for the sake of liveness.
Fairness is `WF(RestartStep(r))`: the thread pool runs continuations, awaited
handlers return or throw, and the timeout elapses. Nothing is assumed of the
host.

**VS Code client.** `NoPromiseLost` (the open promises are the entries of the table),
`GivenUpOnce` (a request that has left the table has no timer and no subscription to the
editor's token left, and the server is told to cancel it at most once, and never one
that was answered), `CallsEnd`, `KeepsContract`.
Three ids: the handshake, a shutdown and one request of a provider, or one
handshake and two of the others (`MaxRequest` = 2), so that answers, timeouts
and cancellations overlap with the handshake and with the shutdown. Fairness:
continuations run, timers fire, output and close events arrive, and a process
that was sent SIGKILL ends. Nothing is assumed of a server that was not: it may
hang for ever. `CallsEnd` (`start`, `stop` and the requests of providers end) holds of such a
server only because of the timers, and a variant of the last of them violates it.

**Workspace.** `VersionsAreSent` (what the extension believes the server has
agrees with what it has, or will have once it has read its input), `NothingRefused`
(no notification is one the server ignores), `CurrentIsKept`, `DisplacedEnds`,
`TasksEnd`. Two calls of async functions besides the activation, two clients,
two objects of the document and two versions: a server is displaced while a
document is closed, opened again and changed. The clients are a true bound, as
a third start is cut off; two suffice for everything the properties relate, a current
server and one that is displaced. Fairness as in `ServerProcess`; a server in
use may run for ever, and nothing is assumed of its answers.

**Module graph.** Every one of the 2^16 graphs over four modules, which contain
cycles of every length up to four, self-imports, diamonds and separate parts.
`CycleIsReal`, `ImportsFirst`, `NoCycleEscapes`; the proofs cover all sizes.

**Project build.** `BuiltIffValid` compares the stages with a declarative definition of a
valid project (`Valid` in `ValidProject`), in both directions; `ReferencesResolve` and
`ReferencesGoBack` are what execution relies on. Names come in pairs that differ
in case only, since the code compares some of them with and some without case folding.

**Typed programs.** `WellTypedRuns`: what was accepted, is completely annotated
and divides no two ints does not fail of a type, a name or a call. `RefusedEarlyIsInvalid`:
the compiler, which sees one unit only, refuses nothing the validator would
accept. `LoweringPreserves`: a lowered program has the cells, events
and outcome of the plain one. The programs are all combinations of a function f
(24 bodies and 15 signatures, generic and constrained ones included), of a function g that
it calls (11), of a directive (8), and one program per call of every library
function on a set of values. Limits are small so that both sides are met: conditionals
nest once, calls twice, texts have four characters, numerals three, collections three
elements.

**Editing.** `FormattingKeepsTree`: formatting does not change the syntax tree.
`RenameKeepsMeaning`: after a rename every use refers to the declaration it referred to.
`DeclarationsShown`: hover, outline, search and definition agree on what a document
declares and where. `CompletionCovers`: what a word refers to is offered when the word is
completed, also after it was deleted and the text need not parse. The
documents have every kind of declaration, statement and action, every pair of five operators
from five of the six levels, with and without brackets, and comparisons beside brackets under
a tighter operator or among the arguments of a call, where the printed text may come to read as type arguments
(`ReadsAsCall`). Two changes
(`MaxChanges`) besides formatting make ill-formed texts, and undo a
rename. The new names are one that occurs, one that a document declares elsewhere
and a keyword. Views depend on the text only, so they are not looked at again
after the second change: the documents and all that one change and formatting make of
them are enough.

## Promises the code does not keep

The modules state these promises next to the others. Three of them are runs of
their own that TLC refutes, and findings in `PROJECT.json`:

| run and property | what happens |
|---|---|
| `workspace_restart`: `RestartStartsAnew` | a restart joins the start it has just made stale, or a failed one that still waits for its process; no server runs afterwards |
| `typed_start`: `AcceptedStarts` | a state with the initial value `-1` passes compiler and validator, and making the snapshot raises `TypeError` |
| `rename_safe`: `RenameIsSafe` | renaming the bracketed use in `return(x)` gives `returny`; a name may be replaced by `and`, `or`, `not` |

The others are defined in their modules. To see a counterexample, put the property
under INVARIANTS in the cfg named.

| property (cfg) | what happens |
|---|---|
| `NeverStale` (`MCLanguageServer`) | a text whose analysis raises is stored, and the client keeps the diagnostics of the version before |
| `Negotiated` (`MCLanguageServer`) | a refused `initialize` leaves the capabilities it declared switched on |
| `OneServer` (`MCVsLanguageClient`) | a restart takes a process that is registered but not started; it starts later, and two servers run |
| `ReplacementConfirmed` (`MCVsLanguageClient`) | a late success callback of the old server makes the restart report success |
| `NotReadyIsTrue` (`MCVsLanguageClient`) | the poll falls between the two writes of a success and terminates a healthy server |
| `OneProcess` (`MCWorkspaceServer`) | a provider starts a server while the stopped one is still shutting down |
| `ClosedIsClear` (`MCWorkspaceServer`) | a document closed before the handlers are registered stays open for the server, and its diagnostics are shown |
| `Synchronized` (`MCWorkspaceServer`) | a document opened after its server has started, but before the handlers are registered, is not sent |
| `FormattingIsSafe` (`MCSourceEditing`) | the formatter prints `(a < b) > (c == d)` and `g(a < b, (c) > (d - a) * c)` without the first brackets, and the parser takes what follows `<` for type arguments: the text no longer parses |
| `InvisibleOnly` (`MCProjectBuild`) | of two definitions of a name the last counts as the owner before duplicates are refused, so a unit is blamed for a reference to what it defines itself |

Other deviations are excluded from a property, by a named condition, instead:

- `DividesInts`: the type of int / int is int for inference (`P9_FREEZE.md:31`),
  and the value is a float, so an assignment of it fails at run time.
- A `let` in a branch: inference accepts it, and `lower_linked_generics` raises
  APX-TYPE-001 for it (`type_system/lowering.py:497`); such a program ends in the
  phase "not lowered" when `Lower` is tried, and runs when it is not.
- `ReadsAsCall`: a document in whose printed text a comparison comes to read as a call with
  type arguments (`name < name, ..., name > (`, `parser.py:486`), which the brackets of the
  source prevented. `FormattingKeepsTree` says that these documents are exactly those whose
  tree formatting changes.
- `Exact`, `Unstartable` and `Uses`: the renames described above, an initial
  value that reads a state declared later, and names nothing declares. `ReadsAhead` in
  `Exact`: an expression in a path before the state it reads keeps the old name when
  the state is renamed (`language_server/definition.py:190`).
- `Concealed`: hovering over a declaration whose name occurs in the keyword
  before it ("e" in `event e`) finds the keyword's letters instead
  (`language_server/hover.py:165`). `Late`: hover and outline leave out a binding after the first `when` or `return` of a
  function, which definition finds.

## Proofs

`RuntimeEngineProofs` proves, for every program, policy, entry list, limits
and evaluation that satisfy the assumptions of `RuntimeEngine` (the named
`ASSUME`s, which TLC evaluates on the instance):

| theorem | states |
|---|---|
| `TypesAndCalls` | `Spec => [](TypeOK /\ CallDiscipline)` |
| `Numbering` | `Spec => []EventsNumbered` |
| `Authorization` | `Spec => []OnlyAuthorizedAct` |
| `BoundedRecursion` | `Spec => []InvocationsBounded` |
| `Diagnosis` | `Spec => []FailureDiagnosed` |
| `Causes` | `Spec => OneCausePerAbort` |
| `RootsOnce` | `Spec => []EachRootOnce` |
| `Replaying` | `Spec => []StateIsReplay` |
| `Atomicity` | `Spec => AtomicRoots` |

`TypeOK` alone is not inductive: that a merge finds a caller below the top, and
that an error finds a path to be reported against, is `CallDiscipline`, so the
two are proved together, one step per action. The other invariants build on
them. Most actions do one of three things to the stack: replace the top frame,
push one, or return to the frame below. The lemma `StackStep` classifies every
step that way once, and the invariants about frames are then proved by cases of
that classification instead of by action. `OnlyAuthorizedAct` needs `RootServed`
(the bottom frame belongs to the root in turn), since a root that is recorded as
successful must have been checked; `EachRootOnce` needs `RootsLeft` (the roots
done and the roots to do are distinct).

`Atomicity` is the whole refinement of `AtomicExecution`. Its initial states map to
initial states, and every step to a root that takes effect, to a root that has none, to
the end, or to a stutter; which of them is decided by what the step does to `roots` and
`committed`. That a committed root is one the contract allows comes from
`StateIsReplay`: in every frame on the stack, the state is what the frame's assignments make of
the state it began with. It is inductive by `StackStep`: a step appends an assignment to the
top frame and writes its cell, or joins the buffer of a call to that of its caller. For this
the function `Replay` has to be known of all sequences: `ReplayAppend` (one
assignment more is one write more) and `ReplayConcatenation` (the assignments of a call
after those of its caller) are proved by induction over the length.

`ModuleGraphProofs` proves, for every finite set of modules and every graph:

| theorem | states |
|---|---|
| `GraphTypes` | `Spec => []TypeOK` |
| `CyclesReported` | `Spec => []CycleIsReal` |
| `DependenciesFirst` | `Spec => []ImportsFirst` |
| `CyclesDetected` | `Spec => []NoCycleEscapes` |

All four follow from one inductive invariant, `GraphInv`. For the search it says
where each module is (`WhereIs`: state 1 is on the stack, 2 is in the history
variable `left`, and each module on the stack imports the next), that an import
that was looked at has been left or is the next on the stack (`LookedAt`), and hence that
a module is left after all that it imports (`LeftLast`). For the order it says
that an indegree counts the imports not yet placed and the heap holds the
modules that have none (`Counted`). `CyclesDetected` is where the two algorithms meet: if
the heap is empty and a module is not placed, take the one of those that the search left
first. All its imports were left before it, so they are placed, so its indegree
is 0 and it is in the heap. That there is a first one is the lemma `LeastNat`.
The theorem is the contract that `ProjectBuild` relies on.

`InductionLemmas` is what the proofs have of induction. The library's induction theorems
take an operator as a parameter, which the installed provers cannot instantiate, so
induction is stated of a set instead: `LeastNat` (a non-empty set of naturals has a least
element), from the well-foundedness of strict inclusion on finite sets, and `EveryNat`
(a set with 0 that is closed under successor holds every natural). What is to be shown
of every length or number of units is the set of those of which it is true.

`ProjectBuildProofs` proves, for every set of projects, of any number of sources, header
lines, states and references, and every reference to an entry, under the assumption
`ProjectConstants` (projects are sequences of sources, and `None` is no name and no code):

| theorem | states |
|---|---|
| `BuildInvariant` | `Spec => []BuildInv` |
| `BuildsTheValid` | `Spec => []BuiltIffValid` |
| `BuiltReferencesResolve` | `Spec => []ReferencesResolve` |
| `BuiltReferencesGoBack` | `Spec => []ReferencesGoBack` |
| `HeadersAreObeyed` | `Spec => []HeadersObeyed` |
| `BuildTypes` | `Spec => []TypeOK` |

`BuildsTheValid` has two halves. A stage that refuses must have met what makes a project
invalid: there is a lemma per refusal (`BadHeader`, `UndefinedImportIsBad`,
`HiddenIsBad`, `RecursionIsBad`, ...). A project that passes all stages must be valid:
`BuildInv` says what each stage has `Established` for those after it, half-done
stages included, and `AcceptedIsValid` puts this together. Two refusals need what an earlier
stage established. A duplicate definition is looked for only after visibility, where of
two definitions one counts as the owner: `HiddenIsBad` shows that a reference refused for the
wrong owner is in a project that is invalid anyway, because of the duplicate. And
`DanglingIsBad` needs that the linked program holds what every unit declares.

The definitions are of two kinds: the stages speak of units in order and of sequences
built in loops, `Valid` of the sources as a set. Between them stand
`Permutation` (the units are the sources, each once), `HeaderUpto` (what the lines read so
far have made of the module, the imports and the body, extended line by line),
`JoinedDefinitions` (what the linker's fold over the units holds and when it repeats
nothing, by `EveryNat`), `ModulesAreGood` (an order that puts imports first leaves no set of
modules in which each imports another, by `LeastNat` on their places) and, for recursion,
`LeastCallers` (a set of functions each of which calls one of the set has a smallest
such subset, which is the cycle that is reported).

The next four modules are about the server and its clients. Each has one inductive
invariant, with one lemma per action or group of actions, and the steps of the module are cut
into small lemmas about records, sequences and tables where the provers need them.

`LanguageServerProofs`, for every set of documents, texts, versions and ids, every
analysis and every limit of the ledger:

| theorem | states |
|---|---|
| `SessionTypes` | `Spec => []TypeOK` |
| `ShownIsCurrent` | `Spec => []DiagnosticsCurrent` |
| `RefusedOnce` | `Spec => []CancelledOnce` |
| `LedgerBounded` | `Spec => []NewestCancelHeld` |
| `Served` | `Spec => ServedInSession` |
| `VersionsIncrease` | `Spec => VersionsAscend` |
| `EachAnswered` | `Spec => []OneAnswerEach` |

The invariant `SessionInv` adds to these four things that keep a late message from undoing
them: nothing is open or shown before `initialize` (`NothingBefore`), a client that
declared no diagnostics is shown none (`SilentUnasked`), a publication is never ahead
of the store (`ShownIsStored`), and the process ends with the message that sets the
exit code (`ExitEnds`). The ledger's part rests on lemmas about sequences without
repetition: taking an id out takes that one only (`WithoutTakes`), and adding one to a full
ledger drops the oldest, which is not the newest as long as the limit is positive.

`VsLanguageClientProofs`, for any set of restarters and number of processes:

| theorem | states |
|---|---|
| `ClientTypes` | `Spec => []TypeOK` |
| `ReadyMeansReady` | `Spec => []ReadyIsTrue` |
| `OneRestart` | `Spec => []Serialized` |
| `ActiveSpared` | `Spec => []ActiveIsNotDoomed` |
| `StaysWithinReach` | `Spec => NeverDropped` |

`ReadyIsTrue` alone is not inductive: that a generation written as successful was
recorded as a success, and that a verdict is about a generation after the baseline
(`SuccessRecorded`), lies between the increment of one thread and the comparison of another.
`NeverDropped` needs that a process which anyone can name has been activated
(`OnlyActivated`) and that nobody is about to terminate the active one.

`LspClientProofs`, for any number of requests:

| theorem | states |
|---|---|
| `ClientTypes` | `Spec => []TypeOK` |
| `PromisesKept` | `Spec => []NoPromiseLost` |
| `GivenUp` | `Spec => []GivenUpOnce` |
| `RunningAttached` | `Spec => []RunningHasChild` |
| `ContractSteps` | `Spec => Contract!Init /\ [][Contract!Next]_(Contract!contract)` |

`ContractSteps` is the refinement of `ServerProcess` without its fairness: the initial state
maps to an initial state, and each action maps to an action of the contract or a stutter. The
invariant says which of the two calls under way each entry of the microtask queue belongs to and
what it waits for (`Waits`), and how the state of the object, its calls and its process
go together (`Phases`): without them a `stop()` could return while its process
still lives, which is the step that `ServerProcess` forbids.

`WorkspaceServerProofs`, for any number of calls, clients, documents and versions:

| theorem | states |
|---|---|
| `WorkspaceTypes` | `Spec => []TypeOK` |
| `VersionsKnown` | `Spec => []VersionsAreSent` |
| `NotificationsAccepted` | `Spec => []NothingRefused` |
| `CurrentKept` | `Spec => []CurrentIsKept` |

`VersionsAreSent` speaks of what the server will hold when it has read its pipe. It is kept
because a version is remembered only of a running server whose start has gone on
(`KnownOfRunning`), the current client belongs to the current generation
(`CurrentGeneration`), and when a server has been initialized no other continuation runs before
its start goes on (`SucceedsFirst`), so that no change is handled between the two.

**Only model-checked.** What is claimed under fairness (`Termination`, `RestartsEnd`,
`CallsEnd`, `DisplacedEnds`, `TasksEnd`, and of `KeepsContract` the fairness of
`ServerProcess`), since liveness is out of this prover's reach; and the properties of the
typed and the editing modules, which are made of recursive operators over syntax trees: the
prover loses its SMT backend in a module that declares one.

Some properties are defined and hold but are not listed in a run, because a theorem or a
stronger property covers them: `CallDiscipline` and `StateIsReplay` (proved), `OneAnswerEach` in `LanguageServer` (proved),
`ActiveIsNotDoomed` and `Serialized` in `VsLanguageClient` (proved), `RunningHasChild` in
`LspClient` (proved), `TypeOK` in `LanguageServer`, `VsLanguageClient`, `LspClient` and
`WorkspaceServer` (proved), `TypeOK` and `HeadersObeyed` in `ProjectBuild` (proved),
`RefusedIffCyclic` and `Termination` in `MCModuleGraph`.

## Plan

The modules of the plan are written, and every safety property of the engine, the module
graph, the project build, the server and its clients that a run checks is a theorem, as are
the steps of both refinements. What is left is the typed and the editing modules. To prove
`WellTypedRuns` or `RenameKeepsMeaning`, their operators over syntax trees would have to be
recursive functions on a set of trees, with their depth as the measure for `EveryNat`.

## Not modelled

- The workflow layer: `build_default_context` reads a field `name` that `Principal` does not
  have, and `WorkflowExecutionEngine` calls the directive engine without three required
  arguments. Nothing of the build or the engine imports it.
- The authority compiler, registry and role resolution: the compiler passes fields to
  `AuthorityGrant` that it does not have, and the registry has no working producer.
- The semantic validator, which its package exports and nothing calls, and `air/verify.py`,
  which is reached from the workflow layer and examples only.
- The files of the folder and the ranking in a workspace search, and the wordings of
  hover, symbols and completion.
- Scanning of single characters, strings and numerals; the texts of errors and traces;
  source maps.
- The library groups times, randoms, diagnostics and reflection, and three functions
  about the digits of floats and a wording.
- Command line, manifests, packaging, trace export and the contract modules under
  `tooling/`: files read and written in sequence. The Visual Studio commands and
  classifiers have no protocol of their own. The old trees
  (`ApexForge_v0_2_Foundation_Stable`, `old_root_duplicates` and the modules at the
  root) are superseded copies.
