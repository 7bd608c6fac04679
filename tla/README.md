# Verification of the L system: engines, VM heap, hosts and boundaries, shell job control

This directory holds TLA+ models of the L language system, the TLC
configurations that check them on small instances, and TLAPS proofs about them.
Paths below are relative to the repository's root; the C virtual machine is
`src/vm/vm.c` there.

## 1. The system

L is a small statically checked language with value semantics. The repository
has a front end and a tree interpreter in Python, a bytecode compiler with a
Python and a native C virtual machine, an embedding interface, Linux host
profiles (descriptors, processes, process groups, terminal, signals), a
standard library in L, and programs written in L: an interactive shell, the
modal editor Lace, LSP servers and a client.

| component | state it keeps | operations | correct when | here |
|---|---|---|---|---|
| native VM (`src/vm/vm.c`) | operand stack with values and places, frames (locals, active bits, scopes), pending pattern bindings, match value, object list, gc threshold | one per opcode; calls; host calls; mark and sweep; traps | no live object is freed; struct/enum/option values are never shared; a place denotes a cell that exists; no call leaves control state | `VMHeap` |
| embedding boundary (`src/vm/embed.c`, `vm.c` recovery) | checkpoint of stack, frames, bindings, depth, handles, terminal | create, invoke_entry, call_function, destroy; rollback by longjmp | after a trap the context is as at entry; a protected call leaves no garbage | `VMHeap`: one boundary, heap and control |
| Python boundaries (`src/hosts/host_boundary.py`) and the application around them (`src/tools/_sdk_cli.py`) | a snapshot per nested call | call, return, trap, errors that are no traps, cleanup | a trap takes exactly the handles of its own call; nothing is left at the end | `HostBoundary`, `Containment` |
| Python host profile (`src/hosts/linux_host.py`, `linux_job_host.py`) | lists of descriptor and child handles | dup, pipe, open, close, spawn with launch pipe, send, waits, checkpoint, rollback, cleanup | handles own their number and know whether their process is reaped | `LinuxHost` over `HostKernel` |
| direct host runner (`src/hosts/run.py`: `proc`, `term`) | processes, saved terminal mode, depth of the interface | popen, alive, close, enter, leave, rollback | a closed process stops; the user's mode comes back | `ProcessHost`, `TermHost` |
| Linux host profiles (`src/vm/linux_*.inc`) | registry of opaque handles, job events, terminal modes | spawn_exact and foreground_exact, group signals, waitid on a group, tcsetpgrp, tcsetattr | terminal and process group handed over before exec; each child reaped once | `LinuxJobs`, `LaunchExact` |
| shell jobs and pipelines (`tools/shell/executor.l`, `job_control.l`, `main.l`) | job table, member states, saved terminal modes, the editor's mode | launch, wait, poll, fg, bg, jobs, prune | the table never loses an event; the prompt always returns and owns its terminal | `ShellJobs`, `LaunchExact` |
| shell line editor, history, parser, screen | buffer, cursor, history index | key handlers | history navigation keeps the edited line; parser round trip | not modelled |
| bytecode compiler (`BCCompiler` of `src/lang/bytecode.py`) | code under construction, loop stack, scope depth | lowering of expressions, places, patterns, statements, functions | every exit from a loop, scope or match arm unwinds exactly | `BCCompiler` |
| Python VM (`BCVM`, same file) | operand stack, frames with scopes, match value, pending bindings | one per instruction | does what the tree interpreter does | `BCVM`, `BCVerifier`, `Engines` |
| tree interpreter (`Interpreter` of `src/lang/core.py`) | scopes, heap | eval, place, match, stmt, block | it is the meaning of a program | `TreeInterpreter`, `LangValues`, `DeepValues` |
| checker (`Checker`, same file) | scopes, generic parameters | names, loops, returns, exhaustive matches; layouts, inference, generic recursion | what it accepts cannot go wrong in these ways | `Checker`; `Generics`, `TypeTerms`, `Instances` |
| control-flow graph (`src/lang/analysis_cfg.py`) | nodes and edges | build, statement by statement | every execution follows it | `ControlFlow` |
| lexer, parser, constant policy, analysis model | none between calls | | | not modelled |
| self-hosted front end (`lib/slang`, `tools/check`) | none | the same, in L | agrees with the Python one (differential tests) | not modelled |
| Lace kernel (`tools/lace/piece_tree.l`, `transaction.l`, `history.l`, `editor_model.l`) | balanced piece tree over two buffers, undo tree, selections, mode | replace, apply, map_position, inverse, undo, redo, commands | tree = text; undo restores exactly; positions map as the edits do | not modelled |
| LSP client and servers | request numbers, pending messages, frame buffer, document versions | request, poll, take_response, notifications | answers reach their request; documents stay in step | not modelled |
| standard library | data structures | hash map, sorting, UTF-8, JSON | equal to a reference definition | not modelled |
| atomic output (`src/lang/atomic_output.py`) | staged file | build, replace | a failed build never damages the output | not modelled |

Interactions: the checker decides which programs the engines see, the compiler
which instruction sequences the VMs see; the
VM calls host profiles with values it must keep alive; a trap in a host call
unwinds VM and host state together; the shell is an L program that sees the
kernel only through the host profile; Lace and the LSP client meet through the
process host module. In Python an application runs L callbacks behind nested
boundaries over three hosts that share one descriptor table, one terminal and the
processes they start.

What is hard here: two engines that must agree on the order of every effect;
checker rules on syntax that must hold for every execution; stale places and pointers after a right-hand side ran;
collection at any instruction; unwinding from the middle of an expression; and,
in the shell, two processes setting the same process group and terminal, events
of many processes reported in the kernel's order, stops and continues racing
with the shell's own marks, launches that fail half way, terminal modes that
belong to different programs; and, in the hosts, descriptor and process numbers that
are used again, children that any of four operations may reap, and cleanups that run
after a failure at any point. `PROJECT.json` lists the hazards of the modelled
parts with their lines. Hazards of parts that are not modelled: late, unasked and
missing answers in the LSP client, undo over a growing buffer and position mapping in
Lace, a shell that is killed with jobs stopped, a job's program that leaves its group.

## 2. Modules

### VMHeap

One LVM between host calls. `heap` maps live addresses to objects, `stack` is
the operand stack, whose entries are values or places (`LPlace`), `frames` the
LFrame chain, `pending` and `match` the two pattern registers, `threshold` the
allocation threshold, `mode` tells whether the host or a frame runs, and
`armed` whether the running call is the protected one. There is one action per
opcode that makes, moves or drops an object, place, binding, scope or frame.
Scalar operations are one action (`Compute`), jumps another. An action ends in
`Settle`/`GcMaybe` exactly where `vm_call` reaches the `gc_maybe` at the bottom
of its loop. `Tree` and `WithCopies` are `value_copy`; `Reach` is
`mark_value`/`mark_obj`, computed as the smallest set closed under references.

Abstractions. The program counter is left out: any sequence of instructions
that a compiler could emit by operand count is allowed, which is more than the
real compiler emits. Scopes and declarations occur at statement level. Immediates are one
set `Imm`; options and enums are one kind. `Trap` may happen at any instruction.
`Kinds` and `Groups` restrict which instructions a run uses; the theorems hold
for every choice of them. The field `own`/`fr`/`ix` of a place names the object,
frame or slot behind the raw pointer `cell`; `via` is auxiliary (the reference a
field place went through) and is read by `WritesBack` only.

### LinuxJobs and ShellJobs

`LinuxJobs` is the kernel as the host profile shows it: the state of each
process of each job, one unreported change per child (a stop and a continue
replace each other, an exit replaces both), the terminal's foreground group and
mode. Its first part has the host operations of the shell, its second what
processes, the user and other programs do at any time: exit, stop, be continued
from outside, set the terminal's mode, hand the terminal to a group of their
own, hang up.

`ShellJobs` is the interactive shell on it: `refresh`, `apply_event`,
`from_live`, `continue_job`, `store`, `prune_done` as operators of the same
names, and one action per stretch from one host call that meets the outside
world to the next: the poll of each job, the release of the terminal, the spawn
of each stage, each wait, the reclaim, the editor's mode. Exit codes and signals are one member state
("done"), Ctrl-C and Ctrl-Z are exits and stops of single processes in any
order. A job's identity is its group; it is not reused after its first launch.
Polling that fails (`waitid` says ECHILD) and terminal calls from the background
(SIGTTOU) end or stop the shell; the state predicates `PollDies`, `WaitDies` and
`HungByTty` name these states and `ShellSurvives` says that none is reached.

### LaunchExact

One launch in ShellJobs is one atomic step per stage; `LaunchExact` takes it
apart. Parent and child run concurrently from `fork`: both do `setpgid` and
`tcsetpgrp`, the child then duplicates its descriptors, restores default signals
and executes, the parent reads the close-on-exec launch pipe, and on an error
waits for the child and gives the terminal back. Around it run `spawn_command`
(next candidate in PATH) and `launch_impl` (next stage, or rollback). Meanwhile
programs end or give the terminal away, the user presses Ctrl-C and Ctrl-Z, and
the line hangs up.

### The engines: LangValues, DeepValues, TreeInterpreter, BCCompiler, BCVM, BCVerifier

Programs are abstract syntax trees. `TreeInterpreter` gives the meaning of one as
recursive operators named as the methods of `Interpreter`: `eval`, `place`, `stmt`,
`block`, `match`, each from a memory to a signal (ok, trap, return, break, continue), a
value and a memory; `LangValues` has the values and the memory, and the operations both
engines take from the same functions (`scalar_value`, `copy_value`, `wrap_int`). What
recurs along a value or a pattern, the copy in depth and the match, are constant
operators of `LangValues` (`Copies`, `Matches`, `Names`); `DeepValues` defines them as
the code does, and the configurations of the engines put them in.
Integers have `Width` bits and wrap or trap as the code's do at theirs. `BCCompiler` is
the compiler with the unwinding counts, patches and slots of the code; it adds to each
instruction the depth of scopes and operands it is emitted under and, on the first
instruction of a statement, the statement's path. `BCVM` is a state machine with one
action per group of opcodes that behave alike and the registers of the code. The host
has `read` (the inputs of a run) and `emit` (what a run shows); both may trap. A call of a
name without a function ends a run with "error", the KeyError of `BCVM.call`.

`BCVerifier` states what compiled code promises, and a check of the code that runs
nothing. The check knows a frame by a view: its instruction, the names bound in each
scope, the number of its operands, the names that a pattern left pending, whether the
topmost operand is the outcome of that pattern or the literal `true`, and the statement that
began last.
`Steps` is what an instruction makes of a view, `Sound` what it must find; code is
`Verified` if some sets of views, one per function, hold the entries, are closed under `Steps`
and sound. `Engines` computes them (`Explore`), and `CodeVerified` says that whatever
the compiler makes of a program the checker accepts is verified.

`Checker` has the checker's rules about names and control flow. `ControlFlow` builds the
graph of the source analysis. `Engines` puts the four beside each other: a run of `BCVM`
carries what the tree interpreter says of the same program and input, and the graph.
`Meaning` is the abstract specification: an engine shows the events the program means in
their order, ends as it means, and does get there. `Engines` implements it
(`AgreesWithTree`, by INSTANCE with the tree interpreter's events and result substituted).

### Generics, TypeTerms and Instances

`Generics` has the operators of the checker about generic declarations: `instantiate_call`
(inference from the expected result, then from the arguments), `generic_call` (type
arguments written out), `validate_layouts`, `check_generic_recursion`, `checked`. What the
checker does along the structure of a type is a constant there: `Substitute`, `Unify` and
`Walk`. `TypeTerms` defines `substitute`, `unify` and `walk` by recursion, as the code
does, and every run puts them for the constants; the theorems know of them only what
they state as a hypothesis. `Instances` is the
machine these rules exist for, a native implementation that makes a copy of a function
for each use (`docs/guides/07-implementation-guide.md`): it lays out values part by part
and follows calls from instance to instance. Its properties say what the checker's
approximations must buy: layouts and chains of instances come to an end and instances
are well typed.

### HostKernel, LinuxHost, ProcessHost, TermHost, HostBoundary, Containment

`HostKernel` is the operating system as the Python hosts use it: a descriptor table whose lowest
free number is given out next, and process numbers that come back as soon as their process
is reaped and no group has them: for a new child of `linux.process`, a process of Popen or somebody
else's. `table` and `whose` tell two uses of one number apart. `LinuxHost` has the handles of
`linux.*` (two lists that only grow)
with one operator per operation, the launch pipe of spawn, checkpoint, rollback and cleanup,
the first entry that `_find_child` takes and the `os.kill` that `_contain_child` falls back to;
`ProcessHost` has `proc.*`, whose `close_one` is several limited waits and so several
steps; `TermHost` has raw mode and the interface. `HostBoundary` composes them: L code
calls any operation, enters nested boundaries, returns, traps at any point, or fails with an
error that is no trap; processes end at any time. `Containment` is what the boundaries
promise, without lists, lengths and descriptors: each live handle belongs to a call, a
return leaves the call's handles to its caller, a trap takes exactly the call's own and
restores the terminal's mode. `Contains` is the refinement: a handle belongs to the call
whose snapshot is the last one not to count it, and handles are descriptors, children and
processes of `proc` that are neither closed nor known to have ended.

Two properties state what the numbers leave over. `HandlesTellTruth`: a handle knows whether its
process was reaped, except one whose process has its number from an older child of
`linux.process`, whose entry `_find_child` takes for it. `SparesOthers`: a trap touches no
process but the children its boundary contains, `close_one` none but its own and the end none but
children, except by the numbers of handles that missed the end of their process in this way.

## 3. Runs

| run | instance | checks |
|---|---|---|
| objects | 2 addresses, structs, references and arrays of them, 2 frames, stack of 4 (two values or places under an operand pair), collection whenever anything was allocated | `ValueOwned`, `CellsValid` |
| patterns | 3 addresses, enums, 2 frames, 2 scopes, both boundaries, host calls | `TypeOK`, `NoDangling`, `CallLeavesNoGarbage` |
| writeback | finding 1 below | `WritesBack` is violated |
| jobs | 2 jobs of 2 stages, 1 SIGCONT from outside, symmetry over jobs | `TableTruth`, `PromptOwnsTerminal`, `JobsAccounted`, `ShellSurvives`, `SavedModesApart`, `ResumesInItsMode` |
| live | 1 job of 2 stages, 2 SIGCONTs, no symmetry | `ForegroundReturns`, `ZombiesReaped` |
| launch | 2 stages, 4 forks (two failed candidates) | `HandoffBeforeExec`, `JoinSucceeds`, `AllOrNothing`, `ReadReturns` |
| ctrlz | 1 stage, 2 forks; finding 2 below | `CtrlZKeepsTheShell` is violated |
| engines | some hundred programs on all inputs, integers of 3 bits, 6 events; 101,625 states | `TypeOK`, `CodeVerified`, `DepthsAsCompiled`, `NamesBound`, `NoShadow`, `FunctionsReturn`, `NeverFallsThrough`, `NoStrayBindings`, `FollowsGraph`, `UnreachableNeverRuns`, `AgreesWithTree` |
| nested | an anonymous function inside another; finding 3 below | `AgreesWithTree` is violated |
| instances | 3,780 programs with generic types and functions, 655 of them accepted; 6,034 states | `LayoutsEnd`, `InstancesApart`, `InstancesTyped` |
| explicit | the same programs; finding 4 below | `RecursionKeeps` is violated |
| boundary | 4 descriptor numbers, 2 process numbers, 2 handles, 2 nested boundaries, a terminal, interface depth 1; 1,090,988 states | `TypeOK`, `DescriptorsOwned`, `HandlesTellTruth`, `TerminalOurs`, `NothingLeft`, `SparesOthers`, `ClosedStops`, `Contains` |

The bounds. In `objects` two addresses give a struct in an array or behind a reference,
a place over either, and an address that is freed and used again. What a place keeps alive
by its owner alone needs a third address, so there `NoDangling` rests on its theorem. In
`patterns` the third gives a two-object alias beside it, and enums in enums. The theorems remove the
bound for every safety property. Addresses and jobs carry no order, so symmetry is sound for the safety runs. Two stages give the partly stopped, partly ended pipelines;
two jobs give one in the foreground while another changes in the background.
Four forks give two stages and two failed candidates, in any order.
Deadlock is
not checked: a VM at its bound, a shell that ended, a finished launch, program or
application stop.

The programs of `engines` are made by combination: every way out of every kind of loop
inside every other construct, every kind of place assigned from every right-hand side
that changes what the place goes through, matches and conditions whose guards and arms
match again, calls, recursion and function values, and bodies the checker must judge; a
program branches on what it reads, and runs on every input. Three bits are the
fewest in which signed and unsigned integers wrap, trap and compare differently. A
mutant of each rule of the compiler or checker shows that the programs exercise it.

In `boundary` two handles are the fewest in which one belongs to a call and one to its
caller, or one is closed and its number used by the other; two boundaries nest; four
numbers hold a pipe or a Popen beside the launch pipe of a spawn; with two process numbers a
number is used again by a second child, a Popen or somebody else while another process runs. With
two handles one number can mislead one handle; that `close_one` meets the process of a third needs
three, and is covered by the theorem. The theorems remove
the bounds for every property but `ClosedStops`. `DescriptorsOwned` has one exception, the launch
pipe of a fork that failed, which the code leaks and no list knows.

In `instances` the bounds are eight instances in a chain, of four functions, and twenty types
in a nest; the longest nest of an accepted program has fewer than sixteen, so only an endless
one reaches the bound.

### What the checks found

1. *A write is lost* (`WritesBack`). `r.f = g(r)` where `g` assigns `*r`: the
   field place holds a raw pointer into the struct that `r` held before, so the
   store goes to a struct that is no longer reachable (`vm.c`, OP_FIELD_PLACE and
   OP_VALUE_FIELD_PLACE). The documents allow such fields as assignable places. The
   Python VM resolves the reference again and keeps the update; the tree interpreter
   loses it for the dotted name `r.f` and keeps it for `(*r).f`.
2. *Ctrl-Z between the child's `signal(SIGTSTP, SIG_DFL)` and its `execve`*
   (`CtrlZKeepsTheShell`). The child already owns the terminal; it stops with the
   launch pipe open and the parent's read waits for ever. `ReadReturns` states
   what does hold: the read returns in every other case.
3. *Two functions under one name* (`AgreesWithTree`, run nested). `anon_fn` numbers an
   anonymous function by how many are recorded and records it after its body; one
   inside its body gets the same number, and a call of the inner one runs the outer one.

4. *Recursion with written type arguments* (`RecursionKeeps`, run explicit). The rule that a
   recursive generic call keeps its type parameters is part of `instantiate_call`, and the
   graph of `check_generic_recursion` has the calls without brackets only; so
   `fn bad[T](x: T) -> i64 { return bad[[]T]([x]); }` is accepted, and so are two
   functions that call each other in this way. `docs/language/01-core-language.md:230`
   refuses both. `InstancesApart` states what the rules do ensure: where calls between
   generic functions leave their type arguments to inference (`Inferred`), no chain of
   instances meets a function twice.

### Known disagreements that no run states

They were met while modelling; those about the checker were confirmed by running it.
The models follow the code; the programs and properties of the runs stay clear
of them.

- `a[0].f = g(a)`, where `g` replaces `a[0]`, traps in the native VM as out of bounds
  (`place_cell` compares the element's identity), although
  `docs/language/03-core-semantics.md:47` says that only the bounds check is repeated.
- The tree interpreter evaluates the base of a field place again when its first
  evaluation traps (`core.py:3450`): `a[next(c)].x = 1` may call `next` twice, where
  `docs/language/01-core-language.md:322` allows one evaluation.
- `walk` of `validate_layouts` substitutes the argument of an optional twice:
  `struct B[T]{y:?T,} struct A[T]{x:B[?T],}` ends in Python's RecursionError, and is
  accepted with `B`'s parameter renamed. `struct W[T]{v:T,} struct F{x:W[W[u8]],}` is
  refused as infinite, which it is not.
- A trap inside a second `enter_ui` leaves the alternate screen in the Python runner
  (`run.py:339`), where the native VM keeps it and
  `docs/language/05-host-module-interface.md:65` promises the state at entry.
- `_find_child` (`linux_job_host.py:71`) takes the first entry of a list that only grows. When a
  number comes back, a wait on the new child marks the old entry and leaves the new handle with
  `waited` False and its pidfd open, where `linux_host.py:118` says that a child value identifies one
  tracked process and `linux_job_host.py:44` that terminal events reap terminal child states. A later rollback or cleanup gets
  ESRCH from the pidfd and calls `os.kill` with the number (`linux_host.py:731`), whoever
  has it now. The native `linux_job_find_child` (`linux_job_host.inc:92`) walks
  a list with the newest child first and finds the right one. `HandlesTellTruth`
  and `SparesOthers` name this exception, and hold in every other case.
- `proc.write` after `proc.close` raises ValueError, which is no trap and passes every
  boundary up to the application.

## 4. Fairness

VMHeap and Instances have safety properties only. In `ShellJobs`, `FairSpec` is weak fairness
of `ShellStep`: the shell is one running program whose host calls return (a wait
counts as enabled only when the kernel has something to report). Nothing is
assumed of processes, the user, signals or the line. `ZombiesReaped` needs no
fairness among polls because `poll_all` visits the table in order. In
`LaunchExact`, the scheduler runs the parent and every child that is not stopped. `BCVM` runs (weak
fairness of `Next`): it is one loop that nothing else holds up, and `AgreesWithTree`
needs that it ends. `HostBoundary` assumes weak fairness of `CloseOne \/ Closed`, the loop
of `close_one`, each of whose waits has a limit in the code; nothing is assumed of the
processes, which may ignore the end of their input and SIGTERM for ever.

## 5. What is proved

`VMHeap_proofs` proves, for every finite set of addresses, every bound and every choice of
instructions:

- `Invariant`: the inductive invariant `IInv`, the conjunction of `ModeOK` (host
  mode has no frames), `HeapOK` (every item of a live object is live or
  immediate), `FramesOK` (locals, active, declared and scope lists agree), `BasesOK`
  (frames partition the stack in order), `StackOK` (every value and place refers
  to live objects and existing frames and slots, and a place's raw pointer stays
  inside the object behind it) and `RestOK` (pending bindings and match value).
- `TypeOKHolds`, `NoDanglingHolds`, `CellsValidHolds`,
  `CallLeavesNoGarbageHolds`: the properties the runs check.

`NoDangling` alone is not inductive: an instruction that pops a place and
collects needs that what it keeps was reachable from the roots, a return needs
that the caller's places stay within its frame, and a store needs that the
object behind the place still has the cell. The proof has one lemma per
action and three about the collector (`ReachClosed`, `RootsComplete`, `GcMaybeStep`).
The only assumptions are the named ones of the module: addresses, immediates and
the two markers are disjoint, and the bounds are natural numbers.

`VMOwned_proofs`, on top of `VMHeap_proofs`, proves value semantics under the same
assumptions:

- `ValuesApart`: the inductive invariant `Values`, the conjunction of `IInv`, `Apart` (no
  two cells, of the stack, the locals, the pending bindings, the match value or
  the items of objects, hold one struct or enum) and `Acyclic` (structs and enums nest
  without a cycle: some set holds everything nested in one, and not itself).
- `ValueOwnedHolds`: `ValueOwned`, which counts the holders over the whole state.

`ValueOwned` alone is not inductive. `GET_FIELD`, `LOAD` and the place instructions
copy a value that an item, a local or another operand goes on holding, and every
object of the copy has one holder only if `value_copy` meets no object twice on
its way, which is what `Acyclic` and `Apart` say together; a store in turn must not make an
object hold itself, which holds because what is stored is a copy or was held by
the stack alone. The proof states what a copy is (`TreeOf`, `CopyOwned`, `CopiesApart`), what
a step that only drops, moves or copies values keeps (`KeptStep`), and has one
lemma per action; `ARRAY_SPLICE`, which moves the items behind the cut, is proved by
itself (`SpliceItems`, `MovedApart`).

`LaunchExact_proofs` proves, for pipelines of every length and every number of
failed attempts:

- `Invariant`: the inductive invariant, `TypeOK` with `GroupOK` (the group is that
  of the first child, who is kept), `KidsOK` (a kept child executed its program or
  is an unreaped zombie in the group), `OthersOK` (nothing is left of a failed
  attempt), `FlightOK` (what parent and child have done so far for the child in
  flight) and `TerminalOK` (the terminal's owner, and the owner the parent would
  give it back to).
- `TypeOKHolds`, `HandoffBeforeExecHolds`, `JoinSucceedsHolds`, `AllOrNothingHolds`.

`HandoffBeforeExec` speaks of running programs only. It is kept by what goes on
before a program runs: the child may execute only after one of the two `setpgid`s
and one of the two `tcsetpgrp`s, and a failed later stage must give the terminal
back to the earlier stages; `FlightOK` and `TerminalOK` say this at each point of
either process. The proof has one lemma per action.

`ShellJobs_proofs` proves, for any number of jobs, pipelines of any length and any
number of outside signals:

- `Invariant`: the inductive invariant, `TypeOK` with `NewsOK` (the unreported
  change is the last thing that happened to its process), `RecordsOK` (a record
  disagrees with its process only while the event that corrects it is unreported),
  `CommandOK` (what the shell knows of the job it works on, at each `pc`),
  `StoredOK` (the table holds the stored jobs that are not done, each once),
  `AccountedOK` (whose an unreaped child is) and `TerminalOK` (owner and mode of
  the terminal at each `pc`, and the saved modes).
- `TypeOKHolds`, `TableTruthHolds`, `PromptOwnsTerminalHolds`, `JobsAccountedHolds`,
  `ShellSurvivesHolds`, `SavedModesApartHolds`, `ResumesInItsModeHolds`.

`ShellSurvives` shows why the parts need each other: a poll or a wait is safe because
a job that is not done has a member that is not done (`refresh`), whose process
is then unreaped (`RecordsOK`), and because everything in the table was launched
(`StoredOK`). The proof states first what each operation of `LinuxJobs` and of
`job_control.l` does process by process (`ReportEffect`, `MarkEffect`, `KeepEffect`, ...), then what a
step without processes or jobs keeps (`ControlFrame`), what an event and a
continue keep (`EventStep`, `ContinueStep`), and has one lemma per action. Its
assumptions are the named ones of the modules: groups and modes are distinct.

`HostResources_proofs` and, on top of it, `HostBoundary_proofs` prove for every number of
descriptors, processes, handles and nested boundaries:

- `TypeCorrect`, `Owned`, `Told`, `Terminal`, `Cleaned`, `Spares`: the safety
  properties of the run `boundary`.
- `Contained`: HostBoundary implements Containment.

The inductive invariant is `IInv == Res /\ Ctl`. `Res` is about resources: handles own
their number, every open number has an owner, and, what the properties do not say, a child that is
waited for has no pidfd (`NoPidfd`), the process of a number is that of the newest child
with it (`Owners`), and the older entry that misled a handle of Popen is not the one that
has the number now (`Truth`). When a wait finishes the first entry with a number, that is
the handle of the reaped process or, by `Owners`, an older one before it, which is the exception.
`Ctl` is about control: snapshots count no handle that was never made and grow from
outer to inner calls (`Counts`), saved modes are the user's (`Modes`), and the loop of
`close_one` is where `pc` says, with the processes behind it stopped (`Closing`). There is one
lemma per host operation for `Res` (`HostResources_proofs`) and one per action for `Ctl`.
The refinement is proved from them, for descriptors, children and processes of `proc`
alike (`Kinds`, `Open`, `Count`), by showing what each action does to the handles of each call: an operation that only appends to the lists adds to the innermost call
(`PromiseAcquire`), one that closes removes from whichever call has the handle, a
rollback to the innermost snapshot empties exactly the innermost call.
The assumptions are those on the bounds: they are natural numbers.

`BCVerifier_proofs` proves that `BCVM` keeps the promises of compiled code, for all code
that is verified, all inputs, all widths and bounds, and whatever copies and matches give:

- `InvariantHolds`: the inductive invariant `Inv`, the conjunction of `StatusOK` (a run has
  frames until it ends), `FramesOK` (frames run functions of the program and share the
  stack in order), `PendingOK`, `HostOK`, `CallerOK` (whatever the call above a frame
  leaves pending, the view that the frame will have when it returns is among those of its
  function) and `TopOK` (so is the view of the frame that runs, and what it says of the
  topmost operand is true).
- `TypeOKHolds`, `DepthsAsCompiledHolds`, `NamesBoundHolds`, `NoShadowHolds`,
  `NoStrayBindingsHolds`, `FollowsGraphHolds`, `UnreachableNeverRunsHolds`,
  `FunctionsReturnHolds`.

None of these is inductive alone: that a name is bound after a jump depends on what
every other way to the same instruction bound, and what a frame finds when a call returns
on the whole body of the callee. A match is why views know the topmost operand: after
`TRY_PATTERN` or `PATTERN_TO_BOOL` a branch must go the way the pending bindings say, or
an arm would run without its names. And after a literal `true` it must go one way only,
or the end of a function that ends in `while true` would seem within reach. The proof says what operations on a memory keep
(`Kept`, `Fine`), that instructions which only take operands and leave a value follow
their view (`ValueInv`, `NoValueInv`, `ControlInv`), and has a lemma for each kind of
instruction, the longest for a call (`CallInv`) and a return (`ReturnInv`).

The theorems have the form `Spec /\ CodeVerified => []P`, where `CodeVerified` is about
the first state only, which fixes the code. It is a hypothesis because what
the compiler emits is a recursion over the program. TLC checks it for every program of
`engines`, so for those programs the theorems hold on every input, and not only
on the inputs that TLC tries. The one assumption on the constants is that the input of a run is
a sequence (`LoadedAssumption`), besides those on width and bound.

`Instances_proofs` proves, for all programs that the checker accepts, whatever their
types and however long their chains of calls:

- `Invariant`: the inductive invariant `IInv`, the conjunction of `ChainOK` (an instance has
  a type argument for each parameter of its function, and only the first of a chain is
  without any), `Linked` (on inferred calls each function of the chain reaches all later
  ones along the edges of the checker's graph) and `InstancesApart`.
- `InstancesApartHolds`: if a call led back to a function of the chain, that function and
  the caller would reach each other, so they are in one component and, as the checker
  refuses components of two, the same; and then `preserves` makes the instance
  the caller itself (`SelfCall`).
- `InstancesTypedHolds`: a call that is well typed with the parameters of its caller left
  open is well typed after they are replaced. It rests on `Composition`, to substitute twice
  is to substitute once by the composed map, and on `StandsAfter`, that the
  type arguments of the new instance are this composed map.

There are two hypotheses, stated as operators of the module. `SubstituteRecurs` is the
equation by which `substitute` is defined, asked only of types that come to an end
(`IsType`); it defines `substitute` on them. `ProgramsResolved` says what
`resolve_ty` ensures before a body is checked: types are finite and name only the
parameters of their function. Nothing is assumed of `Unify` or `Walk`: what inference
finds is checked again by `Fits`. `InstancesAssumption`, which TLC evaluates, says that the
programs are `checked` and have a `main` without parameters. Induction over a type is
written as the choice of a smallest counterexample among its nodes.

Only model-checked: `CodeVerified` and `AgreesWithTree` (the compiler and the tree
interpreter are recursions over syntax trees); `NeverFallsThrough`, that no match runs out of
arms, which depends on the values it meets and not on the code alone; `LayoutsEnd`, because that `walk`
comes to an end is an induction over its own calls; and everything about liveness
(`ReadReturns`, `ForegroundReturns`, `ZombiesReaped`, `ClosedStops` and the last part of
`AgreesWithTree`). Liveness, ENABLED, recursive operators and induction over data are
outside TLAPS's reach.

## 6. What is not modelled, and what could come next

Not modelled because it is I/O or presentation: rendering, key tables and their
pushback, the bytes read and written, examples. Not modelled in the parts above:

- front end: lexer, parser, the typing of single expressions, constant evaluation and
  policy, modules, floats, strings; in `Generics` the context in which a literal is typed;
- the C generator of `src/tools/_native_compile.py`, which translates the instructions
  `BCCompiler` emits;
- native VM: scalar arithmetic (one opaque action in VMHeap; `LangValues` has it for the
  Python engines), nested boundaries and the rollback of handles and terminal in C;
- shell: a pipeline member that moves to another process group, redirections, the working directory;
- Python hosts: processes of somebody else are ones that the program may signal (for another user's
  the fallback `os.kill` raises PermissionError, which leaves rollback and cleanup half done); the
  host's own group as the group of a spawn; `proc.shell`, whose process ends before it
  returns; the screen in `Contains`; stopped and continued events and the foreground group, capture and
  restore of terminal attributes, signal dispositions (`LinuxJobHost` and
  `LinuxSignalHost` are built by tests only); a close that fails on an open descriptor is assumed
  not to happen.

What could come next, in order: the Lace kernel (an abstract text with undo, implemented
by piece tree, transactions and history), the LSP client over a pipe that may break,
and the hash map against a reference definition.
