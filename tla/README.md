# proven, specified in TLA+

`proven` is a Go preprocessor, run by `go build -toolexec=proven`. Functions
declare contracts (`proven.That(x, pred)` for a parameter, `proven.Returns(v,
pred)` for a result). For each package the toolchain compiles, the preprocessor
collects the contracts (scanner), walks every function body looking for a proof
of each obligation at each call (analyzer), fails the build when one is missing,
and otherwise hands the compiler sources from which the contracts are erased
(rewriter). What was learnt about a package is written beside its archive
(sidecar) for the packages that import it.

An obligation found discharged is erased and never checked again. What matters
is therefore that the analyzer finds no proof of what is false: the
specification puts the walk in lockstep with one execution of the walked
function and states what the facts in the stream have to do with the values of
that execution.

## The system and the specification

| Part | State | Operations | Hard part | What makes it correct | Module |
|---|---|---|---|---|---|
| Event stream, resolver (`analyzer_events.go`, `analyzer_resolver.go`, `exprkey.go`) | events, scope tree, current scope | source, write, enter and leave scope; backward lookup, return snapshot | visibility by scope, barriers by root | a lookup finds the facts about the present value | `EventStream` |
| Analyzer (`analyzer.go`) | stream, open statements, return snapshots, discharges | one per statement kind | branches, joins, loops, the two-statement `prove.That` form | no false fact is found; derived postconditions are true | `Analyzer` |
| The analyzer it replaced (named in the comments of both files) | a set of facts, clones | plant, forget, clone, restore | | | `CloneRestore`, `AnalyzerRefinement` |
| Guard facts (`analyzer.go:614-692`, `730-740`, `858-879`) | none | condition to facts, calls in an expression to facts | negation, `&&`, nil comparisons, what is evaluated at all | facts hold in the branch, or after the statement, they are for | `Conditions` |
| Calls and callees (`analyzer.go:360-451`, `1254-1290`, `scanner.go:418-452`) | none | statements to calls, names to functions | headers, nesting, import names | every call is checked against the contract of what it calls | `CallSites` |
| Rule search (`analyzer_resolver.go:98-135`) | visited set | backward chaining | shared visited set, map order | sound, ends, finds what follows | `RuleSearch` |
| Derived returns (`userpkg.go:256-340`) | derived sets per function | repeated passes, cap 64 | mutual recursion, stopping early | sound at any stop, settles on the least solution | `DerivedReturns` |
| Scanner (`scanner.go`), with `pkg/proven`, `pkg/infer`, `pkg/infertest` | package summary | contracts and rules of a file, flattening of compositions | no types, arguments by position, partial failures | what is advertised is what the declared predicates check | `Scanner`; several returns in `DerivedReturns` |
| Pipeline, sidecars (`userpkg.go`, `sidecar.go`, `compile.go`, `run.go`) | sidecar files | compile a package, write and read sidecars | cached compiles, failed writes | every obligation of an import is checked | `Build` |
| Rewriter (`rewriter.go`) | edits, bytes | erase nested calls in place | order of nested edits, line breaks, imports | the compiler reads the program without contracts | `Rewriter` |
| Literal evaluator (`litconst.go`), library predicates | none | predicate on a literal | widths, signs, untyped constants | what it says holds of the value that arrives | `Literals` |
| Toolexec chain (`run.go`, `chain.go`, `compile.go`, `userpkg.go:375-438`), linker stub (`provenstub.go`) | argument vector, temporary files | split, plan, run, clean up | finding the Go tool, failures on the way | the tool runs as asked, on files that exist | `Toolexec` |
| Test-time checks (`pkg/proventest`) | one global flag | `WithChecks` and the assertions over it | panics, recovery, nesting, concurrency | checks are on while a helper runs; assertions are right | `ProvenTest` |

`SourcePasses` puts the passes over one file side by side, each a function of its
input, and `MCInvocation` gives them and `Toolexec` their instances. Parts with
nothing to check (the text of the linker stub, the command, examples and
benchmarks) are listed in `PROJECT.json` with the reason.

### How they interact

    toolexec argv -> chain -> pipeline: parse -> scanner -> summary
                                               -> sidecars of the imports
                                               -> analyzer, repeated: derived returns
                                               -> analyzer, once more: discharges
                                 no gap: sidecar out, rewriter, compile
                                 gap:    diagnostics, build fails

The analyzer reads the summaries (what a callee requires and returns) and
appends to one event stream per function. Nothing runs concurrently inside one
package; `go build` compiles packages concurrently but a package only after its
imports.

## EventStream

`events`, `path` and `current` are `eventRecorder`'s fields. One entry is what
one statement records, in order: sources, writes, sources; sources come out of
Go maps or one loop and are sets. `path[s]` holds the scopes from the root scope
to `s`, so `isAncestorOrSelf(a, b)` is `a \in path[b]`. A claim is a set of
predicates: a singleton for a leaf, the alternatives for an Or-fact, which makes
`orKey`'s comparison equality of sets. Query events never influence a lookup
except by fixing the scope it is made in, and are left out.

Two ghosts date the facts: `asOf`, when the value a fact speaks of was examined,
and `at`, when what a statement wrote became the variable's value.

## Analyzer

The walked function is not given. Each step walks one more statement, any that
`Constructs` allows, so the behaviours are the walks of every function of at
most `MaxStmts` statements, and a walk's stack of frames is the recursion of
`analyzeBlock`. The same step executes the statement in a ghost: `env` holds the
predicates true of each key's present value, `touched` since when, and each
frame whether the execution entered it (`taken`) and is still in the function
(`live`). Values are chosen freely, restricted only by what the language and the
callee's contract guarantee, so a property of the ghost is a property of every
execution.

| Go | Action |
|---|---|
| call with obligations, `proven.That`, `proven.Returns` in a body | `Call` |
| `target(f())` | `CallNested` |
| `x = e`, `x := e`, `x.F = e`, `x[i] = e` | `AssignValue` |
| `x++`, `f(&x)` | `IncDec`, `AddrEscape` |
| `x = f()`, `v, w = f()` | `AssignCall`, `AssignTwo` |
| `prove.Must(k, p)`, `trust.That(k, p)`; `x = prove.Must(k, p)` | `Must`, `AssignMust` |
| `var x = f()`, `var x T` | `Decl` |
| `x.f++`, `f(&x.f)`, `*r = e` with `r = &v`, and `x = e` in an `if`, `for` or `switch` header | `Silent`: nothing is recorded |
| `if`, `else`, `else if` and their ends | `If`, `Else`, `ElseIf`, `EndThen`, `EndElse` |
| `v, err := prove.That(k, p); if err != nil` (or `== nil`), also with `x.F` or `_` for `v` | `ProveThatIf` |
| block, `for`/`range`, `switch` | `Block`, `Loop`, `Switch`, `NextCase`, `EndBody` |
| `return v`, `return e`, `panic()` | `Return`, `ReturnOther`, `Panic` |

A condition is the pair of the facts it yields when true and when false; the
execution takes a branch only when they are true. A loop body is walked once, as
in the code, and executed at an arbitrary iteration: other iterations may have
assigned any variable the body assigns. The names `"outer"`, `"define"`,
`"header"`, `"selfthat"` and `"elseif"` in `Constructs` are not statements but
permissions: to assign, in a nested scope, a variable of an enclosing one; to use
`:=`; to declare in a loop header; to overwrite the root of `prove.That`'s
argument, or a path of it, with its result; to chain `else if`.

The error variable of `prove.That` and the facts on it are left out; it is no
key. `l = f(&x)` and expressions with several calls are walked as the separate
statements they amount to. A write through a pointer is a `Silent` one on the
variable it points to: the address may have been taken, and the fact on the
variable dropped, any time before.

### What is checked

- `FreshFactsHold`: wherever the execution is, every visible fact that was
  recorded for the present value of its key is true of it. This is about planting:
  guards, else branches, joins after an escape, both targets of `prove.That`.
- `FoundFactsHold`: a fact the lookup finds is true, except on a variable whose
  last change was recorded as no write that is visible here. This is about the
  lookup, and isolates the walk's one blind spot.
- `EveryFactHolds`: the same without the exception, as the README and
  `docs/design.md` promise it. It holds in the fragment where a nested scope
  assigns only its own variables and nothing uses the forms the walk has no case
  for (`AnalyzerFragment`), and fails outside it (`AnalyzerOuterWrite`; with
  `"silent"` and a field key among the constants, for `x.f++` too, and after
  `p := &x` and a new proof of `x` for `*p = e`, which `docs/design.md:98` calls
  sound by construction).
- `DerivedReturnsHold`: what the function advertises is true of what it returns.
- `ImplementsCloneRestore`: under the mapping "the set of facts is what the
  lookup finds; a clone is what it finds from the scope the branch was opened
  in", every step of the event-stream walk is a step of the clone-and-restore
  walk it replaced.

## RuleSearch

One query `dischargedViaEvents(pred, subject)`. The recursion between
`dischargedViaEventsRec` and `allDischargeViaEvents` is the stack `calls`; an
entry is one call: its predicate (`goal`), the rules its loop has been through
(`tried`), and the premises of the rule at hand still to be shown.

| Go | Action |
|---|---|
| `for _, rule := range a.allRules()` with `slices.Contains(rule.To, pred)` | `TryRule` |
| `hasFactViaEvents(p, ..)` for a premise | `PremiseKnown` |
| `visited[p]`: return false | `PremiseVisited` |
| the recursive call | `SearchPremise` |
| all premises shown: return true | `Conclude` |
| no rule left: return false | `Exhaust` |

`Given` is discharged after `From` with the same visited set, so both are one
sequence of premises. `allRules` ranges over the map `a.imports` in each call:
`NextInOrder` keeps the package's own rules in order and before the others and
lets any imported rule come next, each time anew. The facts do not change during
a query.

`Follows` is the reference: membership in every set of predicates that contains
the facts and is closed under the rules. `Sound` and `Exhaustive` compare the
answer with it, `Returns` says that there is one. `Exhaustive` holds for rules of
one premise, which a run checks (`ChainsExhaustive`), and not beyond: with
`goal <- p, q`, `q <- p` and `p <- r` the search for `q` finds `p` visited.

## DerivedReturns

One package and then a run of it. The program is not given: `body` assigns each
function a set of returns, and a return is what `Analyzer` leaves to know about
it: whether the result is an identifier, what the walk itself has established on
it, which callee it came from, what `proven.Returns` or `trust.Returns` pin. So
the calls among the functions are any graph, mutual recursion included.

| Go | Action |
|---|---|
| one turn of the inner loop: `AnalyzeFuncWithReturns`, `recordDerivedReturnsIfChanged` | `Walk` |
| the next turn of the outer loop | `NextRound` |
| `break`, or the cap | `Settle` |
| the discharge pass with `verifyProvenReturns` | `Discharge` |
| (ghost) the program runs: a value is made and passed up | `ReturnOwn`, `ReturnPassed` |

The ghost follows one value up a chain of calls. An execution may return by any
return of a function, with any value that has the facts this return has checked
itself or, for `trust.Returns`, vouched for. What it may not do is satisfy a pin
merely because it is pinned: that is what the discharge pass must have verified.

`AdvertisedHold` is the promise to the callers. It needs every return of a
function to pin the same (`Uniform`): `Pins` is the union over the returns, as in
`recordReturns`, and without `Uniform` the promise fails (`DerivedMixed`).
`DerivedSupported` is the invariant behind it. `SettlesOnLeast` compares what
discovery ends with with every solution of the equations.

Discharging by inference rules is `RuleSearch`'s subject and left out here, as
are preconditions, which a function's returns do not depend on. Functions that
share a key of the summary map (`init`, `_`) cannot be called and are left out.

## Build

The packages of one program and its builds. What a package's sources mean to the
pipeline is three facts that any edit may change: whether it has a contract to
tell, which imports it calls without the proof they require (`gap`), which
imports' results its own proofs rest on (`relies`).

| Go | Action |
|---|---|
| `planUserPackage` with diagnostics, `Run` exits 1 | `Reject` |
| `planUserPackage` without: sidecar, rewritten sources, the compiler | `Compile` |
| an infrastructure error, or the compiler's | `CompileFails` |
| (external) the go command: new work directory, imports first, cache, link | `Start`, `Ready`, `Reuse`, `End` |
| (external) the programmer | `Edit` |

`sidecar` is the set of sidecars in the present work directory and `Known` what
`readImportSummaries` finds there. `CacheUsed` lets the go command skip a package
whose cached result is up to date: neither it nor its imports' output has
changed. `WritesFail` lets `os.WriteFile` fail. Packages compile in any order
that respects imports; two that do not import each other read and write disjoint
files, so their interleavings are covered by the orders.

With sidecars that can be written, the packages one build compiles are checked
against each other (`CompiledTogether`) and nothing is reported without reason
where the imports were compiled (`NoFalseAlarm`). If all packages are compiled,
nothing links unchecked (`NothingUnchecked`). `BuildLostWrite` shows what a write
that fails does. A cached import contributes nothing, as the comment at
`sidecar.go:22` says: the properties speak of what the build compiled.

## ProvenTest

Goroutines of a test binary and the package's one flag, `enabled`. `frames[g]` are
the calls of helpers open in `g`, `mode[g]` is `"run"`, the panic that unwinds
its stack (a predicate for a `Violation`, `Other` for the rest) or `"fatal"` for
`t.Fatal`. What runs inside and outside the helpers is any code: it reaches
blocks whose predicate fails, panics, recovers.

| Go | Action |
|---|---|
| `WithChecks`, `AssertFails`, `AssertAnyFailure`, `AssertPasses` are called | `Enter` |
| a block of `proven.That` or `proven.Returns` whose predicate fails | `FailingBlock`: a panic if the flag is set, else nothing |
| the code under test panics, recovers | `OtherPanic`, `Recover` |
| `fn` returns | `Return`; an assertion that wanted a violation fails |
| the assertion's deferred `recover` sees a `Violation` | `Caught`, and the comparison of code pointers |
| any other panic, `Goexit`, or a `Violation` in `WithChecks` itself | `Through` |
| (external) the next test of the goroutine | `NextTest` |

The `defer` of `WithChecks` clears the flag on every one of these ways out. The
ghost `first` of an open call is the predicate of the first block that failed in
it and whose failure nobody has handled; what an assertion says is compared with
it. `Alone` is what the comment of `WithChecks` asks for: no other goroutine
reaches a block or a helper while one is open.

## Toolexec

One invocation. `argv` is the argument vector of the process about to run, at
first what `go build` hands over; `Composed` builds it from proven's own
words, the links of the chain, the tool and its words, so that `line` is the
reference for what `ParseChain` takes apart. `left` are the places of the sources
not yet rewritten; `Turn` picks the next. Assumed of command lines is what `go
build` composes: no word of proven's own is `--and-then`, no word of a successor
is that or a tool, and no word is a temporary path.

| Go | Action (`phase` before it) |
|---|---|
| `Run` without arguments or a tool | `BadArguments` (`start`) |
| `planCompile` | `PlanCompile` (`start`) |
| `planProvenStub` | `PlanProvenStub` (`stub`) |
| `planUserPackage` up to `rewritePlan` | `PlanUserPackage` (`user`) |
| the loop of `rewritePlan`, per source | `RewriteUnchanged`, `Rewritten`, `RewriteFails`, `WriteFails` (`rewrite`) |
| its end | `RewriteDone` |
| `exec.Command` | `Exec` (`exec`) |
| (external) a preprocessor later in the chain; the tool; neither can be run | `Successor`, `Tool`, `ExecFails` (`running`) |
| `defer plan.Cleanup()` and the exit code | `Cleanup` (`ran`) |

`temp` holds the temporary files and directories, `plan` what `Plan.NewArgs` and
`Plan.Cleanup` stand for. What the analysis of the package says is open here; it
is the subject of the other modules.

## The passes over a file

`SourcePasses` picks a pass, gives it an input and compares the answer with what
the input means when the program runs. The recursion of the Go functions over
the syntax tree is a recursive function on a set of nodes, records that hold their
operands or the statements of their bodies; `Syntax` says what such a set is
(`WellFounded`: what a node is made of belongs to it and is less deep).

- `Scanner`: an argument of a contract or a rule is a term over `And`, `Or`,
  `Not`, names and what has no name; a function a list of parameter fields and
  the calls in its body. `ScanFunc` is `scanFunc` with `recordThat`,
  `recordReturns` and `buildParamIndex`, `ExtractInferRule` the function of that
  name. `Answer` is what the combinators of `pkg/proven` answer, `Check`,
  `Verify` and `VerifyApplies` are those of `pkg/infer` and `pkg/infertest`.
  `ContractsHarvested`: without a diagnostic, what callers must prove per
  argument, and are told of the result, is what the function's own contracts
  check, on every value. `RulesHarvested`: the rule that is trusted is the rule
  that `infertest` verifies.
- `CallSites`: `AnalyzeStmt` and `WalkCallSites` find the calls, `ContractsOf` the
  contract by the file's import names. `CallsChecked`: every call that Go makes
  of a function with a contract is checked, against that contract.
- `Conditions`: `CollectGuardFacts` and `WalkCalls`, against the truth of the
  condition and Go's order of evaluation (`GuardsTrue`, `PlantedTrue`). A
  condition is evaluated in one world: its calls change nothing it speaks of.
  `Analyzer`'s pairs of facts for a condition are what `GuardsTrue` justifies.
- `Literals`: `EvalLibraryPredicate` and `EvalLiterals`, against the predicate on
  the value the parameter receives, converted to the parameter's type
  (`LiteralsTrue`).
- `Rewriter`: a file is a sequence of words, each as wide as a byte; the syntax
  tree's positions follow from the statements. `RewriteSource` collects the
  edits, blanks them innermost first (the fold of `ApplyRewrites` leaves the
  outermost edit for the end), adds a use for each import that lost its
  last one and puts a line directive before all. `Lexed` is the compiler's
  reading, automatic semicolons included. `ProgramKept`: it reads the program as
  written without contracts; `PlacesKept`: every other word is where it was;
  `ImportsKept`: no import is left without a use.

## Runs

| Run | Bounds | Result |
|---|---|---|
| `AnalyzerScopes` | 3 statements, one variable, a leaf and an Or claim | holds |
| `AnalyzerFragment` | 3 statements, every construct of the fragment, a variable and a path from it | holds |
| `AnalyzerRefines` | 2 statements, two variables, every construct | holds |
| `Derived` | 3 functions of up to 2 returns, `p` and `p or q`, cap 8 | holds |
| `RuleSearch` | 3 predicates, up to 3 rules of up to 2 premises | holds |
| `Build` | 3 packages, 3 builds, any edits, build cache | holds |
| `ProvenTest` | 2 goroutines, 2 predicates, one helper open at a time | holds |
| `Invocation` | chains of up to 2 successors, 2 sources; the passes on inputs as below | holds |
| `AnalyzerOuterWrite` | 3 statements | violated: a write in a block is forgotten after it |
| `DerivedMixed` | 3 functions | violated: one return pins, the other does not |
| `BuildLostWrite` | 3 packages, 1 build | violated: a sidecar that was not written |
| `CallsInHeaders` | `if F(x) {}` | violated: the call is not among those checked |

Analyzer: ends of branches do not count as statements, so three statements hold
an if, an assignment in one branch and an escape from the other, and what follows
is what the lookup finds then. The visibility and barrier rules relate one fact,
one write and one lookup, in at most three scopes of one variable, and every such
constellation is reached within these bounds. The violations need no more.

DerivedReturns: claims interact only through a disjunction and its leaf, so one
such pair is enough. Two functions make every kind of recursion; three are needed
for an order of declarations against the calls that takes more than two rounds.
The rounds are at most one more than there are pairs of a function and a claim,
7, and the cap of the run is above that. Caps that cut discovery short are
covered by the proofs of `DerivedSupported` and `AdvertisedHold`, which are for
every cap and every size.

RuleSearch: the shared visited set matters when one premise's search meets what
another's has seen, which takes a join and two more rules. Build: an import used
directly and through another package, so that a package can be cached while one
of its imports is not and the other way round; three builds are one to fill the
cache, one to reuse it and one after an edit.

ProvenTest: what one goroutine does to another goes through the flag alone, so two
show every interference; two predicates are one that is asserted and another. The
sequence of tests is not bounded. Invocation: a chain with an inner link and a
last one has every kind of border between words, and tools whose words repeat
flags, look like a chain or end in a flag are among the lines. Arguments of
contracts are terms two levels deep with up to two operands, which is where
flattening, refusals and their combination happen; functions have up to two
parameter fields and two contracts. Conditions have up to three atoms over two
subjects. Integers have 4 bits, with literals on both sides of every limit, and
floats steps of one half. Files have up to two statements and two nested calls,
on one line or several. What an instance leaves out because it goes wrong is
named at its place in `MCInvocation` and listed below.

Deadlock is not checked where the program stops: a walk ends with its function
or its first missing obligation, a query with its answer, a build after the last
one considered, an invocation with its exit, a pass with its answer. Of the walk,
discovery, the builds and an invocation no liveness is claimed;
`SettlesBeforeCap` bounds the rounds instead. The search is checked to end under
`WF_vars(Next)`: it is sequential code in one goroutine that waits for nothing.

## What is proved

The proofs are checked by TLAPS for every value of the constants, under the
named assumptions of each module and those in the theorem.

- `Analyzer_proofs`, types: `TypeCorrect` and `WalkIsTyped`. `TypeOK` alone is not
  inductive: leaving a branch restores the scope and the liveness saved in its
  frame, so the invariant adds `WellNested`, which says that the function's own
  frame is at the bottom of the stack and only there and that what the frames
  above keep exists. One lemma per statement kind.
- `Analyzer_proofs`, facts: `FreshFactsAlwaysHold`, for all `Constructs`;
  `FoundFactsAlwaysHold` and `DerivedReturnsAlwaysHold`, assuming `Attentive`;
  `EveryFactAlwaysHolds`, assuming `Fragment`. The properties speak of the open
  block, and closing it brings back a scope of which they said nothing, so none of
  them is inductive. `FactsInv` (`FactsAgree`) says them of every open statement at
  once: there are values `env[d]`, `since[d]` and an answer `here[d]` for each level
  `d`, which are what the execution's variables, their dates and its presence will
  be once the statements above `d` have been closed (`Unwinds`), such that at each
  level what its scope sees, and what the branch open there may still plant
  (`Held`), is true of them (`Sound`). `Linked` orders the scopes of the levels: an
  outer one sees part of what an inner one sees and nothing recorded inside.
  `Branches` makes the facts planted after an `if` whose branch escapes those of
  the branch the execution took. For the lookup, `InOrder` adds that a fact is dated after every
  visible write recorded before it, and `Written` that every value in scope was
  given by a visible write. `Attentive` leaves out the two forms that misdate a fact
  (`"multi"`, `"selfthat"`) and `Fragment` also those whose change of a variable is
  recorded nowhere or out of sight later (`"outer"`, `"decl"`, `"silent"`,
  `"header"`); with each of them a found fact can be false, and the runs and the
  list below say how. TLC checked the parts on the bounds of the three Analyzer
  runs first.
- `AnalyzerRefinement_proofs`: `CloneRestoreImplemented`, for all `Constructs`: the
  walk refines `CloneRestore`, from `FactsInv`. The set of facts of the old walk is
  what the lookup finds at the top level, and the clone that is to be restored when
  the statement above level `d` ends is what it finds at level `d` (`At`). By `Linked`
  a level sees nothing that is recorded inside, or in a scope opened later, so no
  clone changes while its statement is open (`Unseen`). What is left of a step is
  its shape: it stays in the block, opens a statement, turns to the next branch,
  with or without one nested in it, or closes a statement (`Straight`, `Opens`,
  `Turns` with `Beginning` or `Nesting`, `Closes`), which are `Work`, `Enter`, `NextBranch`,
  `NextNested` and `Leave`. The invariant adds `Plain`, that the frame of a switch clause
  has no condition: the next clause is opened without one, and is a branch of the
  same statement only if the last one had none either.
- `DerivedReturns_proofs`: `StaysSupported` (`DerivedSupported` is inductive with
  `TypeOK`, because `Derivable` is monotone in what is derived for the callees);
  from it `DerivedGrows`; and `AdvertisedSound`, whose invariant adds that a
  running program has all its pins verified. The theorem assumes that every body
  is `Uniform`; recursion needs no separate argument, since a value passed up was
  returned by a call that has already ended. `SettlesOnLeastSolution`: what is
  derived stays below every solution (`Least`), and as long as a round has changed
  nothing, the functions it has walked satisfy their equations (`Stable`); a round
  that is over has walked all, since every function is declared. `SettlesInTime`:
  `round` never exceeds the number of pairs found plus one (`Rounds`), for finitely
  many functions and claims.
- `RuleSearch_proofs`: `SearchSound`. The invariant says of every open call that
  the premises it has finished with follow from the facts, and that each call
  searches for the first premise its caller still has to show; it does not
  mention `visited`, which can only make a search fail. `ChainsAreExhausted`: where
  rules have one premise, the predicates visited and no longer being searched for,
  when none has succeeded, are closed under going back along the rules, so nothing
  outside the facts they miss can lead to the goal.
- `Build_proofs`: `CompiledChecked` and `FoundedAlarms`, assuming `~WritesFail`
  and nothing about the cache, and `FullBuildChecksAll` from the first. The
  invariant says that what is compiled has its sidecar, and that what is compiled
  or reported comes after all it imports (`ImportsFirst`): without the second
  part a package compiled later could change what an earlier one should have
  known.
- `ProvenTest_proofs`: `FlagScoped`, `AssertionsTrue` and `ProductionSilent`, with
  `HelpersTyped`, for any number of goroutines and predicates, assuming `Alone`
  and `MaxDepth = 1` (tests keep apart and do not nest helpers), and for
  `AssertionsTrue` that predicates have code pointers of their own. `ScopedFlag` is
  not inductive: leaving a helper clears the flag, which is right only if no
  other is open. The invariant adds that at most one goroutine is inside a
  helper, with one open call (`OneInside`, `Aware`), and that this call knows of
  the violation that unwinds its stack, which is what makes the verdicts right.

- `Toolexec_proofs`: `ToolIsAsInvoked`, `EverySuccessorRuns`, `InputsAlwaysExist`,
  `FilesAreRemoved` and `SuccessIsAlwaysTheTools`, with `TypesHold`, for any command
  lines that `WordAssumption`, `FreshAssumption` and `LineAssumption` allow and chains
  of any length. The invariant says where each process stands in the vector that the
  first one composes (`Threaded`: after as many separators as successors have run),
  and that exactly the temporary files that exist are to be removed (`Accounted`)
  and all that the plan puts in a vector are among them (`Covered`). That
  `ParseChain` takes a composed vector apart again (`Understood`) needs an induction
  over the links: `LeastNat` gives the least link at which the claim fails, and the
  claim at the link before it contradicts that.

- `SourcePasses_proofs`: `GuardsAlwaysTrue`, `PlantedAlwaysTrue`,
  `RulesAlwaysHarvested`, `ContractsAlwaysHarvested`, `CallsAlwaysChecked`,
  `LiteralsAlwaysTrue`, `ProgramAlwaysKept`, `PlacesAlwaysKept` and
  `ImportsAlwaysKept`, for conditions, terms and bodies of any depth, any number of
  parameters and contracts, any literals and limits, files of any length. The
  invariant is that a pass that has answered has given its function's answer (`AnswersStand`); what that
  answer is worth is shown by going down the syntax. No induction theorem of the
  library can be used for it (each takes an operator), so `Recursion` and
  `Induction` are proved from `LeastNat` for any family of nodes layered by depth:
  the node at which a claim fails and which is least deep has operands at which it
  holds. For conditions the claim speaks of both branches at once, since `!`
  exchanges them; for disjunctions in contracts it speaks of the alternatives only.

  The theorems suppose of the inputs what the instance supposes, and no more than
  the code needs; each hypothesis names a way in which the code goes wrong, listed
  below, and TLC checks that the instance satisfies it: `NothingSkipped` (no
  `prove.Must` in an operand that may not be evaluated), `OrsKnown` (no unknown
  package in a `proven.Or`), `PlainContracts` (no contracts of function literals, no
  postcondition that is only a disjunction), `StatementsKnown` and `ImportsNamed`
  (no statement kinds the walk does not know, no calls in headers, no dot imports,
  no package named unlike its path), `PlainType` (no parameter of an interface type,
  or of a float type narrower than the evaluator's), `LinesUnbroken` (no line break
  left over from a contract that ends the statement). `GuardsAlwaysTrue` supposes
  nothing of a condition's shape or size. What it says is said of one world: a
  condition whose parts change what its other parts speak of, and an initialiser of
  the `if` that shadows a subject, are outside the model of conditions.

  For the rewriter the induction is over the edits. `ApplyRewrites` folds a set and
  ends with its outermost edit, so `PeelInduction` takes them off from that end: a
  word stays, or it gives way to a blank where some edit says so (`Blanked`), and
  what is appended stands behind (`Appended`, `Rewritten`). An edit's places come
  from lengths; `CallStands` shows that the call's text stands in the file where its
  edit starts, which is why an erased `fn(` names one of the two packages that have
  sentinels of their own, and `DeadCounted` that any other package which loses a
  name is among those `UsedAliases` counts. `PlacesAlwaysKept` and
  `ImportsAlwaysKept` suppose nothing but what Go asks of a file (`WellFormed`).

  `ProgramAlwaysKept` compares two readings by the same lexer: of the rewritten file,
  and of the file as it would have been written. The lexer's state is what it has
  read, and all that matters of it for what comes is whether a line may end there;
  so a text read from a state that calls for more is that state and what the text is
  read as (`AfterQuiet`), and what an edit leaves of a text, blanks and line breaks,
  is read as nothing or as one line break (`GapReads`). A statement is followed from the
  outside in, down to its atom (`StartRead`), and from there out again (`EndRead`):
  before the atom the kept text has been read, a line break in an erased call's
  front being read as nothing; behind it the same, and one line break may stand at the
  end, where the statement's own makes it void. `LinesRead` carries that from
  statement to statement, `FileRead` to the end of the file, and `AllAppended` says
  what the declarations are read as. `UnbrokenProgramsKept` says the same without
  a hypothesis on the other files. `LinesUnbroken` cannot be dropped: each of its
  halves excludes files that are read as other programs, listed below.

Only model-checked: `Returns`, a liveness property. The library's induction theorems
cannot be instantiated, so induction is by least counterexample, over numbers, and
over finite sets by their cardinality.

## Where the code and its documentation differ

Four runs are expected to fail; `PROJECT.json` quotes the text each of them
contradicts.

- A write inside a block, branch or loop body is forgotten behind it
  (`AnalyzerOuterWrite`).
- A function that pins a claim at one return advertises it for all
  (`DerivedMixed`).
- A sidecar that was not written hides the obligations of its package
  (`BuildLostWrite`).
- Calls in the header of a compound statement are not checked
  (`CallsInHeaders`).

These come out of the same models with other constants or inputs and have no run
of their own:

- Analyzer: `x.f++` and `f(&x.f)` leave the facts on `x` and `x.f` standing, and so
  does a write through a pointer to `x` (`EveryFactHolds` with `"must"`, `"silent"`
  and the keys `x`, `x.F`); `x, err := prove.That(x.F, p)` plants `p` on the field
  of the new `x`, and `x.F, err = prove.That(x, p)` plants `p` on the `x` it has
  changed (analyzer.go:470 against 1755-1761; both: `FoundFactsHold` with `"that"`
  and `"selfthat"`); `v, w = f()`
  plants what `f` promises of its result on `w` (`FoundFactsHold` with `"multi"`;
  analyzer.go:1503 against the comment at 1475).
- Rule search: a premise that two rules share is found only once (`Exhaustive`;
  analyzer_resolver.go:109 against analyzer.go:1450).
- Build: a package compiled against a cached import is not checked against it
  (`NothingUnchecked` without its `compiled = Pkg`).
- ProvenTest: an inner `WithChecks` ends the checks of the outer one
  (`ScopedFlag` with `MaxDepth = 2`), and so does one of another goroutine, whose
  blocks then fire too (`ScopedFlag` and `SilentOutside` with `Alone = FALSE`);
  predicates that are results of one `proven.And` are told apart by nothing
  (`VerdictsTrue` with a `Code` that is not injective).
- Rewriter: `return proven.Returns(` with its value on the next line leaves
  `return` alone on its line, and the compiler ends the statement there; a line
  break behind the value, as in `trust.That(v,` with the predicate and `).F` on the
  next line, leaves `.F` to begin a statement (`ProgramKept`;
  rewriter.go:336 against the comment at 30).
- Conditions: `prove.Must` in the right operand of `&&` or `||`, or in a function
  literal, plants its fact though it may not have run (`PlantedTrue`).
- Scanner: a selector of an unknown package in `proven.Or` is dropped without a
  diagnostic, and the contract is weaker by its disjunction (scanner.go:726
  against the comment at 646); a postcondition that is only a disjunction is
  verified and not advertised (494); contracts of a function literal count as the
  enclosing function's (469) (`ContractsHarvested`).
- Literals: `Zero` holds of `0`, `""` and `false` though a parameter of an interface
  type gets a value that is not its zero value; `Positive` holds of `1e-60` though
  a float32 gets 0 (`LiteralsTrue`).
- CallSites: `defer`, `go`, `select`, type switches and labelled statements are not
  walked at all; functions imported with a dot, and by the last segment of a path
  that is not the package's name, are not found (`CallsChecked`).
- Toolexec: a successor whose own words name a Go tool's path is cut short there
  (`ToolAsInvoked`); copies stay behind when a source cannot be read again
  (`FilesRemoved` without its exception), and the temporary directories always do.

Seen in the code and not in reach of a model here: `_, err := prove.That(x, p)`
followed by `if err := g(); err != nil` counts as the check of the first `err`
(analyzer.go:1613-1630); `f(two())` has one argument, so that the contracts of the
later parameters are not checked; initializers of package variables are not
walked; methods, explicit instantiations and shadowed functions are not resolved
(1254); a local that shadows a parameter is taken for it (scanner.go:566-574), and
a variable of an `if`'s initialiser for the one it shadows, so that the facts of the
condition are planted behind the `if` on the wrong one (analyzer.go:538-580); a
condition that changes a subject after testing it, `p(x) && change(&x)`, is taken at
its word in the branch; `trust.That(f(), p)` as a statement is erased with the call of `f`; a local
variable used in a contract only is unused once that is erased; a sentinel for a
generic predicate of another package does not compile; an untyped constant takes
its default type when the generic call around it is gone; `proven.That[int](x, p)` is neither
scanned nor erased; two import names of one path are told apart by map order
(`aliasFor`).

## Not modelled, and the plan

The linker stub's text, the command, the examples and the benchmarks have no state
of their own. Of the parts modelled in part: expression keys are a given set with
a root function (`exprkey.go`); the resolution of predicates to their packages, and
the diagnostics for those that have no name, are left out of `Analyzer`; functions
that share one key (`init`, `_`) cannot be called and are left out of
`DerivedReturns`; in `Build` a contract is there or not and does not change its
content; the links of test binaries are left out. The passes over a file and the
walk are composed by what they hand over (summaries, facts of a condition, the
calls of an expression), not in one state space, which would be too large to
check.

Every invariant and every action property of the passing runs is stated by a
theorem. `Returns`, which needs fairness, is left to TLC.
