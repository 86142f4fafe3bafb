# A TLA+ model of the CEL interpreter

This directory models the interpreter of `cel/src`: how the tokens of an expression of the Common
Expression Language become a tree, how the parser and its macros put an expression together, how
`Value::resolve_val` evaluates it in a `Context`, how an `Env` dispatches calls and builds structs,
what the library and the functions for hosts answer, and how values come in from a host and go
back out. The modules are checked with TLC on
small instances, and what matters most about the comprehensions, the scopes, the dispatch of
overloads, struct definitions, balanced chains, evaluation and the calls of host functions is
proved with TLAPS for every value of the constants; so is what becomes of any data and any value on its
way in and out.

## The system

| Component | State | Operations | Hard behaviour | What makes it correct |
|---|---|---|---|---|
| Generated parser (`parser/gen`) | the tokens, the place in them | one method per grammar rule, loops with predicates for what is left-recursive | precedence and grouping; signs; a dot, a quotation mark or a parenthesis that could belong to several rules | tokens are read in one way, the one the grammar means |
| Parser (`parser/parser.rs`) | the id counter, source positions, collected errors, the recursion depth | one visit method per grammar rule | ids are handed out while visiting; chains of `\|\|`/`&&` are regrouped; an error does not stop the visit | the tree means what the source says; ids are unique |
| Literals (`parser/parse.rs`, `parser.rs`) | none | numbers, strings, bytes, raw and quoted | prefixes, quotes and escapes are taken off in steps | the value is the one written, or the source is refused |
| Macros (`parser/macros.rs`) | none of their own | expanders of `has`, `all`, `exists`, `exists_one`, `map`, `filter` | they all share one accumulator name and one generic loop | the expansion gives the answer the macro promises |
| References (`parser/references.rs`) | two sets | `references`, `variables`, `functions` | targets, qualified names and what macros bind are all names; the set holds those of macro variables too | what evaluation looks up is in the sets |
| Evaluator (`objects.rs`) | the call stack of `resolve_val`; the inner contexts of comprehensions; values lent or owned (`Cow`) | one arm per expression kind and operator | short circuits that absorb errors; the order of evaluation; early returns; scopes that end while values are lent out of them | evaluation has one of the results the expression means, and ends |
| Contexts (`context.rs`, `resolvers.rs`) | per level: variables, a resolver; at the root: functions, the environment | `add_variable*`, `set_variable_resolver`, `add_function`, `new_inner_scope`, `get_variable`, `get_function` | children borrow their parents; resolvers veil variables | lexical scoping |
| Host functions (`magic.rs`, `resolvers.rs`, `functions.rs`) | a registry by name; the index of the next argument | registration, extraction of arguments, calls | extractors consume arguments by position, or the target instead; a function may share its name with an overload | each operand reaches its parameter; both implementations agree |
| Environment (`env.rs`, `common/decls.rs`) | functions with overloads in order; structs | `add_overload`, `add_member_overload`, `find_*`, `add_struct`, `find_struct` | overlapping signatures through `Dyn` | dispatch does not depend on later registrations |
| Standard library (`common/types/*.rs`) | none | its registrations, its functions | one library on top of another; operations that assert what dispatch should guarantee | every overload can be reached; no call panics |
| Structs (`env.rs`, `common/types/struct.rs`) | fields, defaults | `add_field*`, `new_struct` | defaults and given values take different paths | an instance is given values over defaults |
| Values (`common/value.rs`, `common/types`) | immutable | operators by trait | cloning, owning, borrowing; overflow | an operator gives its result or an error |
| Conversions (`objects.rs`, `context.rs`) | none | `Value` to `Val` and back; `add_variable` | partial in one direction; copies that unwrap optionals | what is bound is what is read |
| Serializer (`ser.rs`) | a map with a pending key; fields of a marked struct | serde's protocol | a value without a key, keys of several types, wrappers recognised by name | data arrives as what it means or is refused |
| JSON (`json.rs`) | none | `Value::json` | keys of several types with one text; values without a JSON form | the export is the same for every order of a map |
| Durations (`duration.rs`) | none | parse, format | units, signs, rounding, unsigned arithmetic | a text says its duration, and parses back |

Components interact by calls on one thread. `Program::execute` hands the expression to
`resolve_val`, which asks the context for variables and functions and the environment of its root
for overloads; a comprehension makes an inner context that borrows the one around it, and drops it
when it ends. A `Context` can be shared between threads by reference only, so that nothing it
holds changes while a program runs; what can go wrong is in orders of calls and of evaluation, not
in races.

`PROJECT.json` lists the components with what is modelled of each, and the hazards with the lines
at which they bite.

## The modules

| Module | Models | Checked by |
|---|---|---|
| `Logic` | results, `try_bool`, `\|\|`, `&&`, `!`, `?:` and `@not_strictly_false` over results | used by the others |
| `MacroPromise` | abstract: what each macro promises of its range, as a machine that looks at the items one by one | `comprehension` |
| `Comprehension` | the fold loop of `resolve_val` with `accu_init`, `loop_cond`, `loop_step` and `result` as the seven macros expand | `comprehension` |
| `ComprehensionProofs` | theorems about `Comprehension` | tlapm |
| `Contexts` | one level of a context and lookup along a chain of them | used by the others |
| `Environment` | abstract: scopes as copies of what they see | `scope` |
| `Scope` | `Context`: the live contexts, their bindings and resolvers, the root's functions | `scope` |
| `ScopeProofs` | theorems about `Scope` | tlapm |
| `OverloadClaims` | abstract: each call belongs to the overload that claimed it first | `overloads` |
| `Overloads` | `Env` and `FunctionDecl`: registration and dispatch | `overloads` |
| `Recursion` | lemmas: induction over numbers, positions, steps and nested data; the defining equations of recursive functions | tlapm |
| `Stdlib` | every registration of `Env::stdlib`, in order | `stdlib` |
| `Numbers` | arithmetic, order and equality of `Val`s and of `Value`s, with widths | `stdlib` |
| `Durations` | the text of a duration, written and read | `stdlib` |
| `Operations` | the functions of the library and those for hosts | `stdlib` |
| `Calling` | a call of the complete library: dispatch, operators, the extraction of a host function's parameters | `stdlib`, `stdlib_durations` |
| `CallingProofs` | theorems about `Calling` and, below it, `Overloads` and `Stdlib` | tlapm |
| `Times` | durations and timestamps as values | used by the next ones and by `Durations` |
| `Serializer` | from serde data to a `Value` | `interchange` |
| `Conversions` | between `Value` and `Val` | `interchange`, `stdlib` |
| `Interchange` | from a `Value` to JSON; composed: data on its way in, through a context, and out | `interchange` |
| `InterchangeProofs` | theorems about `Interchange` | tlapm |
| `Structs` | `StructDef` and `new_struct` | `structs`, `structs_documented` |
| `StructsProofs` | theorems about `Structs` | tlapm |
| `Values` | the values programs compute with, cloning, owning, indexing, the operators | used by the next ones |
| `Expressions` | the AST, what the macros expand to, `references()` | used by the next ones |
| `Invocation` | what evaluation invokes: dispatch to overloads and functions, making structs, the operators | used by the next ones |
| `Meaning` | abstract: the results an expression may have in an environment, without an order of evaluation | `evaluator` |
| `Evaluator` | `resolve_val` as a stack of frames; composed: beside `Meaning` | `evaluator` |
| `EvaluatorProofs` | theorems about `Evaluator` | tlapm |
| `Grammar` | the rules of the generated parser: the trees that tokens have | `parser` |
| `Literals` | what literals say, and which are refused | `parser` |
| `Spelling` | reference: how a tree is written in tokens, and when parentheses are needed | `parser` |
| `Parser` | the visitor from a parse tree to an expression: ids, macros, errors, the recursion limit | `parser`, `parser_signs` |
| `BalancedTree` | `balanced_tree`, from the operators' ids | used by the next one and by `Parser` |
| `LogicManager` | the balanced trees the parser makes of chains of `\|\|` and `&&` | `logic_manager` |
| `LogicManagerProofs` | theorems about `LogicManager` | tlapm |

An `MC` module gives the constants of one of these small values.

### How state and actions correspond to the code

`Comprehension`: `macro` is the macro the expression came from; `source` is what `iter_range`
evaluates to; `range` holds the items in the order of the iterator, `taken` how many of them
`items.next()` has given, `idx` which of them `iter_var` was bound to last, and with that how many had
the loop step, `accu` the value of `@result` in the inner context, `pc` where the loop is, `out` what
`resolve_val` returns. `Open` makes the iterator (or fails), `Take` is `items.next()` and then the loop
condition, which is evaluated with `iter_var` still at the item before: where it is false or fails, the item
taken is lost, and `taken` is one ahead of `idx`. `Exhausted` is the iterator's end, `Step` the loop step and
the rebinding of `@result`, and `Finish` evaluates `result`. A predicate is what it evaluates to for each
item: true, false, a value that is no bool, or an error.

`Scope`: a context is named by its path from the root; `level[p]` is its variables and resolver.
The borrow of a parent is the guard that a context with live children (`Shared`) cannot be
mutated or dropped. That is Rust's borrow rule for `&mut self` and for the reference a child holds, and no code of
`context.rs`: the properties take it for granted and ask what lookup along the chain, resolvers at any
level and the writes of the methods make of it. (The mutant of `TypeOK`, which drops a borrowed parent,
stands for that rule; safe Rust would not compile it.) `functions` is the registry of the root, and
`GetFunction` finds the same one from every context. A resolver may answer with a function, which is no
`Val`: the lookup then panics (`Panic` of `Contexts`). In `Evaluator` such an identifier panics too, and
in `Meaning` it has no result, so that one that is never evaluated does no harm.

`Overloads`: `decls` maps a function name to the overloads in the order of the vector. Its
`Assignable` is `Type::is_assignable`; a call is a name, a style and the types of its arguments.

`Calling` on top of `Stdlib`: `registered` counts the registrations made; when all are, one
`request` is made of the environment, with a name, perhaps a target, and arguments. `outcome` is
what the overload found for it answers, `undeclared` where there is none. Beside it the function
for hosts of that name runs: `Extract` makes the next of its `params` out of the target or of the
argument at `arg_idx`, as the code `impl_handler!` generates does, and `Apply` calls it, which gives
`reply`. In the program only one of the two happens, and which one depends on what the host has
registered; running both compares them. For an operator, `outcome` is what the traits of `Val`
answer and `reply` what the operators of `Value` do. The field `how` of a request holds what the
request does not decide: whether the argument is lent or owned, whether the build checks
overflows, and whether an `f64` product fell short of a whole number.

`Interchange`: a value is in one of the stages a host sees: `source` (data or a `Value`), `value`,
`val` (bound in a context), `resolved`, `exported`; it may end `refused` or `panicked`. `held` is the
value in the present form. Data is the tree of calls an implementation of `serde::Serialize`
makes, and `Built` takes the calls on `SerializeMap` one by one, with its pending key. `Value`s and `Val`s
are written as the same tuples, so that a conversion that loses nothing is the identity.

`Structs`: `fields` and `defaults` are the two maps of `StructDef`; `given` is what an expression
provides; `result` is the instance or the error.

`Evaluator`: a frame is one activation of `resolve_val`: its expression, the results of the
operands that returned, and, for a comprehension, its inner scope and iterator. Each action is one
arm, or one part of an arm between two calls of `resolve_val`. A value carries whether it is lent by the
context (`Cow::Borrowed`) or owned, because cloning an optional unwraps it. The maps' iteration
order is chosen when the iterator is made. The environment's overloads are found by `Overloads` and
its structs made by `Structs`, both instantiated in `Invocation` with what is declared.

`Meaning` has no state. It says what results an expression may have by an equation for each kind of
expression, between its results and those of its operands: `Results(e, env)` is a constant operator,
`ResultsOf(e, env)` the right-hand side, and `IsMeaning` that the two are equal. A comprehension has a second
equation, `Passes`, for what is left to do after a number of items. The equations know sets of results and
environments where the evaluator has frames, scopes and values lent and owned; what a single operator, overload or
`new_struct` makes of given values is shared by the two (`Invocation`, `Values`, `Logic`), and is
compared with other definitions in `stdlib` and `structs`. The run solves the equations by
recursion: its `MCResults` and `MCPasses` are the right-hand sides.

`Grammar`: `Readings` is the set of trees the rules of the parser accept for a sequence of tokens, one
operator per rule method; the loops of `relation_rec` and `calc_rec` climb by the precedence their
predicates test. A literal token holds its characters, which `Literals` reads.

`Parser`: a source is such a tree, one kind per grammar alternative; `Visit` is the visitor,
which threads the helper's next id, the positions it keeps and the collected errors through the
parts in the order the code visits them. A position is the path of the source that has the token.
`Recognise` is ANTLR's run with the recursion listener, `VisitStart` the visit. A syntax error is
not modelled: it refuses the source whatever the visitor makes of the incomplete tree.

`LogicManager`: `terms` and `ops` are the two vectors of the manager, `nextId` the parser's
counter, `tree` what `expr()` returns.

## The runs

| Run | Question | Bounds, and why they are enough |
|---|---|---|
| `comprehension` | do expansion and loop keep the promise of the macro | ranges of up to three items, two errors, one value that is no bool: with three items there is one before, one at and one after the item that decides, in any order; two errors tell which one is kept |
| `scope` | are contexts environments with shadowing | two names, which a resolver may answer with a value, with none or with a function; one function with two bodies; three contexts alive, two children: a child, a grandchild and a sibling |
| `overloads` | does dispatch keep every call with its first claimant | signatures of up to one parameter (two with the target) over a concrete type, an opaque type and `Dyn`; three overloads, one more than the two that can conflict |
| `stdlib` | is the library consistent, do its functions and those for hosts agree, and what panics | the library itself; then every operator on every two of some sixty values of all types, every function on them as argument and as target, functions of two parameters on pairs, and host functions with parameters in every order on up to three arguments |
| `interchange` | what becomes of a value on its way in and out | scalars of every type and one duration on each side of each limit; every sequence of up to four calls on a map, with keys that collide in type, in text or not at all; everything in everything twice; `Value`s with functions, structs, optionals and opaque values in every container, shared and not |
| `structs` | is an instance given values over defaults | three fields, two types, every order of declarations |
| `evaluator` | does evaluation have a result the expression means | programs that nest every operator with operands that succeed, fail, and are of the wrong type; comprehensions nested twice with names that hide one another; structs with fields given, missing, twice, unknown or of another type, made here or lent by the host; four root contexts, in one of which a resolver answers with a function |
| `parser` | are tokens read in the one way that they spell, and does an expression say what its source says, with ids that lead back to it | every kind of source over parts that are good or at fault, and every kind inside every other; literals of every prefix, quote and escape; chains of up to four terms; limits that nothing, one level and everything here keeps to |
| `logic_manager` | is balancing invisible | up to six terms, which gives trees with both odd and even splits of height three |

Two bounds are in the modules themselves, where a recursion over data has to end: `MaxNesting` (8) of
`Values` is the depth to which values are compared and copied, `MaxDepth` (12) of `Expressions` the
depth to which expressions are nested. Both are above the depth of anything in the runs;
`ProgramsAssumption`, `RequestsAssumption`, `DataAssumption` and `ValuesAssumption`, which TLC evaluates, fail
for a program, an operand, data or a value that is deeper.

The widths of `stdlib` keep the relations of the true ones. `i64` has five bits (`IntMax` 15), so
that every pair of limits, and one beyond each, is among the values. A double is a whole number of
halves with two significant bits, against 53 of 64: integers near the limits are rounded, to both
sides, and `i64::MAX` is rounded to a power of two, as it is in `f64`. A second has 1000
nanoseconds, a minute two seconds and so on, a year three days in two months; `NanosMax` (30000)
ends between whole seconds and below `DurationMax`, as `i64` nanoseconds do below the range of chrono,
and CEL's times are within chrono's.

Three runs look for a violation of something a comment or an assertion of the code says:

* `structs_documented`: `new_struct` makes instances that lack declared fields, and
  does not check the type of a value given for a field with a default. (A field declared again by
  `add_field` also keeps a default of another type.)
* `stdlib_durations`: `format_duration` is documented as a port of Go's `Duration.String()`, of the form
  `72h3m0.5s`, but writes a negative duration as the `u64` its `i64` of nanoseconds becomes, behind a
  minus: minus two minutes are some five million hours. (Only negative durations violate
  `TextsDenoteDurations`: for the others, `DurationsReadBack` of `stdlib` says the same.)
* `parser_signs`: behind an even number of `!` or `-` the member is visited once in vain and then
  wrapped in one operator, so that `!!x` means `!x`.

Passing properties state further behaviour that a reader may not expect, each exactly:

* `DurationsReadBack`: durations that are not negative read back once the micro sign that
  `format_duration` writes is a `u`: `parse_duration` does not know the sign. Fractions may lose a nanosecond. The
  parser also ignores text after the terms and takes a sign before each number.
* `OperandsReachParameters`: a parameter without an argument is an error. The comment on
  `arg_value_from_context` (`magic.rs:255`) says that it "will result in a panic".
* `PanicsAreKnown`: optional operations on what is no optional, moving a timestamp beyond chrono's
  range with the operators of the library, and, where overflow is checked, `-i64::MIN` and the
  text of a very long duration panic; nothing else does. The `expect` in the optional operations
  (`optional.rs:136`) is reached because any type can be assigned to the optional type, whose parameter is `Dyn`.
* `SidesAgree`: `OnlyByLibrary`, `OnlyByHost` and `Otherwise` of `Calling` list every way in which a
  function for hosts differs from the library's of the same name, and the operators of `Value` from those of `Val`.
  Among them: `int(18446744073709551615u)` wraps around in the library and is an error in the function for hosts;
  equal structs are equal as `Val`s only, equal optionals as `Value`s only, and so are lists and maps
  that hold any; `getHours` of the functions for hosts is cut to 32 bits. Two differences contradict
  `functions.rs` itself: `size` lists `Value::Bytes` as supported (line 67) and refuses it, and `getHours`,
  `getMinutes`, `getSeconds` and `getMilliseconds` refuse a timestamp with "expected timestamp or duration".
* `OrderPicksVerdict`: the order of a map decides the answer of a macro when several items settle it and
  one of them fails: `exists` over an error and a true item is the error or true, by which comes first.
* `StopsWhenSettled`: the loop takes one item more than it needs, which is lost.
* `ImplementsMeaning`: a field of a struct literal that is marked `?` is treated like any other; an
  optional lent to a field of that type, or its default, is stored without its wrapping.
* `ArrivesAsMeant`: a value after a value is stored under the same key again; a duration without a
  number of nanoseconds is cut to seconds.
* `ReadsBack`: binding a value that holds a function panics; a struct comes back with the
  optionals in it replaced by their contents.
* `ExportIsOrderFree`: keys such as `1` and `"1"` collide in JSON, and the order of a hash map decides
  which value is left.
* `RefusedForFaults` and `SaysWhatIsWritten` (operators `Escaped`, `Quoted`, `Raw` and `ParseBytes` of
  `Literals`): an escaped quotation mark inside the other quotation marks keeps its backslash; a
  lone quotation mark within triple quotes is refused or lost; raw strings that end in a backslash, and bytes that are raw or
  triple-quoted, are misread; bytes know numeric escapes only; `\X41` and `-0x1` are tokens but refused;
  a leading dot is dropped from an identifier and kept on a call or a message.

The properties, by the hazard they are for:

* *Absorbed errors and early ends.* `ImplementsPromise`, `AccuSumsUp`, `StopsWhenSettled` and
  `OrderPicksVerdict` of `Comprehension`; `ImplementsMeaning` of `Evaluator`; `EvaluatesUpToDecision` and
  `RegroupingKeepsAnswers` of `LogicManager`. `Meaning` allows a value to be copied at any
  place and any of several errors to come out: which error survives, and where
  an optional is unwrapped by a copy, is pinned by the others and by `ReadsBack`, as far as it is.
* *Scopes.* `Isolation`, `ImplementsEnvironment`, which covers functions;
  `AsksOnlyReferences` says that what evaluation looks up is in `references()`, which may hold more: the
  variables of macros are in it, as a test of `lib.rs` expects.
* *Dispatch.* `OverloadsDiffer`, `DispatchIsStable`, `ImplementsClaims`; `RegistersOnce` and
  `EveryOverloadReachable` for the library.
* *Calls.* `OperandsReachParameters`, `PanicsAreKnown`, `SidesAgree`, `DurationsReadBack`,
  `TextsDenoteDurations`.
* *Values in and out.* `ArrivesAsMeant`, `ReadsBack`, `ExportIsOrderFree`, `ExportedOrRefused`.
* *Structs.* `InstanceIsProvidedOverDefaults`, `ErrorsHaveReasons`.
* *The parser.* `ReadsTheTokens`: a tree spelled with the parentheses it needs is the only reading of its
  tokens, and one that lacks some is read as another tree. `IdsLead`, `RefusedForFaults` and `SaysWhatIsWritten`; the grouping of chains, which
  `SaysWhatIsWritten` leaves open, is what `ReadsAsWritten` and the other properties of
  `LogicManager` are about.
* *Termination.* `Terminates` of `Comprehension` and of `Evaluator`.

### Fairness

`Comprehension` and `Evaluator` are checked for termination under weak fairness of their whole
next-state relation. `resolve_val` is a synchronous function: it never waits for anything, so the
thread that called it takes its next step as long as there is one. Nothing is assumed about which
step, so an evaluation that could go round for ever would be found. The other modules
have no liveness: their actions are calls a program may or may not make.

`CHECK_DEADLOCK FALSE` is set where the modelled function returns and nothing is left to do:
`comprehension`, the `evaluator` run, the `stdlib` runs (one request is made when the library is
complete), `parser` and `logic_manager`.

## What is proved

`ComprehensionProofs` proves, from the assumptions of `Comprehension` only (`MaxLen` is a natural
number; no member of `NonBools` is a bool; the errors are any set), for ranges of any length:

* `Invariance`, `TypeCorrect`: the inductive invariant `Inv` and with it `TypeOK`;
* `SummaryCorrect`: `AccuSumsUp`, the accumulator is the macro's summary of the items that had the loop step;
* `StopsEarly`: `StopsWhenSettled`, predicates are evaluated up to the first item that settles the macro and no
  further, and one item more is taken, and lost, when the condition ends the loop;
* `Implements`: every behaviour of the loop implements `MacroPromise`;
* `OrderOnlyPicks`: `OrderPicksVerdict`, the order of the items picks which of the settling items gives the
  answer, if there are any, and changes nothing otherwise.

The inductive invariant is `Inv`: `TypeOK`, `AccuSumsUp`, and `Lookahead`, which says that `taken` is `idx` but for
the item lost when the condition ends the loop. The first two are not inductive alone:
`TypeOK` says that a count is at most the items taken and that a list holds positions already
taken, which only follows with what `AccuSumsUp` says of the phase; and `AccuSumsUp` is stronger
than the question asked at the end of the loop: it must hold between any two steps. Its clauses
about errors and decisions (no item stepped over failed; only the last one can have settled the
macro) are what lets `Take` conclude, from the loop condition being true, that nothing is settled
yet. `InitInv`, then one lemma per group of actions (`TakeInv`, `StepInv`, `StepsKeepInv`) show
that it is kept; the lemmas in front say what the connectives do to each kind of predicate.
`StopsEarly` is kept by every step from `Inv`. For `Implements`, the step that sets `out` is the
promise's `Answer` and every other step a stutter; the lemmas show that the answer returned is the
one the first settling item gives. `OrderOnlyPicks` needs one invariant more, `Answered`: a finished
loop has an answer the promise gives for its range. That the answer is a settling item's verdict, and that each of
these is promised for the range with that item in front, is then a matter of the promise alone
(`PromisePicksVerdict`).

`ScopeProofs` proves, for trees of contexts of any depth and width and any names, values and
resolvers (assuming that `Absent` is not what a resolver's answer comes to):

* `TypeCorrect`: `TypeOK`, with its last clause that every beginning of a live path is live;
* `Isolated`: `Isolation`;
* `ChainsImplementCopies`: every behaviour implements `Environment`, variables, resolvers and functions alike.

`TypeOK` is inductive, and its last clause carries the argument. If no scope borrows `p`, no live
path goes through `p` (`Unborrowed`: the next context on it would be a child of `p`). All setters
and `Drop` act on such a `p`, so every other context keeps its chain and with it its view
(`SameChainSameView`, `OthersUntouched`, `StepIsSeenByOne`); `Isolation` is read
off that. For the refinement, `InnermostFirst` takes the innermost context off a chain and
`ViewFromParent` tells a view from the parent's view; then each action is matched with its
counterpart, `AddFunction` on an inner scope with none.

About `Overloads`, `CallingProofs` proves, for any function names, ids and types and calls of any length:

* `TypeCorrect`, `NoDuplicates`: `TypeOK` and `OverloadsDiffer`, which are inductive together
  (`RegistryInv`): what `IsPresent` refuses is what would break the second;
* `DispatchStable`: `DispatchIsStable`;
* `ListImplementsClaims`: every behaviour implements `OverloadClaims`.

Both of the last rest on `FirstOfLonger`: an overload at the end of a list answers only for the
calls the list has no answer to. Nothing in them depends on which types are assignable to which:
`Assignable` is never expanded. What keeps dispatch stable is that overloads are appended and that
the search starts at the front.

`StructsProofs` proves, for definitions with any fields, types and defaults:

* `AnswersStayCurrent`: the inductive invariant `IInv`;
* `InstancesHoldWhatIsProvided`: `InstanceIsProvidedOverDefaults`;
* `RefusalsAreJustified`: `ErrorsHaveReasons`, with the first fault in field order as the one complained of.

The only assumption is that the fields come in an order. `IInv` says that defaults are declared, that
only fields that have a place in the order are provided, and that `result` is what the definition makes
of `provided`. The last is
what the two properties lack: they speak of a result in a later state, and it stays true because
the definition cannot change once it is `built`. The work is in `MadeSoFar`, an induction over the rounds of
the second loop: after each round there is the instance so far, or the complaint about the first
fault.

`LogicManagerProofs` proves, for chains of any length over any terms that are results:

* `TypeCorrect`: `TypeOK`;
* `NothingIsLost`: `ReadsAsWritten`, no term is left in the vector or taken out twice;
* `DepthIsLogarithmic`: `IsBalanced`;
* `RegroupingIsInvisible`: `RegroupingKeepsAnswers`;
* `EvaluationStopsWhereWritten`: `EvaluatesUpToDecision`.

`IInv` is `TypeOK` and `TreeIsBalanced`: the tree is the one that `balanced_tree` makes of the operators. What
remains is what that recursion makes. `BalancedRecursion` shows that it has a solution,
`GroupIsNode` that the group of the terms `a..b` is a node of two smaller groups around the middle
operator, and `GroupInduction` that what holds of a term, and of a group when it holds of its sides,
holds of every group. `GroupReads`, `GroupHeights`, `GroupValues` and `GroupEvaluates` are
four uses of it; the third rests on `ConnectOfResults`, which says what `||` and `&&` do to two
results, absorbed errors included.

`EvaluatorProofs` proves, for any set of programs, root contexts, overloads, structs and host functions:

* `Invariance`: the inductive invariant `IInv`;
* `TypeCorrect`: `TypeOK`, the stack is a path down the program, no expression has an operand evaluated
  it has no use for, and there is a result exactly when the path is gone;
* `LookupsAreReferences`: `AsksOnlyReferences`, whoever defines what `references()` names is asked for nothing else;
* `EvaluationMeans`: `ImplementsMeaning`, evaluation comes to one of the results the expression has.

`ProgramsAssumption` says what the parser makes: operands are sequences, a comprehension's accumulator
is `@result`, and a name that begins with `@` occurs inside the scope of a comprehension only (no
source can write one). `DeclsAssumption` says that an overload that is modelled is declared with the
number of arguments it has. TLC evaluates both on the programs of the run. Nothing is assumed of
host functions or of the contexts.

`AsksOnlyReferences` is not inductive: a lookup of `@result` in the root context would break it, and that
none happens is a matter of the scopes below. `IInv` therefore adds to the room on the stack (`HasRoom`)
that a scope that is open binds the accumulator (`IsFold`), and that every frame without an
open scope below it is for an expression outside the program's comprehensions (`IsScoped`).
`ScopesFind` concludes that the accumulator is always found on the way down. `HasRoom` also gives
that overloads get as many arguments as they take, which `Dispatches` needs to know that they answer.
`Pushed`, `Replaced`, `Returned` and `StartedAbove` show that the four things a step
may do to the stack keep it a stack; then there is one lemma for every action, which only has to show which
of the four it does and with what.

`EvaluationMeans` has one hypothesis, `Means`: that `Results` and `Passes` satisfy the equations of `Meaning` for the
subexpressions of the programs. The equations have a solution, since an expression is a finite tree: those of
the operands determine those of the expression, and those of a comprehension after `taken + 1` items those after
`taken`, up to the last. In the run the hypothesis holds by the definition of `MCResults`. That the equations
have a solution for any expression is not proved: it is an induction over data with an operator as its result.

`ImplementsMeaning` speaks of the end of evaluation only. `MInv` says of every state how far it has come (`IsMeant`): in
the environment that the scopes up to a frame and the root context make (`EnvAt`), every result in the frame is one of its
operand's (`Came`, with the copy it may be turned into, which differs from it for an optional); the
frame has had a reason to go on after each of them (`Went`: no error came, or it was none that counts; the
function of the qualified name was not found); and what is left to do of a comprehension leads to results of
it only (`FoldMeant`, one clause for each phase). `MeantPushed`, `MeantReplaced` and `MeantReturned` carry that
through the three things a step does to the stack, `BoundEnv` says what binding a variable in the innermost scope does to
the environment, and again there is one lemma for every action. So what the theorem shows is that scopes are
opened, rebound and dropped where they should be, that no value is seen through a wrong one, that
short circuits, early returns and copies come to nothing the equations do not allow, for operands that may
have any results.

`CallingProofs` proves, for any requests, any signatures of hosts' own functions and any circumstances:

* `Invariance`: the inductive invariant `IInv`;
* `ParametersReceiveOperands`: `OperandsReachParameters`;
* `EveryRegistrationSucceeds`: the invariant `IsRegistered`, the environment declares exactly the rows of
  the library registered so far;
* `RegistrationsAreUnique`: `RegistersOnce`;
* `OverloadsAreReached`: `EveryOverloadReachable`;
* `AnswersInvariance`: the inductive invariant `AInv`;
* `PanicsAreAllKnown`: `PanicsAreKnown`;
* `TheSidesAgree`: `SidesAgree`;
* `WrittenDurationsReadBack`: `DurationsReadBack`.

`LibraryAssumption` says that hosts declare the library's names and types, whatever else they declare,
that `dyn` is none of the types values have, and that `optional` is the only opaque type with a parameter, which is `dyn`.
`SignaturesAssumption` says that a host's function has a sequence of parameters and is not named like an
operator. `RequestsAssumption` says that a call has at most one target, that an operator has the
operands it needs, and that an operand is a value of one of the types of `Value` with contents of that
type, everything inside it included (`IsOperand`), nested less deep than `MaxNesting` by the two
levels a host's function may put around it. `WidthsAssumption` says how the limits of the numbers lie to
one another, in `i64`, `u64`, `f64` and chrono as in the small widths of the run. `UnitsAssumption` says that a second is a power of ten
of nanoseconds with a number of digits that is a multiple of three, and that an hour fits into an `i64` of nanoseconds. TLC evaluates them all on the requests and the
widths of the run.

`OperandsReachParameters` speaks of the parameters made so far and of nothing that says where the next one comes from. `IInv`
adds `AsksOnce`, that a host function runs only for a request that was made, and `TakesInOrder`,
that `arg_idx` is the number of parameters so far that were for an argument (`TakingCounts`). `ExtractInv` then
shows, one kind of parameter at a time (`ParameterDelivered`), that the code's index finds the operand the
property counts to. That a converted operand passes the check of its type exactly if the operand
itself does is `FromValKeepsType`. `FromVal`, `Clone` and `IntoVal` are recursive functions over the
parts of a value and with that the instances `Receiving`, `Copying` and `Binding` of `Recursion`, whose lemma `Unfolding`
gives the equation each is defined by and `HoldsOfParts` the induction.

The three about the library rest on `LibraryRows`. Two rows of one function have different ids, and
in the same call style they differ in their first types, of which at least one is not `dyn`
(`Apart`). Comparing all pairs of rows at once is too much for a prover. So `IsClean` is
shown for each of the ten parts, and `JoinedIsClean` joins two parts whose functions have different names, or share only
names of which the rows are compared one by one (`SharedNames`). From it, by what `AddOverload`
refuses, `RegisterKeeps` shows that no registration is refused, and `TakersAreOne` that among the overloads of a
function and call style one at most takes a given concrete first type. The first that a search finds
is then the row asked for.

`PanicsAreKnown`, `SidesAgree` and `DurationsReadBack` speak of the answers, of which `IInv` says nothing. `AInv` adds
`AnswersAsAsked`: the library's answer is what the call is dispatched to, or what the operator makes of its operands,
and the host's is the body of its function, run on the parameters once it has them all. With it the three are
statements about what is computed of given operands:

* `Answers` finds out what a dispatched call computes. By `CallsAreAnswered` the
  overload is a row of the library; the rows of each part are gone through (`BytesAnswers` to
  `TimestampAnswers`), and nine families of calls remain (`SizeCall`, `NumberCall`, ..., `OptionalCall`).
* `PanicsKnown`: `FormatPanics` says which durations cannot be written; that no other text, number or sum panics
  is shown operation by operation (`TextsPanic`, `ComputedPanics`). A host's function must not panic
  when its value is made a `Val` again: what it receives has no function in it and leaves room for what the function puts
  around it (`ParametersReceived`), every body gives back such values or parts of them (`BodiesGive`; for `max` and `min` by
  induction on the items, `Choosing`), and those convert (`OperandsConvert`).
* `SidesAgree` for an operator is `OperatorsAgree`, from the agreement of `Integers` with Rust's checked
  operations on all pairs of types (`ComputedAgree`), of the orders (`ComparedAgree`), and of the equalities
  (`EqualitiesAgree`, by induction on the parts: off structs and optionals the two recursions have the same step).
  For a function it is shown family by family (`SizesAgree` to `OptionalsAgree`): `OneParameter` and
  `TwoParameters` read off `OperandsReachParameters` what the function of the host was run on, `CalledOperands` says that an operand that
  is its own copy is received as it is, and `PlainReturns` and `ReturnedOptional` that the answer comes back unchanged.

* `ReadBack`: powers of ten add up (`TensAdd`), so that a fraction without its trailing zeros is read as what it was, or one less
  (`FractionsReadBack`; what `Max` chooses exists by `ZerosExist`). The parser's rounds are an instance of
  `Recursion`, and read a text of terms to its end and to their sum (`TermsAreRead`, by induction on the rounds). A
  clock's hours, minutes and rest make up the number it was written of (`ClockParts`, `ClockReads`). `StaysAsSpelt` and
  `TermsRespelled` say that spelling the micro sign as a `u` changes nothing else.

The proof of `SidesAgree` found the property too strong: it excepted the equality of structs and
optionals, but not of what holds them, and the run held no lists of them. It now excepts both, and the run has such lists.

`InterchangeProofs` proves, for data of any shape and size, any values and any context:

* `HeldIsTraced`: the inductive invariant `IInv`;
* `DataArrives`: `ArrivesAsMeant`;
* `VariablesReadBack`: `ReadsBack`;
* `ExportsAgree`, `ExportsAreMade`: `ExportIsOrderFree` and `ExportedOrRefused`.

What is assumed: different timestamps and different numbers have different texts, and no number is written
`true` or `false` (`TextsAssumption`, `NumberTextsAssumption`); a second has nanoseconds (`TimeAssumption`);
data makes the calls of `serde`, in each the arguments it has, and no host gives a type of its own the marked
name of a wrapper (`IsWellMade`); a value is one of the kinds there are, with keys of the four types
and no function among what a struct holds (`IsWellFormed`). Both are nested no deeper than `MaxNesting`
(`DataAssumption`, `ValuesAssumption`), which is the bound of the model and none of the code. TLC
evaluates all of them on the data and the values of the run.

The steps of this machine are few and the data is what is hard. `IInv` says, for every stage, which
conversion of the source is held; the properties are then statements about the conversions alone. Each conversion is a
recursive function over the parts of its argument, given by what it makes of one thing when what it makes of
the parts is known (`CloneUsing`, `IntoUsing`, `FromUsing`, `ExportsUsing`, `KeyUsing`, `SerializedUsing`, and on the side of
the meaning `MeantUsing`, `BareUsing`, `InsideUsing`). Each is therefore an instance of `Recursion`, whose lemma
`Unfolding` gives the defining equation and `HoldsOfParts` the induction. What is shown by it:

* `CopiesAreRight`, `ReadingsAreRight`, `BindingsAreRight`, and from them `BoundIsRead`: a copy holds no optional and
  is the value itself if that holds none; a value without functions becomes a `Val`, and reads back as
  itself unless a struct in it holds an optional. All three rebuild a value out of its parts (`RebuiltKeeps`).
* `KeysAreRight`, `SerializationsAreRight`: a key is what its bare data says, or is none; data is serialized as what
  it means if every map in it is sound, and refused otherwise. The calls on a map are followed one by one by
  `BuiltEntries`: after each, the builder holds the entries up to there, with the last value of each key.
  For durations it has to be shown that the two fields add up (`DurationsSerialized`).
* `MeaningsAreRight`: what data means is a value of the kinds that `ReadsBack` is about.
* `ExportsAreRight`: all exports of a value are the same one, or all fail, unless keys collide in a map
  within reach. `TextsTell` shows that two keys of one text that are not the same are read alike.

Only model-checked are, and why:

* `Terminates` of `Comprehension` and `Evaluator`: liveness under fairness is out of the prover's reach.
* Those of `Parser`: sources are read and visited by `RECURSIVE` operators (`Readings`, the visitor, which
  threads ids, positions and errors through every part of the tree).

## What is not modelled

* The generated lexer, and of the generated parser the ANTLR runtime: its tables, prediction and
  recovery. A source with a syntax error is refused whatever the visitor makes of what is
  recovered, so only that it is refused would be to see.
* That a list or a map shared between two values is equal to itself whatever it holds: comparing two
  `Value`s starts with the pointers of the `Arc`s, so that a shared list of NaN equals itself and
  two lists of NaN built apart do not. `ValueEqualsUsing` compares values built apart.
* The exponents that nom's parser of doubles also reads in a duration, which only write a number otherwise,
  and its infinities and NaN. The range of the nanoseconds of a serialized duration
  as an `i32`, which the wrapper's durations keep to.
* The words of errors, and which of the errors collected comes first.
* The results of arithmetic on doubles, negative zero, and doubles that are no multiple of a half; time zones
  other than that of a timestamp itself. `max` and `min` are modelled, without a property of
  their own beyond what `OperandsReachParameters` says of their arguments.
* In `Evaluator`, strings are opaque except for equality and concatenation; times, doubles, unsigned
  integers (but as an index) and the limits of `i64` are left to `Calling`.
* `Program` and the other wrappers of `lib.rs`, which hold an expression and pass calls on.
* The extractor `Identifier`, which no longer extracts anything, and resolving an `Expression` inside a
  host function, which is an evaluation of its own.

## Plan

1. **Comprehension** and its promise; **Scope**; **Overloads**, **Stdlib**; **Structs**;
   **Evaluator** over **Values**, **Expressions** and **Meaning**; **LogicManager**; **Parser**: done.
2. **Grammar**, **Literals** and **Spelling** before the parser; **Serializer**, **Conversions** and
   **Interchange**; **Numbers**, **Durations**, **Operations** and **Calling** after the library: done.
3. Struct literals and all operators in `Evaluator`, over `Structs`: done. Left: host functions as frames
   of `Evaluator`; the lexer's choice of tokens.
4. Theorems: `Comprehension`, `Scope`, `Overloads`, `Structs`, `LogicManager`, `Evaluator` (with
   `ImplementsMeaning`), `Interchange` and `Calling`: done. Left: `Parser`, for which the
   visitor would have to be written as a recursive function over the parts of a source.
