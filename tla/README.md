# TLA+ verification of funman's numeric core

This directory models the part of funman that ships in `src/`:

- `representation/interval.py`, the Interval type;
- `server/query.py`, with the request, work unit, progress and result types;
- `translate/encoded.py`, the pass-through encoder.

It also models, from `spec.md`, the neighbours those files call but that are not under `src/`. These are the comparator `math_utils` and the scenario runner that writes a `FunmanResults`. Every such definition is marked `spec_modelled` in `PROJECT.json`.

## 1. Inventory

| Component | Source | State | Operations | Interacts with |
|---|---|---|---|---|
| BoundedComparator | `funman.utils.math_utils` (not in src/) | none | `lt lte gt gte plus div` | used by every Interval method |
| Interval | `interval.py` | `lb, ub, closed_upper_bound`, plus a lazily written `cached_width` | `from_value`, validator `check_interval`, `disjoint`, `is_point`, `width`, `is_unbound`, `normalize`, `__lt__`, `__eq__`, `__hash__`, `meets`, `finite`, `contains`, `intersects`, `intersection`, `subtract`, `midpoint`, `union`, `contains_value` | called by the external box search |
| ParameterSpace / Point | not in src/ | labelled points and boxes | `labeled_volume`, `points`, `explain` | read by FunmanResults |
| ResultAggregator `FunmanResults` | `query.py:133-428` | `_finalized, done, error, parameter_space, progress{progress, coverage_of_search_space, coverage_of_representable_space}` | `is_final`, `update_parameter_space`, `finalize_result`, `finalize_result_as_error`, `symbol_values`, `_symbols`, `_split_symbol`, `symbol_timeseries`, `dataframe`, `plot*`, `explain` | written by the scenario runner threads; read by status pollers |
| ScenarioDispatcher `FunmanWorkUnit.to_scenario` | `query.py:51-130` | none (reads the request) | `to_scenario` | called at request intake and by `FunmanResults._scenario` |
| Scenario runner | server worker (not in src/) | the thread running one request | update* then finalize, or finalize-as-error on exception | the only writer of FunmanResults |
| EncodedEncoder | `encoded.py` | none | `encode_model`, `encode_model_timed` | called by the search for already-encoded models |

**What is hard.**

- The aggregator is shared between the thread that runs the search and the threads that poll it. Every field write in it is a separate Python statement, and there is no lock in the class.
- Spec section 5 asks that readers never see a torn state and that concurrent writers be serialized.
- `finalize_result` is a one-shot transition with an error path.
- The Interval algebra has open and closed upper edges and symbolic sentinels. It must never misclassify a region.

**What makes each component correct.**

- Interval: every operation agrees with the sets of reals the intervals denote. This covers union, intersection, subtraction, containment, disjointness, overlap and the midpoint.
- FunmanResults:
  - at most one terminal transition;
  - every request eventually ends `done`;
  - between calls, the progress fields belong to the stored parameter space;
  - no torn reads;
  - a done result keeps progress 1.0.
- Dispatcher: Consistency exactly when no parameter is to be synthesized, with the parameters kept in order and class.
- Symbol extraction: the series holds exactly the requested variables, each value at its own timepoint, and never aborts.
- Interval width: the cached width is the width of the current bounds.

## 2. Modules and their correspondence to the code

**`Bounds`** (spec_modelled): `Lt`, `Lte`, `Gt`, `Gte`, and `Div`, which is `math_utils.div` for a positive divisor (a sentinel is returned unchanged).

- `NegInf` and `PosInf` are model values, so TLC refuses any arithmetic on a sentinel, as the contract does.
- Finite bounds are integers, standing for the exact decimals the code compares.

**`Interval`**: an interval is the record `[lb, ub, closed]`. Each method is an operator named after it.

- `MkInterval` is construction with the `check_interval` validator.
- Results the code returns as Python lists are sequences:
  - `Union` returns one or two intervals;
  - `Intersection` returns `<<lb, ub>>` or `<<>>`, since the code returns the float pair and not an Interval.
- `Subtract` returns a set with zero or one element; the empty set stands for `None`.
- `Width` is `ub - lb`, `PosInf` when either end is a sentinel (Decimal infinity); `Normalize(a, f)` is `normalize`, including its use of `lb` for both bounds.
- `Midpoint` returns twice the midpoint, so that the value stays an integer, together with a flag for the NameError.
- Operators named `...Strict`, `...NoEdgeGuard`, `...AlwaysMerge` or `...Dropped` are mutants: plausible bugs used to show that each property can fail.

**`IntervalChecks`**: two intervals `a` and `b`. Both start as `Interval()`, which is `[NegInf, PosInf)`, and the caller may replace either with any well-formed interval. `Mem(i, s)` is the reference semantics: the real `s/2` lies in `i`. With integer bounds, the integers and half-integers around each value decide every set question, so `Samples` is exhaustive for the bounds in `Vals`.

**`IntervalCache`**: one Interval object `iv` and its `cached_width` field `cached` (`None` until the first `width()`). `Construct` makes a new object with no cache; `WidthCall` is `width()` (lines 52-72: the cache is filled once and never reset; the `normalize` division of the returned value is left out). No code under `src/` assigns `lb` or `ub` after construction, so the bounds of an object never change and the cache cannot go stale.

**`SymbolSeries`**: the symbol functions of `FunmanResults` as operators. A symbol name is the sequence of its underscore-free segments (`"timer_t_3"` is `<<"timer","t","3">>`), so `rsplit("_", 1)` is `Front`/`Last` (`SplitSymbol`) and the substring test `f"{v}_" in var` is `Matches`, decided by segment equality and the constant `EndsIn` (which segment ends with which). `Symbols` is `_symbols`, `SymbolValues` is `symbol_values` when it returns. The constant `Huge` is a value on which `float()` raises `OverflowError`. The handler at `query.py:342-343` calls `l.warning(e)`, but no `l` is defined or imported in `query.py` (it exists only in `interval.py`), so the handler raises `NameError` and the extraction aborts: `ValuesRaise` is that condition. `MaxDigit` is the inner `max(... + [0])`. `SymbolTimeseries` is `symbol_timeseries`: `Raised("NameError")` when `symbol_values` raises (it is called first), `Raised("ValueError")` for the outer `max()` of an empty list, the index and the series otherwise.

**`SymbolSeriesChecks`**: the harness. The point (symbol name -> value) gains and loses assignments over six candidate symbols (`S_0`, `S_2`, `RS_1`, `timer_t_1`, `S_rate`, `I_0`), and the requested variables over `S`, `I`, `timer_t`, so every point and request over them is reached (32768 states). These cover a name that is a suffix of another (`S`/`RS`), an underscore inside a name, a non-digit timepoint, a gap in the index and an overflowing value.

**`ScenarioDispatch`**: `FunmanWorkUnit.to_scenario` as the operator `ToScenario`: the default `QueryTrue`, the model parameters then the structure parameters (`ToModelParameters`, `ToStructureParameters`), the consistency test of line 111 and the `EnsembleModel` exception. **`ScenarioDispatchChecks`** builds every request with up to `MaxParams` model and structure parameters, one field at a time, and checks `ToScenario(request, FALSE)`: a `FunmanWorkUnit.model` cannot be an `EnsembleModel` (its type annotation, lines 61-68, excludes it), so that branch is unreachable from a work unit.

**`ResultsAtomic`**: the abstract specification of the aggregator (spec 4.4 and 5). Its variables are the fields only, and each call is one step: `Update(p)`, `Finalize(r)` (with `r = None` only marking the result final) and `FinalizeError`.

**`FunmanResults`**: the variables are the aggregator's fields, plus three things the code does not store as fields:

- per-thread `pc`, `arg`, `ret` and `updates`: the thread's place in a call, its argument, the return point of `update_parameter_space`, and its report count;
- the callers' lock `holder`;
- a history counter `terminals`.

There is one action per statement that writes the aggregator. The statements that only compute locals are merged into the preceding write.

| Action | Code |
|---|---|
| `CallUpdate` | `query.py:159` and the ratio computation, 161-177 |
| `SetProgress`, `SetSearchCoverage`, `SetReprCoverage` | 179, 180, 181 |
| `CallFinalize` | the guard at 191 |
| `MarkFinalized` | 193 |
| `ExtractSpace` | 194-203 |
| `SetDone`, `SetFinalProgress` | 204, 205 |
| `CallFinalizeError`, `MarkFinalizedError`, `SetError`, `SetDoneError`, `SetFinalProgressError` | 210-215 |

The runner's protocol (`Step`) is spec_modelled:

- report progress up to `MaxUpdates` times;
- call `finalize_result(r)` with `r` a parameter space or `None`;
- on any exception, call `finalize_result_as_error`;
- if that raises, stop.

Coverage ratios are fixed-point: `Unit` stands for 1.0 and the division is `\div`. The zero-volume guards are kept.

## 3. Runs

The registered runs (`PROJECT.json`, at most twelve):

| Run | Checks | Result |
|---|---|---|
| `interval_algebra` (IntervalPass.cfg, `Vals = 0..2`, 529 states) | `IntersectsExact`, `UnionSound`, `ContainsComplete`, `DisjointComplete` | pass |
| `interval_union_complete` | `UnionComplete` | violated: `[NegInf,0) ∪ [NegInf,PosInf)` gives `[NegInf,0)` |
| `interval_intersection_contained` | `IntersectionOfContained` (spec §8) | violated: `[NegInf,PosInf) ∩ [0,0]` gives `[0, PosInf]` |
| `interval_subtract_within_self` | `SubtractWithinSelf` (docstring) | violated: `[NegInf,0) − [1,PosInf)` gives `[NegInf,1)` |
| `interval_normalize` (`Vals = {0,2,4}`) | `NormalizeScales` (spec §4.2) | violated: `normalize` of `[NegInf,PosInf)` is `[NegInf,NegInf]` |
| `symbol_series` (32768 states) | `SeriesFaithful` | pass |
| `symbol_only_requested` | `SeriesOnlyRequested` (spec §6) | violated: a request for `S` extracts `RS_1` under the key `RS` |
| `symbol_extraction_total` | `ExtractionTotal` (spec §7) | violated: `S` requested, the point has no `S_*` symbol, `max([])` raises (the NameError below breaks it too; TLC reports the shorter trace) |
| `dispatch_parameters` (`MaxParams = 2`, 1452 states) | `ScenarioParameters` | pass |
| `results_serialized` (2 threads, lock, 2 spaces, `MaxUpdates = 2`, 2550 states) | `QuiescentConsistent`, `AtMostOneTerminal`, `AtomicSpec`, `VerdictStable` (an action property) | pass |
| `results_torn_snapshot` (1 thread) | `SnapshotConsistent` (spec §5) | violated at the first write of an update |
| `results_failed_finalize` (1 thread, fair) | `EventuallyDone` (spec §7) | violated: `finalize_result(None)` leaves `_finalized` set and `done` false forever |

Further violation checks kept beside them (run with `tlc -config <cfg> <module>`):

| cfg (module) | Checks | Result |
|---|---|---|
| `Interval_DisjointSound.cfg` (MCIntervalChecks) | `DisjointSound` | violated: `[NegInf,0]` and `[0,PosInf)` are "disjoint" |
| `Interval_MidpointInside.cfg` (MCIntervalChecks) | `MidpointInside` (spec §8) | violated: NameError on `[NegInf,0)` |
| `Symbol_OverflowRecovered.cfg` (MCSymbolSeries) | `OverflowRecovered` (spec §7) | violated: `S_0` overflows, `S` is requested, the handler's `l.warning` raises NameError and no series is returned |
| `Dispatch_DispatchRule.cfg` (MCScenarioDispatch) | `DispatchRule` (spec §4.5) | violated: no model parameters, one structure parameter labelled ALL, yet Consistency |
| `ResultsFinalizeRace.cfg` (MCFunmanResults, no lock) | `AtMostOneTerminal` | violated: both threads pass the `_finalized` check |
| `ResultsLostUpdate.cfg` (no lock) | `QuiescentConsistent` | violated: coverage of one space kept beside the other |
| `ResultsLateUpdate.cfg` (2 threads, lock) | `DoneMeansComplete` | violated: an update after finalize sets progress below 1.0 |

Every property of a passing run has a mutant in `PROJECT.json` (an operator defined just before the one it replaces) under which TLC finds it violated: for example `SplitSymbolFirst` (split at the first underscore) breaks `SeriesFaithful`, `ToStructureParametersAsModel` breaks `ScenarioParameters`, a dropped coverage write breaks `AtomicSpec`, and `CallFinalizeErrorUnguarded` (no `_finalized` check in `finalize_result_as_error`) turns a done success into an error and breaks `VerdictStable`.

**Refinement.** `FunmanResults` defines `Atomic == INSTANCE ResultsAtomic WITH ...` and `AtomicSpec == Atomic!Spec`. The mapping completes the lock holder's call: the abstract fields are the concrete ones with the writes the holder's call has still to make applied (`CompletedProgress`, `CompletedFinalized`, `CompletedDone`, `CompletedError`, `CompletedSpace`). The step that enters a call (`CallUpdate`, `CallFinalize`, `CallFinalizeError`) maps to the abstract call; every later write of that call is a stutter. This implements spec 5's demand on writers only: readers still see the torn states, which `results_torn_snapshot` shows. Without the lock no such mapping exists (`ResultsFinalizeRace.cfg`, `ResultsLostUpdate.cfg`).

**Bounds and why they suffice.**

- Intervals: three finite values and two sentinels produce 23 well-formed intervals, which include every relative position of two intervals. These are nested, overlapping, touching at an open or a closed edge, disjoint, equal, point intervals, and any of these with sentinel ends. For `normalize`, three even values keep `Div` by 2 exact.
- Symbols: each symbol family the code treats differently is present once (suffix-named variable, underscore in a name, non-digit timepoint, two timepoints with a gap, overflow); a third value or a seventh symbol adds no new branch. `SeriesFaithful` is about the states where the code returns, which are the points without an overflowing matched value.
- Dispatch: two parameters per list give order and a mix of labels in each list.
- Aggregator:
  - two threads are the smallest number that can interleave;
  - two parameter spaces with different coverage, one full and one half, make a stale field visible;
  - two updates per thread let an update follow a finalize by another thread.

Deadlock checking is off in the aggregator runs because every thread stops after its finalize call, which is the normal end of a request.

**Fairness** (`FairSpec`, used only for `EventuallyDone`): weak fairness per thread. None of the modelled statements blocks, so a thread that can take a step keeps being able to until it does. The `EventuallyDone` violation does not come from scheduling: it comes from the code's order of statements. The safety runs use `Spec`.

## 4. Proofs (checked by tlapm)

Six modules hold theorems. Every property of a passing run has a theorem; the run shows it on a small instance, the theorem for every value of the constants. The inductive strengthenings (`TerminalInductive`, `AtomicInductive`, `VerdictInductive`, `MaxClosed`) and the type invariants are lemmas of these proofs, not properties of the system: they are proved, and no run lists them.

`ResultsAtomic`:

- `ConsistentInvariant`: `Spec => []Consistent`. In the atomic-call specification the coverage fields are those of the stored space, progress equals the search coverage until done, an error result is done and a done result is finalized. `Consistent` is inductive as it stands; the proof has one step per abstract call.

`FunmanResultsProofs`:

- `TypeCorrect`: `Spec => []TypeInv`. `TypeInv` is `TypeOK` plus one fact: a thread computing coverage holds a ParameterSpace, never `None`. That fact is needed to type the coverage ratio. It rests on the lemma `CoverageType`.
- `TerminalInvariant`: `Serialize => (Spec => []TerminalInductive)`, and from it `TerminalOnce`: `Serialize => (Spec => []AtMostOneTerminal)`, for every set of threads, spaces, volumes and bounds. `AtMostOneTerminal` alone is not inductive. The strengthening `TerminalInductive` states three things:
  1. every thread inside a call holds the lock;
  2. a thread about to set `_finalized` saw it unset, and since it holds the lock nobody has set it since;
  3. `terminals` is 1 exactly when `_finalized` is set.

  The lemma `EnterAlone` turns (1) into the fact that a thread entering a call finds no other thread inside one. The step lemma `TerminalStep` has one step per action.

`FunmanResultsRefinement`:

- `AtomicInvariant`: `Serialize => (Spec => [](TypeInv /\ TerminalInductive /\ AtomicInductive))`. `AtomicInductive` ties each in-call program counter to the writes the call has made: for instance, a thread past `SetProgress` has written `progress.progress` for its argument, a thread past `MarkFinalized` has set `_finalized`. It is what makes the completion mapping agree with the abstract action at the entering step. The step lemma `AtomicStep` has one step per action; `OthersOut` says that while one thread holds the lock every other thread is idle or done.
- `Refinement`: `Serialize => (Spec => AtomicSpec)`. `AtomicInit` maps the initial state to `Atomic!Init`; `AtomicNext` shows that each action is `Atomic!Update(p)`, `Atomic!Finalize(r)`, `Atomic!FinalizeError` or leaves the mapped variables unchanged, with the finalize entries split on whether `_finalized` is already set (then the call raises and maps to a stutter).
- `QuiescentInvariant`: `Serialize => (Spec => []QuiescentConsistent)`, derived from the refinement rather than by a new induction. `Refinement` and `ResultsAtomic!ConsistentInvariant` give `[]Atomic!Consistent`; when no thread is inside a call the lock is free (`AtomicInductive`), so every `Completed*` field equals the concrete one and `Atomic!Consistent` is `QuiescentConsistent`.
- `VerdictInvariant` and `VerdictFixed`: the action property `VerdictStable`, `[][done => done' /\ finalized' /\ error' = error]_vars`, for serialized callers. The strengthening `VerdictInductive` says that a done result is finalized and that no thread between the `_finalized` check of `finalize_result_as_error` and its write of `error` finds the result done. The step lemma `VerdictStep` proves both the invariant and the action property, one step per action. Only `SetDone` and `SetDoneError` write `done`; `AtomicInductive` says their thread already set `_finalized`, and `DoneWriterAlone` (from `TerminalInductive`) says no other thread is inside a call then.

All `FunmanResults` proofs hold under `ResultsAssumption` (a non-empty thread set, `None` and `NoThread` distinct from spaces and threads, natural volumes and bound, `Unit > 0`).

`IntervalProofs` proves the four properties of `interval_algebra` for every set `Vals` of integer bounds:

- `IntersectsExactHolds`;
- `UnionSoundHolds`;
- `ContainsCompleteHolds`;
- `DisjointCompleteHolds`.

Each is `Spec => []P`, derived from `ChecksTypeCorrect` (every interval built is `WellFormed`) and a lemma about two arbitrary well-formed intervals. The reals are represented by `Samples`, the doubled integers `2v-1, 2v, 2v+1` around each bound. The argument in each direction names a witness sample:

- `NotDisjointOverlap`: the common point `2m`, where `m` is the higher lower bound.
- `LowerInOther` and `UpperInOther`: the point at the other interval's lower bound, or just below its upper bound.
- `HigherLowerIn`: the higher lower bound passes `contains_value`.
- `LowerContained` and `UpperContained`: for `contains`, a sample of `b` just outside `a` when a bound test fails.
- `MergedSound`: a point of the merged union `[lo.lb, hi.ub)` beyond `lo` lies in `hi`. When the merged interval is a closed point, `lo` is that point.

The assumption `SamplesAssumption == Vals # {}` (in `IntervalChecks`, evaluated by every run of `MCIntervalChecks`) is needed for two unbounded intervals, whose common point must be some sample. `BoundsAssumption` keeps the sentinels out of `Int`.

`ScenarioDispatchProofs`:

- `DispatchTypeCorrect`;
- `ScenarioParametersHold`: for requests with parameter lists of any length up to any `MaxParams`, `to_scenario` passes on every model parameter and then every structure parameter with its class, and a model parameter labelled ALL gives a synthesis scenario.

The proof uses `ConcatProperties`, `LenProperties` and `ElementOfSeq` from `SequenceTheorems`. Two assumptions of `ScenarioDispatchChecks` are evaluated by TLC:

- `MaxParamsAssumption`;
- `NoneAssumption`: Python's `None` is not a parameter list.

`SymbolSeriesProofs` proves `SeriesFaithfulHolds`: `Spec => []SeriesFaithful`, for every set of segments, digits, values, candidate symbols and requestable names. It rests on `SeriesTypeCorrect` (`Spec => []TypeOK`) and `MaxClosedInvariant` (`Spec => []MaxClosed`).

`SeriesFaithful` is about the states where `symbol_timeseries` returns (`Returns`): no matched value overflows, so the handler's NameError does not fire, and some symbol matched, so `max([])` does not raise (`ResultShape`). In those states `symbol_values` keeps every timepoint of `_symbols` with its value (`SeriesShape`).

Why `MaxClosed` is needed. The index range of `symbol_timeseries` is `0..Max(...)`. `Max` is a `CHOOSE`, so it names the largest timepoint only if one exists. That holds for finite sets of naturals, but it takes an induction over finite sets. The library states that induction only with an operator parameter, which the installed provers cannot instantiate.

What `MaxClosed` says instead. Every natural-valued function on a non-empty set of the point's symbols attains a largest value. It is an invariant of the caller because the point gains or loses one symbol per step (`MaxClosedAssign`). The finiteness comes from the history of the point, not from an induction.

Where it is used. Both `max()` calls take the maximum of an image of such a function:

- the inner `max()` (`MaxDigitBound`) over the digit symbols of one series, with value `int(d)`;
- the outer `max()` (`MaxTBound`) over all matched symbols, with value the inner maximum of the symbol's series.

Each `HasMax` then yields `Max(S) \in S` and its bound (`MaxOf`).

The two directions of `SeriesFaithful`:

- `FaithfulComplete`. `v_d` matches `v` (`MatchesOwn`) and splits back into `v` and `d` (`SplitAppend`), so `_symbols` files it under `v` at `<<d>>` (`SymsShape`). `symbol_values` keeps it (`SeriesShape`), and `int(d)` falls in `0..max_t`. Because `DigitVal` is injective, `<<d>>` is the only timepoint at that index (`AtDigit`).
- `FaithfulSound`. The timepoint chosen at index `i` is a digit `d` with `int(d) = i`. Its symbol has `Front` `n` and `Last` `d`, so it is `n_d` (`SymbolShape`).

`MaxClosed` quantifies over `[T -> Nat]`, which TLC cannot enumerate. With the codomain cut to `0..1`, TLC found it true in all 32768 states of the `symbol_series` harness. It only records that the point is finite, which is why it is a lemma and not a property of the code.

**Only model-checked.**

- Liveness (the violated `EventuallyDone`) is beyond TLAPS: it needs fairness and ENABLED.

## 5. Not modelled

- `ParameterSpace`, `Point`, the solver, `math_utils.plus` and the encoder translation are not in `src/`.
- `dataframe`, `plot_trajectories` and `plot` are pandas/matplotlib export and rendering; `_scenario` and `point_parameters` are lookups into the external scenario.
- `EncodedEncoder` (`encoded.py`) is a stateless pass-through: `encode_model_timed` ignores its step arguments and returns `encode_model(scenario.model)`, which wraps an already encoded formula in a one-layer `Encoding` or raises for any other model. There is no state, interleaving or arithmetic to check.
- The midpoint over sample groups is numeric averaging.
- `__hash__` depends on how `plus` treats the sentinels, which is defined outside `src/`; `__lt__` only compares two `width()` results and adds no state beyond `IntervalCache`.
- `width(normalize)`'s division of the cached width is Decimal arithmetic behind one guard.
