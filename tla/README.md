# A verification project for evoquant

TLA+ models of the parts of `src/evoquant` in which order, repetition and
history matter, TLC runs on small instances of them, and TLAPS proofs of the
properties that matter most. Paths below are relative to the repository's
`src/evoquant/` unless they start with `docs/` or name a file of this directory.

Contents: 1 the system, 2 what is modelled, 3 the runs, 4 the proofs,
5 disagreements and surprises, 6 what remains, 7 what is not modelled.

## 1. The system

evoquant searches for trading strategies by evolution and keeps the search
honest: the last part of the data (the lockbox) is disclosed once, after the
candidate is frozen, and "no edge" is a valid result.

| component | state it keeps | operations | talks to |
|---|---|---|---|
| Experiment lifecycle `experiment/state.py` | state, seals, append-only log; `experiment.json` | create, seal, transition, save, load | lockbox guard, orchestrator, dashboard, parity |
| Lockbox guard `experiment/lockbox.py` | none of its own; changes the experiment | open, audit | experiment, split plan, bars |
| Walk-forward splits `data/splits.py` | none; builds a plan | generate, validate, subtract ranges | orchestrator, lockbox guard |
| Search island `search/island.py` | population, archive, lineage, forced pool, random share | run, breed, intervene | evaluator, controller, bandit, memory store |
| Ranking `search/nsga.py` | none | dominance, fronts, rank | island |
| Archive `search/map_elites.py` | one elite per behaviour cell | try_insert | island |
| Stagnation controller `search/stagnation.py` | rung, stagnant count, running bests, log | observe | island |
| Bar engine `backtest/fast_engine.py` | open position, pending entry, cooldown | run over bars | evaluator |
| Event engine `backtest/event_engine.py` | orders and position on ticks | run over ticks | validation |
| EA export and parity `mql5/` | bundle directory with report and status | export, import report | experiment, bar engine semantics |
| Memory `memory/` | event store, lesson book, bandit posteriors | append, add lesson, replay, update | island, orchestrator |
| Orchestrator `experiment/orchestrator.py` | the artifacts of a run directory | run | everything above |
| Dashboard `webui/` | run threads, status files, event files, configuration | start run, list, detail, save config | orchestrator |
| Data manifest `data/manifest.py` | a write-once file | save, load, verify | orchestrator |
| Regime router `regimes/router.py` | dwell smoother | infer | evaluator |
| Feature language `features/` | deques and previous values of streaming operators | type-check, evaluate in batch, update per bar | evaluator, EA export |
| Cost model `backtest/costs.py` | none | resolve, size | engines |
| Genome, validation statistics, LLM client, loaders | none worth a state machine | pure functions | |

How they interact. The orchestrator creates and seals an experiment with the
hash of a split plan and of the data, walks it through its states while the
islands search, freezes a champion, lets the guard open the lockbox, closes the
experiment and saves it. An island is sequential and deterministic: breed,
evaluate (lineage, archive, event), observe, intervene. The dashboard runs
orchestrators in threads and shares files with them. The EA runs in another
program and must repeat what the bar engine did.

What is hard in it:

* *Objects against files.* An experiment lives in memory and in a file that is
  replaced as a whole. Crashes, reloads and second copies are legal.
* *Half-open index arithmetic* in nested loops (purge, embargo, clipping), with
  two places that state the rules: the generator and the validator.
* *History-dependent control*: the stagnation ladder compares with running
  bests which stagnant generations change too; the archive depends on order.
* *Long legal sequences*: state machine, restarts, forced operator pools and
  configuration that a rung changes for good.
* *Two implementations of one trading rule* (bar engine, event engine, EA).
* *Threads and files without locks* in the dashboard.

`PROJECT.json` lists each of these at the line where it bites, with the
property that covers it, or the reason why none does.

## 2. What is modelled

### 2.1 Experiment and lockbox

`ExperimentState` holds the operators of `state.py` on experiment records: the
transition table, `seal`, `_transition` and its guard-only edge, the
consistency check of `load`. `LockboxLedger` is the state machine: a set of
`Holders` (processes, or objects of one process), each with at most one object
(`alive`, `obj`), and the file with its temporary twin (`file`, `tmp`).

| action | code |
|---|---|
| `Create`, `Seal` | `Experiment.create`, `seal` |
| `Transition` | `Experiment.transition`, in the name of any actor: `Callers` are the strings that callers pass, the guard's name among them |
| `Open` | `LockboxGuard.open`, with every check it makes, in one step: it runs without I/O on one object |
| `SaveBegin`, `SaveWrite`, `SaveRename`, `SaveFails` | the truncating open, the write and the `rename` of `save`, which raises when there is nothing to rename |
| `Load` | `Experiment.load` |
| `Crash` | the process ends anywhere, also inside `save` |
| `EditState` | the hand edit of `experiment.json` that `load` looks for |

`save` takes no lock, and all holders use one temporary name: two saves may overlap.
A file stays open while it is renamed, so a holder inside `save` writes to
wherever the file lies that it opened: `saving` says whether that is the temporary name
("tmp"), `experiment.json` itself ("file"), because another save renamed it, or nowhere any
more ("unlinked"). `Overwritten` is what the file then holds: the new text, or, when it
is shorter than what was there, a mixture that nobody can read. `SaveRename` moves
whatever is under the temporary name.

`releases` (the lockbox rows handed out), `sealings`, `stale` and `overlapped` (saves that met
another one) are history variables that no action depends on, except for the bound
`MaxReleases`.

Abstracted: two of the four seals (`config_hash` and `seed` are bound by the
same assignment as the others and read by nobody), timestamps, identifiers,
event details. There is one experiment, because identifiers are unique and
experiments share nothing.

`OneShotBoxes` is the abstract promise, without logs, seals or files: each
object is blind, then frozen, then opened once, then judged. The refinement
`Boxes` in `LockboxLedger` maps states to phases and counts the disclosures in
the log; `ObjectsAreOneShot` says the ledger implements it. The abstraction lets a
holder drop its object and take another copy in any phase: that one object is
one-shot does not make the *experiment* one-shot (section 5).

### 2.2 Walk-forward splits

`IndexRanges` has half-open ranges and one round of `subtract_ranges`.
`WalkForward` is `generate_nested_walk_forward` with one action per loop
iteration: `BeginFolds`, then per outer fold `CutOuter` per embargo window,
`FinishOuter`, and per inner fold `CutInner` and `NextInner`, until `NextOuter`
or `FinishFolds`; every `raise SplitConfigError` is one of the `Reject` actions;
`Validate` is `validate_plan` with all its assertions, and "invariant_error"
its `SplitInvariantError`. A list of ranges is the set of its members (the
code does not depend on the order; no list holds a range twice). Hashing and
serialisation are left out.

### 2.3 Stagnation controller

`Stagnation` has the operators of `observe` on a controller record;
`StagnationLadder` drives them with arbitrary signals and keeps the log and the
history (`drought`, `seen`) the properties compare it with. Signals are whole
numbers: comparisons are all the code makes of them, except the relative 0.1 %
on violations, which is kept as `1000 * new < 999 * best`.

### 2.4 Search island

`IslandSearch` composes the controller's operators with the loop of
`island.py`, the ranking of `nsga.py` and the archive of `map_elites.py`.
Genomes are model values with a violation, objectives and a behaviour cell;
the evaluation cache makes evaluation a function of the genome. Random draws
and operators may yield any genome. Among equally ranked members any choice is
allowed, which covers the crowding distance and the index tiebreak. A population is
a multiset. `Restart` is ISLAND_RESTART with the survivors it filters, the
evaluation of survivors and fresh genomes, and no event; `BudgetOutcome` is the
backstop after the last generation. The hypervolume counts dominated grid
points, which it is for whole-numbered objectives.

Left out: lineage ancestry and telemetry. Operator selection and rewards are
in `EventMemory`.

### 2.5 Bar engine and exported EA

`SignalBars` has what both engines are given: the number of bars, one signal
row per bar (`policy`, fixed), and the bar counts of the risk block.
`BarEngine` is `run_backtest`. The parts of its loop body are the values of
`step`: at "open" `Enter`, `SkipEntry` or `NoEntry`; at "manage" `Exit` (stop
or target, then max_bars, then end of data) or `Hold`; at "close" `Close`,
which reads the signals of the bar. Prices are left out: a stop or target may
be touched at any bar ("stop" stands for both), a size may round to nothing at
any entry. Marking to market and funding change no later decision.

`ExportedEA` is the order management that `export_ea` writes into the Expert
Advisor. `NewBar` is `OnTick` on the first tick of a bar, with the execution of
the pending direction and the evaluation of the bar that closed, in the order
of the code; `LaterTick` is `ManagePosition` with `ClosePosition`;
`BrokerStop` is the broker, which fills the stop or target of the order without
running any code of the EA. `OrderSend` may fail. The warm-up gate counts `Bars()`, and that includes
history which the terminal loaded before the test: `preloaded` is its length, up to `MinBars`,
more of it changing nothing. With enough of it the EA decides on its first tick, on the
row of bar -1.

`EaParity` composes them on the same bars. Tier A starts without history and warms up
over `Lookback` bars, so the `rows` of the EA are those of Tier A's policy from bar
`Lookback` on, and anything before. The first tick of a bar is one joint
step; the broker's fills and the later ticks of the bar fall between Tier A's
open and its close. `Attempts` is what Tier A did about entries and
`DueEntries` what the policy calls for, computed from the closed trades alone
and from none of the engine's gates.

### 2.6 Event engine

`EventEngine` is `run_event_backtest` on the rows of `SignalBars`. A `Tick` may
come at any time not before the last one, so that it may complete no bar, one,
or several. What the loop body does with it are phases: `RestingOrder` (stop or
target), the pending order (`Refuse`, `Fill` or `NotExecutable`), then for each
completed bar `AgeFlat`, `AgeHold` or `AgeExit` and `ReadSignal`, and the pending
order again. `EndOfStream` closes what is open. Cash and the costs of a position
are kept in whole numbers, so that the ledger can be checked; the gross result
of a trade is one of `Gross`. `placed` is history: the bars whose signal became an
order; so is `since` in the records, the bar under way when an order was filled or refused. The
equity marks, which no decision reads, are left out.

### 2.7 One run directory and its three hosts

`RunDirectory` is `run_experiment` and `experiment create`, one action per file
they write, on one output directory; `Raise` ends it at any of them, since every
write may fail, and `Kill` stops the process anywhere. Another command may then start in the
same directory with the same or other data. A file holds the number of the
command that wrote it. The split plan, the bundle, the report, the model card and the record of
`experiment create` are written in place: a command that stops in one of them leaves it
`torn` until a later one writes it (`InHand`, `LeaveFiles`); the manifest and `experiment.json` are
renamed into place. Only for `report.json`, which the dashboard may read meanwhile, are truncation
and content two steps. The experiment in memory and in `experiment.json` is the
record of `ExperimentState`, moved by its operators. The parity command
(`ReadStatus`, `Compare`, `WriteParityReport`, `WriteParityStatus`) runs beside
the commands, and may also raise or be killed anywhere, in the middle of its two files
too. What is left out here: a check and a run that write `parity_status.json` in the same instant
and mix their texts. Verdicts are any; numbers are left out.

`Dashboard` hosts it in a worker thread: the POST that starts it (three steps,
of which one may refuse), the worker with its `finally` clause, the server's
death, and a client whose GETs read status, events and report without the lock
at any moment. `GradioStream` hosts it in a worker that puts events into a
queue, with a generator that takes them until the sentinel and a page that may
be closed. `Studio` composes command line, dashboard and Gradio app, each on its
own directory; `host` says which of them a behaviour is about.

### 2.8 Memory

`EventMemory` has the event table, which survives crashes, and what a session
derives from it: the lesson index and the selector's counts. A reward is given
before its event is written and a lesson is logged before it is indexed, as in the
code; `EndSession` may fall between. `Digest` is what `build_llm_context` tells: the
failure labels with the highest counts, of equals those met first (`TopFailures`), the outcomes of
the operators (their cut at `MAX_OPERATORS` = 8 never falls, for there are 8), and the best lessons.
Logs are read by row number, the index is a fold of the log, and the k-th lesson of
the digest is the hit with k - 1 better ones, which is what sorting and cutting
gives; confidence and evidence are one number.
Which operator Thompson sampling draws is left open.

### 2.9 Features, regimes, costs

`FeatureStreams` has the type rules, the lookbacks and the two evaluations of
thirty operators: `Evaluate`, array by array over the history, and `Update`, bar by
bar with deques and previous values. Values are whole numbers or NaN: the
formulas are kept up to scaling and rounding (a ratio stands for a percentage, means
and percentages are rounded down), so that both sides compute the same thing and what can
differ, windows, NaN, warm-up and previous values, is what is compared. An expression
is the sequence of its nodes, children first, so that `Dimensions`, `Lookbacks`,
`Evaluate` and `Outputs` are recursive functions on its positions.
`RegimeRouter` is the loop of `_causal_dwell_smooth` on the raw labels of `infer`.
`CostModel` is `resolve_costs` and `size_position` with `round_lot`, in exact
arithmetic. `MC_Toolkit` runs these three side by side with the memory, the split generator
and the stagnation controller: they share no state, and `desk` says which of them a behaviour
exercises.

## 3. The runs

Deadlock checking is off in all of them, because all these systems stop: an experiment
that was created and whose only copy was lost before a save is gone, a
generator returns, a controller is observed a bounded number of times, a search
and a stream of ticks end, commands in a directory are bounded.

| run | question | bounds, and why they suffice |
|---|---|---|
| `lockbox` | do logs, disclosures, files and seals stay truthful under two holders, overlapping saves, crashes, reloads and edits | 2 holders (a stale writer and an overlap need two; they are interchangeable, hence the symmetry) or, to keep the instance small, one at a time and 2 plans (a wrong plan must exist; the data check is the same conjunct): `crowd` says which; callers give the guard's name, the one that matters to `_transition`; 2 releases (one may be repeated), edits to FROZEN, the only state that `open` accepts, and with two holders only while nobody saves |
| `island` | what survives breeding, archive and restart; is the verdict honest | population 4 (2 elites), 6 generations with patience 1: every rung and the generation after the last one; three feasible genomes in one cell of which one pair is comparable, two infeasible ones |
| `bars` | does Tier A act on exactly the signals due, and how does the EA follow on the same bars | warm-up of 2 bars with 0, 1 or 2 of them preloaded, lookback 1, so that bar -1 and bar 0 have rows of the EA's own; 7 bars, max_bars 1, cooldown 2: the least on which the EA closes a trade by time, rests, and enters again, while Tier A completes up to two trades; most rows ask for "long", up to three different others (short, conflict, gate closed, no ATR) occur once each, anywhere |
| `ticks` | does Tier B keep orders, signals, trades and money straight on any stream | 5 bars two time units apart and ticks up to the last boundary: a tick may complete no bar or all of them; latency 0 and one longer than a bar; max_bars 1 and cooldown 1, so that two trades fit; either direction, none, and no ATR |
| `studio` | do the files of a directory, the parity status and the pages of a run tell one story | 2 commands in a directory (what may differ is this run against an earlier one), 2 sets of data, 1 plan; errors and kills everywhere, also inside files; one request at a time, since requests change nothing |
| `toolkit` | do streams match batch, switches match dwell, derived memory match the log, sizes match their limits; is every plan that the split generator builds one its validator accepts, and exactly what the embargo leaves; does the ladder measure exactly the generations without progress | one of six components a behaviour. 5 bars and windows up to 3, among them a gap, a flat bar and a reversal, with nested windows and ill-typed expressions; 7 labels with a dwell of 3; 3 events, 2 contexts and 3 lessons of which 1 fits the digest; instruments and orders on either side of every limit; all split configurations with up to 3 outer and 3 inner folds, blocks of 1 or 2 bars, purge and embargo 0 to 3, on six lengths, from too short to ample: cuts touch, split and swallow ranges, reach over a whole test and into the next fold; patience 2 and 12 generations: more than the 5 rungs and a reset in the middle, with five signals that improve in one measure while another worsens |
| `lockbox_reopen`, `lockbox_overwrite`, `splits_inner_embargo`, `island_unrecorded`, `bars_ea_entry`, `toolkit_lot_grid` | disagreements of section 5 | the smallest instance that shows them |

The properties of the passing runs:

* Lockbox: `LogsAreLives` (every log is a legal life ending in its object's
  state, and whoever gives whatever name, only `open` disclosed), `DisclosuresAreReal`
  (a log claims a disclosure only of rows that were handed out for what was sealed),
  `SavesAreAtomic` (a save that meets no other is one step for whoever reads the file, wherever
  it is cut off), `SaveKeepsKnownLog` (such a save extends the log its holder knew; what it
  does to a log its holder did not know is `lockbox_overwrite`), `ObjectsAreOneShot` (refinement).
* Splits: `GeneratorIsSound` (generator and validator agree: it never raises
  `SplitInvariantError`), `OuterTrainingIsExact` (training is all that purge
  and embargo leave: no bar lost, none leaked), `RangesAreDisjoint`,
  `InnerTrainingNests` (not checked by the validator).
* Ladder: `LadderMeasuresDrought`, `HopelessIslandStops` (shuffling infeasible
  variety does not postpone the verdict).
* Island: `ElitesAreUndominated`, `SearchKeepsBest` (breeding and restart),
  `VerdictIsHonest`.
* Bars: `EntriesAreExactlyDue` (the gates on pending entry, position and
  cooldown lose, repeat and invent no signal), `TradesAreSeparated`; of the EA
  `EaActsTwoBarsLater`, `EaTradesBehindTierA` (a position decided on a row that Tier A has
  too follows Tier A's own attempt a bar earlier, or Tier A was in a trade or resting from one at
  that row, whatever the broker rejects or fills), `EaRestsAfterTimeExit`.
* Ticks: `OrdersAreAccounted` (an order is in one place and leaves one record),
  `TicksAreServed` (nothing executable waits between ticks),
  `SignalsAreNotLost` (a bar that asks for a trade gets its order, unless the order of an
  earlier bar was in its way when it was completed: a refused order excuses the bars completed
  while it waited and none after), `TradesAreTimely`, `CashIsLedger`.
* Studio: `DirectoryHasOneDataset`, `ReportsRestOnArtifacts` (files of several
  runs may lie side by side, but no report without what it rests on, and that is whole
  unless a later run stopped in it),
  `StatusIsEarned`, `PagesTellTheRun`, and `StartedRunsEnd`, the liveness property.
* Toolkit: `StreamsMatchBatch` (hence no value depends on a later bar),
  `SwitchesAreEarned`, `MemoryIsRebuilt`, `SizingIsSafe`.

Each module also has a type invariant, `TypeOK`, `LadderTypeOK`, `EventTypeOK` or `RunTypeOK` (the
lockbox's is proved, section 4, and left out of its run); `FeatureTypeOK` is the promise of the type rules: dimensions hold at run time.

Fairness. The only liveness property is `StartedRunsEnd`: a run that was started
does not stay RUNNING unless its server died, and a streaming page ends.
`StudioFairness` is weak fairness of the threads the hosts start: the POST
handler once it made a directory, the worker, and Gradio's generator. The operating
system schedules runnable threads, and none of these steps waits on anything
but the queue, which `GetEvent` and `GetDone` are guarded by. The search is bounded
by its budget, so a worker's step does end. Clients, commands of a shell, kills,
the server's death and a closed page are assumed of nobody. No fairness is
assumed in the other modules: nobody has to save or open an experiment, and a
process may die.

Every property of a passing run has a mutant of the code in the modules
(definitions commented "Mutant of ...", with the bug they stand for) that
violates it. Mutants are never part of a specification.

## 4. The proofs

`tlapm` checks them without further assumptions than the named `ASSUME`s of the
modules, for every value of the constants.

`FoldLemmas` is their common ground. The library's induction theorems take a
predicate, which the provers cannot instantiate; here a predicate is a set: a
non-empty set of natural numbers has a smallest element (`Smallest`, from the well
order of the library), so a set that holds 0 and every successor holds all
(`Induction`), and likewise for finite sets (`SubsetInduction`). From these: the
recursive function under every fold of the community modules exists and is unique,
a sum does not depend on the order (`SumRemoves`), a fold over a sequence runs
through it from left to right (`FoldLeftRuns`), and in a finite ordered set every
rank is somebody's (`Ranks`).

`LockboxProofs` proves of `LockboxLedger`:

| theorem | states |
|---|---|
| `TypeCorrect` | `[]TypeOK` |
| `LogsAlwaysLives` | `[]LogsAreLives` |
| `DisclosuresAlwaysReal` | `[]DisclosuresAreReal` |
| `SealsOnlyBoundOnce` | `SealsAreBoundOnce`: no object is sealed twice |
| `ImplementsOneShotBoxes` | `Spec => Boxes!Spec`, the refinement |
| `SavesAlwaysAtomic` | `SavesAreAtomic`: one save at a time leaves no torn file |
| `SavesKeepKnownLogs` | `SaveKeepsKnownLog`: a save replaces only what its holder knows |

They hold for any set of `Callers`, and with saves that overlap; the two about saves speak of
those that meet no other. One inductive invariant carries the first four: the type
invariant, `LogsAreLives`, the content of `DisclosuresAreReal` (`RealInv`), and the fact these rest on (`SealInv`): the seals of every experiment, in memory
or on disk, are empty or one binding that `seal` made. Each of these also speaks of
both files, whoever wrote into them and even while a state field is edited, because `Load`
makes an object of whatever `experiment.json` holds once tail and state agree. `SavesAlwaysAtomic`
adds `OwnSaves`: a holder inside a save that met no other is the only one there, and the
temporary file is empty or holds its experiment, whatever a crashed save left before. The
refinement needs two lemmas on logs: a life holds a disclosure exactly when its last state is
DISCLOSED or a verdict that follows it, and never two, because no edge of
`ALLOWED_TRANSITIONS` leads back. `SavesKeepKnownLogs` needs `KnownInv`: what is in the file is a
prefix of the log of every holder that no other save has made stale, and
there is no file before there is an experiment. The last half is where unique ids come
in: a new experiment finds no file of its name.

`WalkForwardProofs` proves of `WalkForward`, for any history and any legal
configuration: `TypeCorrect`, `GeneratorAlwaysSound` (`[]GeneratorIsSound`),
`OuterTrainingAlwaysExact`, `RangesAlwaysDisjoint` and
`InnerTrainingAlwaysNests`. The invariant talks about bars: after c cuts the
ranges of outer fold f cover exactly `OuterBars(f, c)`, those of its inner fold
i exactly `InnerBars(f, i, c)`. Lemmas on ranges (`SubtractBars`,
`NonEmptyBars`, `ClippedBars`) show that one round of `subtract_ranges` removes
exactly the bars of its cut. Each assertion of `validate_plan` then follows
from the bars and from the arithmetic of the layout, whatever the size of purge
and embargo. The statement that has no proof is false: validation blocks do not
stay in the outer training set (section 5).

`SearchProofs` proves of `StagnationLadder`, for any patience and any
signals: `LadderTypeCorrect`, `LadderAlwaysMeasures` (`[]LadderMeasuresDrought`) and
`HopelessAlwaysStops` (`[]HopelessIslandStops`). The invariant says that the
running bests are attained extremes of everything seen, so that comparing with
four numbers is comparing with the history, and that until NO_EDGE_FOUND is
logged `rung * Patience + stagnant` is exactly the drought.

Of `IslandSearch` it proves, for any finite set of genomes, any evaluation of them
and any random choice: `IslandTypeCorrect`, `ElitesStayUndominated`,
`VerdictAlwaysHonest` and `SearchAlwaysKeepsBest`. The invariant keeps the
population a multiset of its size (a fold, so that what a generation and a restart
put together has the right number of members), every evaluated genome in a cell
with an elite it does not dominate, the loop in step with the controller
(`LoopAgrees`) and the rung paid for in generations without progress
(`RungIsEarned`). That dominance is transitive is a lemma, not an assumption.

`BarEngineProofs` proves of `BarEngine`, for any history, risk block and rows:
`EngineTypeCorrect`, `EntriesAlwaysDue` (`[]EntriesAreExactlyDue`),
`TradesAlwaysSeparated` and `AlwaysEndsFlat`. The invariant ties the gates
together: `cooldown_until` is the furthest reach of a closed trade with its
cooldown (`CooldownCovers`), the pending entry is exactly what the last close
asked for (`PendingIsAsked`), a position is younger than max_bars when a bar
opens (`PositionIsYoung`). The set of entries due grows at an open by the
pending entry and at no other step, and so does the set of attempts. One of its
lemmas, `PendingIsDue`, says that the cooldown gate of the open step never
drops an entry: the gate of the close step implies it.

Of `EaParity` it proves `ParityRunsTierA` (`ParitySpec =>
EngineSpec`, so the engine's theorems hold beside any EA), `TypeCorrect`,
`EaAlwaysBehindTierA`, `EaAlwaysTwoBarsLater` and `EaAlwaysRests`, from the
engine's invariant, the EA's clock (`EaClock`), the rows that agree (`RowsAgree`) and the
meaning of a pending direction (`EaPending`: the EA's row two new bars back asks for it), for
any lookback and any preloaded history. That Tier A acted on a row the EA traded on follows from
`EntriesAreExactlyDue`: a row that asks, at whose close Tier A is flat and rested, is due.

`EventEngineProofs` proves of `EventEngine`, for any rows, latencies, risk block
and stream of ticks: `EventTypeCorrect`, `OrdersAlwaysAccounted`,
`TicksAlwaysServed`, `SignalsNeverLost`, `TradesAlwaysTimely` and `CashAlwaysLedger`. The invariant
orders what the engine remembers in time. `ClockAgrees` ties the phase, the last
tick and the next boundary; `OrderIsPast` and `PositionIsAged` put the one order
that waits or is held behind every record and every cooldown;
`CooldownCovers` and `RecordsArePast` say that `cooldown_until` is the reach of the
latest trade and that all records are of bars completed. A signal is then lost only
where one of the gates of `MayRead` names the order that stood in its way, at that bar and no
later one. For
the cash, the sum over the trade records grows by the record that a close appends
(`LedgerGrows`), and what was paid for the open position is what its record will hold.

`ToolkitProofs` proves the four libraries.

* `RegimeRouter`, for any minimum dwell and any bars: `RouterTypeCorrect` and
  `SwitchesAlwaysEarned`. Two locals stand for the past: `StreakIsRun` and
  `StreakIsLongest` say that challenger and streak are the regime and the length of
  the longest run of labels that ends now.
* `CostModel`, for any instrument, statement and order: `SizingAlwaysSafe`. The
  arithmetic is non-linear; four lemmas on products and quotients keep it out of
  the rest. The assumptions on the constants are what the code refuses to go
  without: lot size, smallest lot and step are positive and the smallest lot is not
  above the largest (`data/contracts.py:56-73`), prices are positive
  (`data/quality.py:112`). Equity, risk, stop and leverage are any integers.
* `EventMemory`, for any log: `MemoryAlwaysRebuilt` (`[]MemoryIsRebuilt`). The
  invariant `MemoryInv` says that the index describes the rows it was given
  (`Describes`), all of the log or, between the append and the index, all but its
  last row (`IndexAgrees`), and that the reward on its way is this session's
  (`PendingIsOurs`). `ReplayDescribes` is the induction: replaying a log row by row
  describes it. The digest follows from the ranks of the hits.
* `FeatureStreams`, for any expressions, candles and history: `StreamsAlwaysMatchBatch`
  (`[]StreamsMatchBatch`). The state of a node's operator after some bars (`StateIs`: the
  deque is the window that ends there, the previous value the last one) is carried over
  a bar by `Updated`, and `Returned` is the value of the array (`StepAt`, operator by
  operator). Arrays over a longer history continue those over a shorter one
  (`PrefixAt`, `ArrayGrows`), which is also why no value depends on a later bar; so
  `StreamInv`, which says `StateIs` of every node, survives a bar. The lookback is a
  second induction over the nodes (`WarmUp`). `FeatureTypeCorrect` (`[]FeatureTypeOK`) is a
  third one (`ArraysTyped`), on what the type rules say (`RuleSays`) and what every
  formula returns: a rank, an RSI and an efficiency ratio are shares, the last because the
  rises less the falls of a window lead from its first value to its last (`PathLeads`);
  means, extremes and smoothed values stay in the range of what they read. The
  assumptions on the constants say what
  a compiled tree is: children come before their parents, prices are numbers.

`RunDirectoryProofs` proves of `Studio`, for any number of commands, data sets and
plans: `StudioRunsDirectories` (`StudioSpec => DirectorySpec`: whatever threads,
clients and pages do, a host's steps are steps of the directory), and from the
invariant of the directory `DirectoryTypeCorrect`, `DirectoryAlwaysHasOneDataset`,
`ReportsAlwaysRest`, `StatusAlwaysEarned` and `PagesAlwaysTell`. The invariant follows the command
under way: its manifest and seals are of its data from their step on
(`UnderManifest`), the files it is past are its own (`FilesAreOwn`) and whole (`OwnAreWhole`),
its state is that of its verdict (`StateIsOfVerdict`), and the parity command holds on to the
status it read as long as that is decided (`CheckerHasEarned`). For the pages, the
invariant of the hosts (`PagesAgree`) ties the dashboard's thread, queue and status
file, and the Gradio app's stream, to the one run under way.

Only model-checked: `StartedRunsEnd`, because liveness under fairness is out of the
prover's reach. Every safety property of the passing runs is stated by a theorem.

## 5. Disagreements and surprises

Shown by runs (`findings` in `PROJECT.json`):

* **The lockbox opens again after a crash** (`lockbox_reopen`). `lockbox.py`
  and ADR-002 say an experiment is opened exactly once. `open` changes
  the object in memory and does not save it: if the process dies before `save`,
  or a second copy was loaded, the file still says FROZEN.
* **A saved open may be overwritten** (`lockbox_overwrite`). `state.py` calls a lockbox
  open permanent and the log append-only. `save` replaces the file without reading it: a process
  that loaded the frozen experiment earlier and saves it later takes the open out of the file.
* **Inner validation may cover embargoed bars** (`splits_inner_embargo`). The
  documentation puts validation blocks inside the outer training set; the code
  places them before the test whatever the outer embargo removed.
* **A restart records no events** (`island_unrecorded`), although the store is said to
  receive an event for every evaluation.
* **The EA enters a bar later than Tier A** (`bars_ea_entry`). The exporter
  promises entries on the next bar's open and order management that mirrors
  Tier A bar for bar; the generated `OnTick` executes before it evaluates, so a
  signal of bar i is executed at i + 2. `EaAlwaysTwoBarsLater` is the proof.
* **A size may be off the lot grid** (`toolkit_lot_grid`). `round_lot` caps at `max_lot`, which
  nothing requires to be on the grid of `min_lot` and `lot_step`.

Met while modelling, without a run of their own:

* `transition(SEALED)` (`experiment/state.py:186`) binds nothing: `REQUIRED_SEALS`
  (`state.py:71`) is documented as required and read by nobody. The lockbox
  cannot be opened then, as `DisclosuresAreReal` shows.
* NOVELTY_INCREASE doubles the random share (`search/island.py:207`) and nothing
  restores it, so that a later LOCAL_REFINEMENT may breed no mutant at all,
  against `DECISIONS.md:172`.
* ISLAND_RESTART drops a feasible member whose cell is held by an incomparable
  elite that has left the population (`search/island.py:212`).
* In the EA, a position that the broker closes starts no cooldown, though the
  exporter promises one "after every exit", and leaves no row in the trade file
  (`mql5/exporter.py:384`). The parity comparison ignores bars only the EA has and never
  compares closing times, though "every discrepancy is itemized".
* In Tier B an order without latency placed at the last boundary of the stream is filled on the
  same tick with the entry index of the bar after, and closed at the last bar: the trade ends
  before it begins (`TradesAreTimely` has it as an alternative), and counts no bar in position. A
  test asserts `exit_index >= entry_index`, of Tier A's trades only. An order still pending at the
  end leaves no record.
* Two saves that overlap share the temporary file (`experiment/state.py:215`): one text may end
  up in the other's place, a rename may fail, and `experiment.json` may be empty or a mixture
  for a while or, when a process dies then, for good. No document promises that two
  processes may save at once.
* The EA's warm-up gate counts history from before the test (`mql5/exporter.py:318`), which Tier A
  does not have: while Tier A warms up, the EA may trade on rows that Tier A does not see.
* A kill inside `write_bundle` leaves the old, perhaps PASS, `parity_status.json`
  beside a new EA and new signal files: the status is written last. A kill inside a check
may leave either of its two files truncated beside the other. A parity
  command that overlaps a run writes back the status document it read
  (`mql5/parity.py:232` and 253). `StatusIsEarned` is what remains true.
* `write_manifest` checks and then renames (`data/manifest.py:131-144`), and a Gradio
  run id has a resolution of one second (`webui/gradio_app.py:117`): two runs of one
  second with different data can both pass the check and share a directory.
* After its server died a run stays RUNNING in `status.json`, or, between the last
  file and the last status, has a report but no end.
* Two requests that save settings read and write the secrets file without the lock
  (`webui/server.py:94`): one update may be lost.
* A rerun in the same directory appends to the event store of the earlier one but starts with
  a fresh selector: counts are of the session, outcomes of the log
  (`MemoryIsRebuilt` states both).
* `chop` is typed as an oscillator between 0 and 1 and exceeds 1 when a gap precedes
  its window. A comparison of NaN is false, so its `not` is true during warm-up.
* `canonicalize` is not idempotent: it drops duplicate operands before it turns `lt`
  around, so `and(lt(a, b), gt(b, a))` keeps two equal operands and hashes differently
  from `gt(b, a)` (`features/simplifier.py:12-13` promises equal hashes for semantically
  equal trees). Proposals read the string "false" as true (`bool(doc["causal"])`).

## 6. What remains

The modules above are complete for the operations they name. Worth doing next, in
this order: several requests and two dashboards on one directory (with the lock
and the settings file); two writers of a manifest; the simplifier and the
canonical form of expressions as rewriting checked against evaluation; CPCV's
purged index sets against their definition.

## 7. What is not modelled

Floating-point statistics (validation, objectives, metrics, fitted quantiles), the random
generation of genomes, data loading and hashing, code generation as text, LLM calls,
settings, HTML pages: pure functions or I/O whose correctness is numerical or
textual. Ordinary unit tests reach them; a model checker does not. Where they decide
what a model does next, their result is left to choice: a verdict, a comparison,
whether a price is touched, which operator is drawn.
