# Archimedes Lab in TLA+

Archimedes Lab measures whether language-model agents can recover hidden structure
in small synthetic worlds.  A run asks agents for interventions, gives them
observations, takes one committed answer, and scores it against sealed
measurements.  The value of such a measurement is the protocol around the agents:
what they may see and when, what is frozen before it is tested, what every
measurement costs, and what a failure counts for.  That protocol is the trusted
code of `src/archimedes_v0/`, and it is what this project models.

## The system

The repository holds two generations of the same laboratory.

* **V0** (`broker_v013.py`, `orchestrator.py`, `theory_eval.py`, the synthesizers):
  agents submit symbolic theories, a solver checks them.
* **V1 / V1.1** (`v1_*.py`): agents submit a partition of sixteen entities; everything
  after the commit is deterministic.  This is the current benchmark, and the
  protocol document `V1_PROTOCOL_SPEC.md` and the frozen budgets are about it.

| Component | State | Operations | What makes it correct |
|---|---|---|---|
| V1 protocol computations (`v1_protocol.py`) | none | partition legality and canonical labels, empirical gate cells, gate challenges, calibration and transfer schedules, lookup, predictions, score | the gate and the transfer set are out of sample; schedules exist for every legal partition; an ambiguous cell predicts nothing |
| V1 broker (`v1_broker.py`) | phase, ids, repetition counters, four observation lists, frozen partition, challenges, schedule and predictions, result, hash-chained ledger | `execute_a_batch`, `submit_a_commit`, `run_b`, `close_external_failure` | budgets exact, nothing measured twice, frozen before measured, B only behind a perfect gate, a closed run is final |
| V1 orchestrators (`v1_orchestrator.py`, `v1_agent_interfaces.py`) | position in `run()` | six rounds of propose / select / execute, commit, B | the run ends; it has a result exactly when it returns; no model call after the commit |
| V1.1 trusted ids (`v1_v11_benchmark_agents.py`) | none | ids by round and position | ids never collide |
| V1.1 benchmark runner (`v1_v11_benchmark_runner.py`) | world index, positives, usage sinks, evidence; the committed pass record | null vanguard, kill rule, causal phase, compute audit | no causal world after a kill; stopping early decides what the analysis would; success is audited |
| Critic safeguard (`v1_live_qualification.py`, its three runners) | cycles, consecutive misses, usage records | three cycles, verdict, request to the referee | a failure of the provider is never a miss, a miss never an abort |
| Gemini backend (`v1_gemini_backend.py`) | usage sink | `invoke` | every completed answer is recorded once, every other response raises and is not |
| Primary analysis (`analysis_plan.py`) | none | sign-flip test, thresholds, hallucination kill | used by the runner exactly as registered |
| V0 broker, V0 orchestrators | phase, five budgets, theories, gates, ledger | batches, theory submission, gates, transfer commitments | budgets, one attempt per gate, held-out transfer, qualification from raw observations |
| Program search: six engines, of which three are CEGIS (`synthesis*.py`) | incumbent, proven bounds, working set, blocked candidates, resource budget | bisection of error, nodes, depth and tie-break digits against a solver, counterexample loop | what is reported optimal is optimal, whatever order the phases come in |
| Theory evaluation, SMT isomorphism (`theory_eval.py`, `ast_schema.py`) | none | legality, prediction, scoring, isomorphism | the gates of V0 |
| World generation, CLI, qualification of the synthesizers | random generators | generation, batch scripts | enter the models only as callbacks |

How they interact: the orchestrator calls agents and broker in turn, on one thread.
The broker calls back into the world runtime (`observe`) for each measurement; this
is the only point inside a broker operation where foreign code runs, and the point
where an operation can be abandoned halfway, because `observe` may raise.  The
broker appends to the ledger.  The benchmark runner runs many orchestrators and
books their results; it is a process of its own, as are the safeguards before it, and
they know of one another only through files that a person commits.  In V0 the
synthesizer searches programs for the orchestrator and asks an SMT solver, which may
run out of resources at any query.

What is hard to test is written down under `hazards` in `PROJECT.json`, line by line.
The recurring shapes: an operation abandoned in the middle of a loop and then called
again; order between freezing a prediction and measuring its outcome; one counter
shared by two stages; off-by-one at the spared member of a group when the budget runs
out in the middle of a round; failures that must not turn into scores; bounds proved
against one set of constraints and used with another.

## What is modelled

| Module | Role |
|---|---|
| `V1Protocol` | the pure computations of `v1_protocol.py`, as operators; constants and their assumptions |
| `V1Scheduler` | the loops of the two schedule builders, one iteration per step |
| `V1Broker` | the broker: one action per operation start, per iteration, per return and error path |
| `V1Contract` | abstract specification: what a run promises about its budget |
| `V1Orchestrator` | one arm of one world: `V1Broker` driven by `run()` |
| `V1Protocol_proofs` | lemmas about the pure computations, up to the existence of both B schedules |
| `V1Scheduler_proofs` | theorems: the loops compute the closed forms and never raise |
| `V1Broker_proofs` | theorems about the broker: types, the held-out gate, what its freezes, ledger and result promise |
| `V1Orchestrator_proofs` | theorems about a run, and that a run drives the broker |
| `V0Theory` | theories of V0: legality, prediction, scoring, isomorphism, what the two gates ask |
| `V0Broker` | the V0 broker, one action per operation and per transfer observation |
| `V0Orchestrator` | one arm of one V0 world: `V0Broker` driven by `run()` |
| `V0Broker_proofs`, `V0Orchestrator_proofs` | theorems about the V0 broker and its runs |
| `GeminiBackend` | the exits of a provider call and what each leaves in the usage sink |
| `PrimaryAnalysis` | the registered statistics, as operators |
| `V1Study` | safeguards, Null vanguard and causal phase as processes between which files are committed |
| `V1Study_proofs` | lemmas and theorems |
| `SynthGrammar`, `LexOrder` | the expression grammar, and the encoding each engine gives the solver |
| `ProgramSearch` | `search()` of six engines: phases, bounds, working set, blocks, statuses; what it assumes of the grammar and its encodings |
| `ProgramSearch_proofs` | theorems about every engine, up to optimality and the refinement of `AnytimeOptimizer` |
| `AnytimeOptimizer` | abstract specification: what any engine owes its caller |
| `MC...` | instances for TLC, one for each module that is a specification |

**V1Protocol.**  Entities, actions and groups are integers in the code's orders, so
"sorted" is `<`.  A cell is the integer `group * NumActions + action` and a visit of
the scheduling loops is the integer `round * cells + cell`, so the canonical order of
both is `<` too.  A loop that walks such things and stops at a budget returns
`FirstOf(S, n)`, the first `n` elements of a set in order.  Hypotheses may be illegal
(`LegalHypothesis` is `validate_partition` and the field bounds); `Canonicalize`
relabels groups by first member.  A digest stands for the value it is the digest of,
slot numbers are positions, and an observation does not repeat its paradigm, which
the list it is in determines.  `FreezeTransfer` and `PassGate` guard on
`ValidSchedule`, the builders' assertions.  That these never fail is proved for every run
(`BuildersAlwaysSucceed`; on the runs' instances a failure would be a deadlock), and
`V1Scheduler` looks at the loops themselves.

**V1Broker.**  The four operations are public and a caller may invoke them in any
order, so the module has no caller: any operation may start whenever no call is in
progress.  A call is its start (guards, early returns, what is changed before the
loop), one action per observed outcome, and its end.  `call` holds the stage, the
plan being walked and the outcomes collected so far, which are local variables in the
code and are lost when `observe` raises (`ObserveRaises`: the repetition number and,
in discovery, the experiment id are already claimed; everything recorded before
stays).  `Close` is `_close`; a closed broker refuses everything, or answers with the
result it has (`CallClosed`).  The ledger is the sequence of its event types.

| Code | Actions |
|---|---|
| `execute_a_batch` | `RejectBatchSchema`, `RejectBatchBudget`, `ExecuteABatch`, `ABatchObserve`, `ABatchReusedId`, `ABatchReturn` |
| `submit_a_commit` | `SubmitMalformed`, `SubmitAbstain`, `SubmitIllegalCommit`, `SubmitUncovered`, `SubmitCommit`, `GateObserve`, `FailGate`, `PassGate` |
| `run_b` | `RunB`, `CalibrationObserve`, `FreezeTransfer`, `TransferObserve`, `ScoreTransfer` |
| `close_external_failure` | `CloseExternalFailure` |
| `runtime.observe` raising | `ObserveRaises` |

**V1Contract** knows three variables: the budget being spent, the units spent, the
verdict.  Discovery, then a prepaid gate, then calibration, then transfer; stopping
early is worth zero; only a run that spent everything is scored.  `V1Broker` is shown
to implement it under the mapping `stage <- ContractStage`,
`spent <- Spent(obs, gateCharged)`, `verdict <- ContractVerdict`.

**V1Orchestrator** extends `V1Broker` and conjoins its actions with the position of
`run()`.  The Full and the Flat orchestrator are the same schedule with other prompts
and are one model; the variable `trusted` chooses at the start between the V1
interface, where the model names experiment ids, and the V1.1 interface, where they
are assigned.  An agent call answers, answers what the interface rejects
(`InvalidAnswer`, the broker is closed) or fails in the provider (`ProviderFailure`,
not caught).  The agents themselves and the provider are external.

**V1Scheduler** executes the loops that `V1Protocol` states in closed form, with
their breaks and error exits.  Its run `scheduler` checks that both agree.

**V0Theory.**  An expression is what the broker asks of it: a table over latent labels
and interventions, its variables, operators and depth.  Accuracies are compared as
fractions of integers, which is exact for the thresholds and totals of the code.  The
solver's question is stated as it is put: are there bijections of labels, interventions
and outcomes that turn one table into the other.  `PassesAGate` and `PassesBGate` collect
the conditions of the two gates; their order does not matter, since every failure closes
the world in the same way.

**V0Broker.**  As for V1 there is no caller.  A visible experiment or a gate is one action
(a refused call changes nothing and is not an action); the transfer evaluation commits
all predictions in one action, then observes challenge by challenge.  What no handler
catches is an action of its own: `observe` raising in a visible experiment (id and
repetition claimed, nothing billed) or in the evaluation, the solver answering "unknown"
in the B gate (charged, attempted, still open), and an agent's experiment having taken an
id of the evaluation (`TransferIdTaken`).

| Code | Actions |
|---|---|
| `start_epistemic_cycle` | `StartEpistemicCycle` |
| `run_visible_experiment` | `RunVisibleExperiment`, `VisibleExperimentRaises` |
| `freeze_a_theory` | `FreezeATheory`, `FailAGate` |
| `declare_no_concept`, `open_b_calibration` | `DeclareNoConcept`, `OpenBCalibration` |
| `submit_b_theory` | `SubmitBTheory`, `FailBGate`, `BGateUndecided` |
| `execute_transfer_evaluation` | `CommitPredictions`, `TransferIdTaken`, `ObserveTransfer`, `ObserveTransferRaises`, `CloseRun` |

**V0Orchestrator** conjoins the broker's actions with the position of `run()`, as
`V1Orchestrator` does.  `run()` catches nothing, so each exception, a gate failure
included, ends it; the orchestrator's check of a batch is weaker than the broker's check of
its experiments, so a batch may be refused in the middle (`BrokerRefuses`).

**GeminiBackend and PrimaryAnalysis.**  A response is a fault of the transport, of the
envelope or of the content, or an answer with its token counts, each of which may be
missing.  Every fault raises `V1ProviderError` before the sink is touched; an answer
appends one record, valid against the caller's schema or not, because the schema is
checked by the agent interface afterwards.  `PrimaryAnalysis` states the sign-flip test
over a constant sequence of sign vectors, which in the code a seeded generator draws.

**V1Study.**  The variables are the committed files, what the last process wrote, and the
process that is running.  A process writes its evidence when it ends; one that is killed,
or that an exception ends, leaves none (`Killed`).  The safeguard and null workflows refuse
a second start; the causal phase has no such guard in the code and may run again.  The
referee, who commits the benchmark freeze and the pass record by hand, is external: the
record has at most one wrong field, an assumption about the person that
`_require_null_pass` does not enforce: with both fields wrong, or the status of an aborted
vanguard, it lets the causal phase start.  In the benchmark phases a model call is a step, and an
arm returns a score or fails with zero (`V1AgentInterfaceError` and `V1BrokerError` end the
arm, `V1ProviderError` ends the phase).  The repository has two functions `_usage_totals`:
the qualification's sums the counts it knows, the benchmark's returns nothing if one count is
missing; they are `PartialUsageTotal` and `UsageTotal`.

| Code | Actions |
|---|---|
| `run_live_critic_safeguard` | `CycleAnswered`, `CycleProviderFails`, `CycleFailsLocally`, `SafeguardCompletes` |
| the three runners of it | `StartLive`, `StartReplacement`, `StartV11` |
| `run_null_vanguard` | `StartNull`, `CallAnswered`, `ArmReturns`, `NullProviderFails`, `NullWorldEnds` |
| `run_causal` | `StartCausal`, `CallAnswered`, `ArmReturns`, `CausalProviderFails`, `PairEnds` |
| external | `Authorize`, `Ratify`, `Killed` |

**SynthGrammar.**  An expression is the heap of selectors and permutation tables that
`_EncodedAST` holds.  The problem of each engine is a predicate on such heaps: all points or
a working set, children ordered by value columns or by selectors, permutation tables
bijective or only injective on the child values seen, which `DecodePartial` completes.
`SerialDigits` orders expressions as the code orders their JSON strings.

**ProgramSearch.**  The six engines are one state machine, since they differ in the order of
phases, in the bounds they open with and in what they do with an incumbent; the operator or
action that differs says for which.  A solver call is one step: `Refute` if the constraints
have no model, `Propose` for any model, `GiveUp` at any time.  Of the resource limit the model
keeps whether anything remains and whether the solver has reported that it ran out, with
something remaining or nothing (`budget`): the status of a search depends on both.  A proposal is decoded and
evaluated on all observations; if it fails a bound there, the first observation outside the
working set that it misses joins the set and the solver is asked again.  Solver models are
taken from `SynthGrammar` through constant operators, so the module knows no syntax; what the
search needs to know of them is stated by five named assumptions.  A search whose agent named
its latent like the action has `same_name`: the solver keeps the two apart, `evaluate_expr`
looks both up under one name.  So a model may be decoded to an expression with other values
than the model's (`Sound` is `assert_model_soundness`), or not at all, when its permutation
tables contradict one another over the one name (`Decode` is `None`); both fail an assertion.

| Code | Actions |
|---|---|
| `_cegis_feasible*`, `_BudgetChecker.check` | `Refute`, `Propose`, `GiveUp` |
| first feasible, exact, bracketing phases | `AnyFound`, `ExactFound`, `NothingExact`, `Bracketed`, `NotBracketed`, `NoneLeft` |
| each bisection | `Lowered`, `Raised` |
| its end | `ErrorsClosed`, `Witnessed`, `ScoreClosed`, `NodesClosed`, `DepthClosed` |
| `_canonicalize` | `DigitClosed` |
| an unknown answer | `Interrupted` |

**AnytimeOptimizer** knows a problem, an incumbent and a promise: the incumbent only gives way
to one that may replace it, may be returned at any time as "some", and is returned as "best"
only if it is an optimum.  `ProgramSearch` implements it up to its first candidate, for every
engine.  A CEGIS incumbent only gives way to one that is at least as good.  The skeleton engines
minimize `effective_depth`, which the depth of a program bounds only from below, so while they
do, a deeper program with the same error and nodes may be the incumbent for a while (`MayFollow`).

## Checks

| Run | Instance | What it shows |
|---|---|---|
| `broker` | 5 entities, 2 actions, 2 groups, budgets 4 / 2 / 5 / 4, `observe` always answers | types; gate and transfer are out of sample; the budget is exact; freezes precede outcomes in the ledger; the broker implements `V1Contract` |
| `broker_faulty` | the same, one `observe` raises at any point and the caller goes on | no measurement is made twice; B stands behind a perfect gate; the score is unanimity of calibration and transfer, recomputed from raw observations; the ledger alone accounts for the reported budget; what is frozen stays frozen |
| `second_commit` | the same | **violated**: `OneCommit`, see below |
| `scheduler` | 7 entities, 2 actions, 2 or 3 groups, every canonical partition | the loops end, spare the last member of every cell at every step, fill cells evenly, compute the closed forms |
| `scheduler_real` | the frozen constants: 16 entities, 8 actions, 2 to 4 groups, budgets 32 / 32, one partition for each of the 244 ordered profiles of group sizes | no error exit is reached, every cell is calibrated and tested |
| `orchestrator` | 2 rounds of 2, both interfaces, one raising `observe` | `run()` ends; trusted ids never close a run; one commit holds although the broker alone does not guarantee it when `observe` raises |
| `v0_broker` | 4 entities (2 held out), 1-bit interventions and outcomes, budgets 2 / 1 / 2 / 1 / 2, eleven submissions, one uncaught exception | no measurement twice; a closed world has used each budget whole or not at all and reports what is left; a D4 result qualifies exactly by the raw observations; sealed outcomes follow their one commitment and are of untouched entities; one attempt per gate |
| `v0_taken_id` | the same, nothing raises but the broker | **violated**: `AcceptedTheoryPredicts`, see below |
| `v0_orchestrator` | the same world, A rounds of 2 and 1, a B round of 2 | `run()` ends; it returns exactly with an abstention or a D4 result; the schedule is never refused for a phase, a budget or a cap |
| `search` | 13 shapes of up to six nodes on a domain of 3, depth up to 4; four searches with every engine, a fifth whose variables share a name with the CEGIS engines | types; a complete candidate is optimal; no internal assertion fails with different names before the first candidate, and scores, nodes and depths close on the incumbent in every search; the skeleton engines return the least expression in preorder; "unsat" without a candidate means that resources ran out; the search ends; every engine implements `AnytimeOptimizer` |
| `search_assertion` | the same, without the search whose variables share a name | **violated**: `AssertionsHold`, see below |
| `study` | 3 Null worlds of which 2 positives kill, 2 causal pairs, 2 calls in an arm, token counts 0, 1 or missing | a failing provider gives no verdict; stopping early decides what the registered analysis would; no causal world after a kill, nor after an abort whose record has the right status; every recorded call belongs to a world; success is claimed only under the registered conditions |

**Bounds.**  Five entities in two groups of three and two are the smallest instance in
which a group has two supporting members and a held-out one, a gate of two needs both
actions of that group, calibration ends in the middle of its second pass (5 slots for
4 cells) and transfer is drawn from what is left.  Four outcomes in discovery suffice
for every way the support of a cell can agree, disagree and tie.  The batches
(`MCBatches`) range over interventions that can matter for the gate and over ids that
are fresh, or reused from an earlier batch; the commits contain both label orders,
a partition the gate cannot cover, one with a group that is too small, one outside
`MAX_GROUPS`.  `MaxFaults = 1`: a second fault repeats what the first one does to an
open run; the proofs below do not depend on the bound.  The faulty runs use two batches,
one for each action, whose ids are reused when they are submitted again.  The scheduling loops look at
the members of a group only in order, so consecutive groups stand for all partitions
with the same sizes, which is why `scheduler_real` can use the real numbers.
In the V0 instance a bit is enough for a law (exclusive or), a law that is the same under
another labelling (its negation) and one that is not (and); the submissions miss each
condition of a gate in turn, and the experiments repeat a pair, reuse an id across the
paradigms, ask for a held-out entity and use an id of the evaluation.  A budget of two and
a threshold of one half leave room for a fit, a partial fit and a miss.
The search looks at a sample of the grammar because the grammar has too many expressions even
on three values; the sample holds each kind of node that the engines treat differently
(leaves, a commutative node in both orders, permutations with every table), programs that are
equal at different depths, and laws that a permutation explains or nothing does.  What the
search owes is relative to the models the solver may return, so it is checked in full for the
sample.  The searches ask for up to four candidates and start with one observation in the
working set, so it grows several times; with one name it grows up to three observations, and
models that decode to nothing, to other values and to the model's values all occur.  In the study two causal pairs give both orders of
the arms, a ratio of three to two is met exactly, missed and invalid (zero tokens) within the
token counts, and the killing positive may be the last world.  `same_name` searches use the
CEGIS engines, which are the ones the orchestrators call (`Init`).

**Fairness.**  `V1Scheduler` has weak fairness of its steps: the loops are sequential
code that nothing blocks.  `V1Orchestrator` has weak fairness of its next step: `run()`
is one thread, and an agent call or `observe` answers or raises (provider requests
carry a timeout).  `V1Broker` has no fairness; nobody has to call it.  `V0Orchestrator` is fair as `V1Orchestrator` is, and
`V0Broker!FairSpec` asks for the transfer evaluation again and again.  The `v0_broker` and
`v0_taken_id` runs disable the deadlock check: a V0 world that is closed, or stuck, has no
further step.  So do `search`, `search_assertion` and `study`: a search that has returned, and a
study that is over or locked, do nothing more.  `ProgramSearch` has weak fairness of its next
step: `search()` is one sequential call, and every solver call has a resource limit and returns.
`V1Study` has no fairness; nobody has to start a process.  Elsewhere a closed broker and a returned `run()` stutter by explicit actions.

**The violated properties.**  `V1_PROTOCOL_SPEC.md` says "No second candidate submission,
gate retry, or back-transition is allowed."  In the code the phase leaves `A_DISCOVERY`
only after the whole gate loop; if `observe` raises inside it, partition and challenges
are frozen and some sealed outcomes are measured, but `submit_a_commit` is accepted
again.  Likewise an abandoned `run_b` can be called again and measures its calibration
schedule again, beyond 128 units (`BudgetExact` therefore speaks of runs without
faults).  Both orchestrators let the exception end the run, so neither happens under them:
the `orchestrator` run checks `OneCommit` again.

The V0 `README.md` says "After an accepted B theory, all 32 transfer predictions are
generated directly from the committed Theory AST before any held-out outcome is
requested."  The evaluation takes its ids `E-TRANSFER-nn` from the same namespace as the
agents' experiments; if a visible experiment has one of them, the evaluation is refused
before it commits anything, now and on every later call, and no operation closes the world.
A related case has no property: when the solver answers "unknown", the B gate is spent
and the world stays open (`BGateUndecided`).

The feasible-first engine asserts that each bound it has proved has an incumbent that
realizes it.  `SYNTH_V02_FEASIBLE_FIRST_SCHEDULE_FREEZE.md` blocks a returned candidate by
"exactly that encoded AST".  The encoding of a candidate has complete permutation tables; the
solver's tables are free outside the working set and are completed when they are decoded.
So, in a search for a second candidate, another solver model decodes to the first one, is
taken as incumbent although the bounds are proved without it, and the assertion fails
(`AssertionsHold`).  `EnumerativeSynthesizerV02` asks for at least four candidates; the
qualification of the synthesizer asks for one and does not meet it.

A second way to a failing assertion is no finding of a run, since no text of the repository
excludes it: `LatentVariable.name` may be `x` or `u`.  The solver then tells the latent from
the intervention and `evaluate_expr` does not.  A model is decoded to an expression that does
not have the model's values, which `assert_model_soundness` reports, or its permutation table
would take one value to two, which the decoder reports; either error ends `run()`.
`NeverRaises` states that these are the only two ways: with different names no engine but
`feasible_first` fails an assertion, and it only in a search for a further candidate; and the
intervals of scores, node counts and depths close on the incumbent in every engine, with equal
names and for later candidates too (`ClosesOnIncumbent`), so the failure above is one of the
error phase.  It does not exclude the failures, which are in the code.

## Where documents and code differ

Met while modelling, without a run of their own:

* `SYNTH_V02_FEASIBLE_FIRST_SCHEDULE_FREEZE.md:36`: "The anytime incumbent is always the
  lexicographically smallest `S(c)` among all full-`O`-verified candidates encountered so far."  A
  candidate that is evaluated but misses the bound of the query it answers is dropped, even if it
  is better than the incumbent (`_cegis_feasible_hardened`).
* `REFEREE_CHECKPOINT_SYNTH_V02_DESIGN.md:142` blocks the truth table of a candidate; the CEGIS
  engines block its AST, so a later candidate may mean the same as an earlier one
  (`CompleteIsOptimal` compares with the programs that mean something else).
* The feasible-first engine's incumbents are compared by the strings of their JSON, the tie-break
  phase by selector order, and `_better` may prefer the former: `PreorderMinimal` holds of the
  skeleton engines only.

## Proofs

Every theorem holds for all values of the constants that satisfy the named assumptions of
the modules, which TLC evaluates on each run.  They are what the code's frozen constants and
its types justify: positive budgets, arithmetic the constants satisfy, `None` apart from the
values it stands beside (`NoneIsNoPartition`, `NoneIsNoResult`), well-formed batches, and of
V1.1 that a batch with assigned identifiers passes the schema again.  Nothing bounds the
number of faults, entities, worlds or calls, nor the programs, observations, candidates or
depth of a search.

All invariants TLC checks are theorems, of the brokers, orchestrators, scheduler, study and
program search, and so are the refinements.  An invariant is seldom inductive as it stands; what makes it so is below.

**V1 broker** (`V1Broker_proofs`).

* `TypeCorrect`.  Building the lookup needs a partition and outcomes that line up with the
  frozen schedule, so `TypeInv` adds `CallInv`, which ties the call in progress to the frozen
  state.  It rests on `V1Protocol_proofs`: every rank in a finite set of integers is taken
  (ranks are an injection into an interval of the same cardinality, hence a surjection),
  `FirstOf` returns a sequence, a canonical partition is a partition (leaders inject into the
  other groups), challenges, schedules, lookup and predictions have their types.
* `EveryMeasurementOnce`.  `CountersAhead`: a counter is above every number it has handed out,
  across the two stages that share it and across raised calls.
* `GateStaysHeldOut`.  That challenges avoid discovery's pairs is true when they are built; it
  stays true because discovery is full by then and a batch that was let in always fits
  (`GateInv`, with the part of the running batch still to come).
* `FreezesAreFinal` and `BudgetIsExact` rest on `StageInv` (what is frozen and charged in each
  phase) and `BillInv` (what each phase has spent, the running call included).
* `FreezesComeFirst` and `LedgerPays` rest on `LedgerInv`: which events the ledger of each
  stage holds, in what order, and how many units they pay for.  A ledger is an append-only
  sequence, so each step lemma says what one event adds.
* `GateWasPerfect`, `TransferStaysOutOfSample` and `ScoreIsEarned` rest on `EvidenceInv`, which
  carries the frozen schedules, the lookup and the counts along with the observations they
  were computed from, until the result refers to them.
* `BuildersAlwaysSucceed`.  `ScheduleSource` keeps where the schedules come from: the partition
  is one whose groups all have two members (`CanonicalIsSchedulable`: relabelling a legal commit
  loses no group) and the frozen calibration is the one built for it.  `CalibrationExists` and
  `TransferExists` then say that the walks reach their budgets and pass the assertions.
* `BrokerImplementsContract`: the broker implements `V1Contract` under the mapping above.  The
  theorem assumes `[](faults = 0)`: after `observe` raised in the gate, the commit may be
  submitted again and the gate measured again without being paid again, which the contract
  forbids.  The run `broker_faulty` shows what holds with faults.

**V1 scheduler** (`V1Scheduler_proofs`).  `LoopInv` says that at every iteration the schedule
built so far is the part of the closed form up to the visit the loop is at.  From it follow
`LoopsComputeClosedForm`, `EveryCellIsTested`, `RoundsAreEven` and `LastMemberIsLeft`, and
`BuildersNeverRaise` takes the three error exits in turn: enough slots are visited before the
rounds end, by counting (`CalEnough`, `TestEnough`, `WalkFull`), the last member of each cell is
spared (`LastIsSpared`), and a completed walk is a valid schedule (`LaidValid`, `TestIsFresh`).
The lemmas about walks are in `V1Protocol_proofs`, where the broker's theorem needs them too.

**V1 orchestrator** (`V1Orchestrator_proofs`).  `RunDrivesBroker`, `OSpec => Spec`, carries every
theorem about the broker over to a run.  `RunPlaces` says where the broker is when `run()` is at
each of its turns; it gives `BrokerAcceptsEveryTurn`, `RunCommitsOnce` (which the broker alone
does not promise) and `TrustedRunsKeepSchedule` (assigned identifiers are those of the turn, so a
turn never meets an identifier of an earlier one).

**V0 broker and orchestrator** (`V0Broker_proofs`, `V0Orchestrator_proofs`).  The invariant is built
in layers, each proved from the ones before: types (`Typed`), what exists in each phase, what has
been spent, what transfer has recorded.  `AccountsHold`, `NoiseIsFresh`, `OutcomesAreHeldOut`,
`AttemptsAreFinal` and `ResultIsRaw` follow.  For a run, `ScheduleInv` and `AccountInv` tie the turn
to the broker's phase and to the partial sums of the fixed allocation, which is why the broker
refuses nothing (`RunIsNeverRefused`); `OutcomeInv` gives `RunReturnsResult`.

**V1 study** (`V1Study_proofs`).

* `KilledVanguardLocks`.  `Files` says what the committed files can contain together: a killed
  vanguard has at least `KillAt` positives, and a pass record agrees with the vanguard in one of
  its two fields, so it never satisfies both conditions of `_require_null_pass`.  An aborted
  one may have few positives; there the status alone keeps the lock.
* `EarlyStopIsTheAnalysis`.  `NullProgress`: the tally is the number of positives among the
  finished worlds.  `KillAtDecides` and `BelowKillAtDecides` compare it with the registered rate
  for any outcome of the worlds not executed.
* `VerdictNeedsAnswers`.  `CycleProgress`: a record for every finished cycle, the misses since the
  last hit, and where the cycle began.
* `RecordsAreAttributed` and `ClaimedSuccessIsEarned`.  `Billed`: the rows account for the records
  up to the start of the current world, in number and in tokens.  This needs facts about sums
  that the library does not have.  `EveryNatural` states induction for a set of numbers, which
  the provers can instantiate where they cannot take a predicate; from it come the existence of
  the function `SumOf` folds, that the order of folding does not matter (`AnyOrder`), and the sums
  of a longer column and of a concatenation (`SumExtends`, `SumConcat`).

**Program search** (`ProgramSearch_proofs`).  One invariant for the six engines, since what
differs between them is in the operators.  `Rivals` are the models of the current problem that
no candidate blocks, and they are measured on the working set, as the solver does.

* `Typed`: types, which phase has an incumbent, which bounds it has established.
* `LowerBound`: no rival is below what the refutations so far exclude.  The working set grows
  between two refutations, so an old one was about other models: a larger set has fewer models
  with more errors on it (`GrownRivals`), hence a refutation stays one.
* `UpperBound`: what the incumbent achieves in each phase, measured on all observations.
* `Sharp`: the two bounds close in on the incumbent, so it realizes a bound when its interval
  closes.  For scores, nodes and depths this always holds, because an incumbent has exactly the
  bounds established before.  For errors it holds before the first candidate, and later if
  neither `feasible_first` nor `same_name` is in play (`Bounded`): otherwise a model may be
  decoded to a program already returned, which no refutation bounds from below.
* `Kept`: the incumbent of a skeleton engine is itself a rival.
* `LeastSoFar`: in the tie-break, no rival that is as good precedes the digits fixed so far.

`AssertionsGuarded` follows from `Sharp` and, where an interval has closed, from `LowerBound`,
`UpperBound` and `Kept` (`ClosedRealizes`); `CompletedIsOptimal` from `LowerBound` at the end of the
last bisection and from `FreshRival` (a program that means something else than the candidates has
a rival with its meaning and its size); `CompletedIsLeastInPreorder` from `LeastSoFar` when the digits
end, because no preorder is a strict prefix of another.  `UnsatMeansSpent`: the widest query of
each engine has a model, so only resources can end it.  `SearchIsAnytime` goes through the actions
once more, with `FirstStep` for the step that returns the first candidate.

The theorems assume of the grammar what `ProgramSearch` states in five assumptions:
`ProgramsMeasured` (nodes, depth and preorder fit the skeleton), `ModelsDecode` (a model decodes to
a program of its size with its values on the working set, if the names differ), `ProgramsEncoded`
(the order of commutative children loses no meaning), `ObservationsConstrain` (an observation more
never admits new models) and `ProgramsShadowed` (with one name, for each expression there is one
over the action alone).  TLC evaluates them on the sample; for the whole grammar they are not
proved, see below.

Only model-checked:

* liveness (`ReturnsOrRaises` of both orchestrators, `Terminates` of the builders and the search):
  fairness arguments need `ENABLED`, which the proof system does not reason about;
* the five assumptions about the grammar: `SynthGrammar` evaluates, encodes and decodes programs by
  recursion over their trees, and induction over data is out of the prover's reach.

## Not modelled

* Payloads: prompts, candidate partitions before the commit, record contents of the
  ledger, digests, accuracies derived from the counts.
* The ledgers' hash chains, `verify`, the redacted agent view, the optional file
  (`ledger_path`), and an append that fails.
* In V0, the views given to agents, the minimality diagnostic, and `EnumerativeSynthesizer`, which
  filters and ranks the candidates of `ProgramSearch` into theories.
* The SMT solver: a call answers in any way its constraints allow, or gives up.
* The witness queries after the score, the node and the depth phase, which the code asks when
  the incumbent does not realize the bound.  `AssertionsGuarded` proves that it always does, so
  they are never asked; the one after the error phase can be, and is modelled (`Witnessed`).
* Whether a selected intervention reveals the trap of a qualification fixture (any answer may),
  the digests of freezes and evidence, the workflows' checks of the checkout.
* The generator of random signs in the sign-flip test.
* Random world generation and the noise model: `observe` answers any value.
* The components listed as `not_modelled` in `PROJECT.json`, below.

## Plan

1. `EnumerativeSynthesizer`: the quotas of programs per source, the ranking of theories, and what an
   incomplete search means for the candidates offered to the agent; it composes `ProgramSearch`
   with `V0Theory`.
2. `V1Study` with `V1Orchestrator` in place of `ArmReturns`, for one world.
