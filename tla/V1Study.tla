-------------------------------- MODULE V1Study --------------------------------
(***************************************************************************)
(* The V1 study: the processes that expose a language model to the worlds, *)
(* each started by hand or by a one-shot workflow, and the files committed *)
(* between them.                                                           *)
(*                                                                         *)
(*   safeguard   three qualification cycles of the Critic                  *)
(*               (v1_live_qualification.py, run by                         *)
(*               scripts/run_v1_critic_qualification_live.py, its          *)
(*               replacement after an infrastructure abort, and            *)
(*               v1_v11_qualification_runner.py)                           *)
(*   null        the Full arm on Null worlds, stopped by the fifth         *)
(*               positive (v1_v11_benchmark_runner.py)                     *)
(*   causal      both arms on every causal world, the compute audit, then  *)
(*               the registered comparison (the same file)                 *)
(*                                                                         *)
(* A process may be killed at any time; it writes its evidence at its end. *)
(* The referee, who commits freezes and the pass record, is external.      *)
(***************************************************************************)
EXTENDS GeminiBackend, PrimaryAnalysis, SequencesExt

CONSTANTS
  ModelCalls,   \* calls of an arm's schedule, 13
  KillAt,       \* positives that end the Null vanguard, 5
  RatioBound    \* upper_bound of R_compute, 1.05, a fraction

ASSUME StudyConstants ==
  /\ {ModelCalls, KillAt} \subseteq Nat \ {0}
  /\ Tokens \subseteq Nat \cup {None} /\ None \notin Nat \cup BOOLEAN \cup {"safeguard", "null", "causal"}
  /\ RatioBound[1] \in Nat /\ RatioBound[2] \in Nat \ {0}
  \* KillAt is the least number of positives at which the registered rate is reached.
  /\ KillAt * KillRate[2] >= KillRate[1] * NullWorlds
  /\ (KillAt - 1) * KillRate[2] < KillRate[1] * NullWorlds

Runners == {"live", "replacement", "v11"}
Cycles == 3
Aborted == "ABORTED_PROVIDER_INFRASTRUCTURE"
Arms == {"full", "flat"}

VARIABLES
  \* committed files
  qualified,    \* result of each safeguard runner, None before
  triggered,    \* one-shot workflows whose trigger has been used
  authorized,   \* benchmark_exposure_authorized
  vanguard,     \* result of the Null vanguard, None before
  pass,         \* V11_NULL_VANGUARD_PASS.json, None before
  evidence,     \* what the process that ended last wrote, None if it was killed
  \* the process
  running,      \* "safeguard", "null", "causal" or None
  runner,       \* the safeguard's runner
  usage,        \* records of the usage sinks, the safeguard's under "full"
  starts,       \* their lengths when the cycle or world began
  arms,         \* arms of this world still to run
  results,      \* arm_results: in the Null phase 1 if B is reached, in the causal the score
  rows,         \* finished cycles, worlds or pairs
  tally         \* consecutive misses, or positives

committed == <<qualified, triggered, authorized, vanguard, pass>>
process == <<running, runner, usage, starts, arms, results, rows, tally>>
vars == <<committed, evidence, process>>

NoRecords == [arm \in Arms |-> <<>>]
NoResults == [arm \in Arms |-> None]

-------------------------------------------------------------------------------
(* Processes.                                                              *)

\* The arms of world i, counted from 0.
ArmOrder(phase, i) ==
  CASE phase = "null" -> <<"full">>
    [] phase = "causal" /\ i % 2 = 0 -> <<"full", "flat">>
    [] phase = "causal" /\ i % 2 = 1 -> <<"flat", "full">>
    [] OTHER -> <<>>

Starts(phase) ==
  /\ running = None
  /\ running' = phase
  /\ usage' = NoRecords
  /\ starts' = [arm \in Arms |-> 0]
  /\ arms' = ArmOrder(phase, 0)
  /\ results' = NoResults
  /\ rows' = <<>>
  /\ tally' = 0
  /\ evidence' = None

Exits ==
  /\ running' = None /\ runner' = None
  /\ usage' = NoRecords
  /\ starts' = [arm \in Arms |-> 0]
  /\ arms' = <<>>
  /\ results' = NoResults
  /\ rows' = <<>>
  /\ tally' = 0

\* The job's time limit, the machine, or an exception nobody catches.
Killed ==
  /\ running # None
  /\ Exits
  /\ evidence' = None
  /\ UNCHANGED committed

\* The records appended since the cycle or world began.
Since(arm) == SubSeq(usage[arm], starts[arm] + 1, Len(usage[arm]))

Known(records) == SelectSeq(records, LAMBDA t : t # None)

\* _usage_totals of the qualification runners: a missing count is left out.
PartialUsageTotal(records) ==
  IF Known(records) = <<>> THEN None ELSE SumOf(Known(records))

\* _usage_totals of the benchmark: one missing count leaves no total.
UsageTotal(records) ==
  IF records = <<>> \/ None \in Range(records) THEN None ELSE SumOf(records)

-------------------------------------------------------------------------------
(* The safeguard.                                                          *)

CycleRow(hit, usageIndex) == [hit |-> hit, usage_index |-> usageIndex]
PendingCycles(n) == [i \in 1 .. n |-> CycleRow(None, None)]

\* The verdict of a finished safeguard, and the referee's ruling a runner asks for.
Verdict(misses) == IF misses < 3 THEN "COMPLETED_PASS" ELSE "COMPLETED_FAIL"

Request(class) ==
  CASE class = "COMPLETED_PASS" -> "authorize"
    [] class = Aborted -> "hold"
    [] OTHER -> "terminate"

SafeguardEvidence(class, cycles, misses, records) ==
  [phase |-> "safeguard", class |-> class, cycles |-> cycles, misses |-> misses,
   usage |-> records, total |-> PartialUsageTotal(records), request |-> Request(class)]

\* Without an API key no request is sent: all three cycles stay pending.
SafeguardStarts(r) ==
  /\ running = None /\ r \notin triggered
  /\ triggered' = triggered \cup {r}
  /\ \/ /\ Starts("safeguard")
        /\ runner' = r
        /\ UNCHANGED qualified
     \/ /\ evidence' = SafeguardEvidence(Aborted, PendingCycles(Cycles), None, <<>>)
        /\ qualified' = [qualified EXCEPT ![r] = Aborted]
        /\ UNCHANGED process
  /\ UNCHANGED <<authorized, vanguard, pass>>

StartLive == SafeguardStarts("live")

\* Its freeze names the run it replaces, an infrastructure abort.
StartReplacement ==
  /\ qualified["live"] = Aborted
  /\ SafeguardStarts("replacement")

\* Its freeze follows the final failure of V1, which its manifest names.
StartV11 ==
  /\ qualified["replacement"] = "COMPLETED_FAIL"
  /\ SafeguardStarts("v11")

SafeguardWrites(class, cycles, misses, records) ==
  /\ evidence' = SafeguardEvidence(class, cycles, misses, records)
  /\ qualified' = [qualified EXCEPT ![runner] = class]
  /\ Exits
  /\ UNCHANGED <<triggered, authorized, vanguard, pass>>

InCycle == running = "safeguard" /\ Len(rows) < Cycles

CycleAborts(records) ==
  SafeguardWrites(Aborted, rows \o PendingCycles(Cycles - Len(rows)), None, records)

CycleEnds(hit, records) ==
  /\ usage' = [usage EXCEPT !["full"] = records]
  /\ starts' = [starts EXCEPT !["full"] = Len(records)]
  /\ rows' = Append(rows, CycleRow(hit, starts["full"]))
  /\ tally' = IF hit THEN 0 ELSE tally + 1
  /\ UNCHANGED <<committed, evidence, running, runner, arms, results>>

\* Mutant: every V1AgentInterfaceError is a miss.
CycleInvalidUncounted(records) == CycleEnds(FALSE, records)

\* V1AgentInterfaceError: a miss, if the provider has answered.
CycleInvalid(records) ==
  IF Len(records) = starts["full"] + 1 THEN CycleEnds(FALSE, records) ELSE CycleAborts(records)

\* select() calls the provider and validates what it answers.
CycleAnswered ==
  /\ InCycle
  /\ \E response \in Responses :
       LET records == Invoke(usage["full"], response)
       IN  /\ ~ Raises(response)
           /\ \/ CycleInvalid(records)
              \/ /\ Len(records) = starts["full"] + 1
                 /\ \E hit \in BOOLEAN : CycleEnds(hit, records)

CycleProviderFails ==
  /\ InCycle
  /\ \E response \in Responses :
       Raises(response) /\ CycleAborts(Invoke(usage["full"], response))

\* The response schema cannot be built: the error comes before the call.
CycleFailsLocally == InCycle /\ CycleInvalid(usage["full"])

SafeguardCompletes ==
  /\ running = "safeguard" /\ Len(rows) = Cycles
  /\ SafeguardWrites(Verdict(tally), rows, tally, usage["full"])

-------------------------------------------------------------------------------
(* The referee.                                                            *)

\* The benchmark freeze, on the request of the V1.1 checkpoint.
Authorize ==
  /\ qualified["v11"] # None /\ Request(qualified["v11"]) = "authorize"
  /\ authorized' = TRUE
  /\ UNCHANGED <<qualified, triggered, vanguard, pass, evidence, process>>

Status(class) == IF class = "NULL_PASS" THEN "NULL_VANGUARD_PASSED" ELSE "not_passed"
PassRecords == [status : {"NULL_VANGUARD_PASSED", "not_passed"},
                positive_count : 0 .. NullWorlds \cup {None}]

\* The pass record is written by hand.  Bound: at most one of its fields is wrong, which
\* nothing in the code enforces.
Ratify ==
  /\ vanguard # None /\ pass = None
  /\ pass' \in {r \in PassRecords : \/ r.status = Status(vanguard.class)
                                    \/ r.positive_count = vanguard.positives}
  /\ UNCHANGED <<qualified, triggered, authorized, vanguard, evidence, process>>

-------------------------------------------------------------------------------
(* Model calls of the benchmark.                                           *)

CallsMade(arm) == Len(usage[arm]) - starts[arm]
Calling == arms # <<>> /\ CallsMade(Head(arms)) < ModelCalls

CallAnswered ==
  /\ Calling
  /\ \E response \in Responses :
       /\ ~ Raises(response)
       /\ usage' = [usage EXCEPT ![Head(arms)] = Invoke(@, response)]
  /\ UNCHANGED <<committed, evidence, running, runner, starts, arms, results, rows, tally>>

\* run() of an arm returns: B reached, or a score above zero, only after its whole
\* schedule; an answer the interface or the broker rejects ends it earlier.
ArmReturns ==
  /\ arms # <<>>
  /\ \E value \in 0 .. (IF running = "null" THEN 1 ELSE ScoreMax) :
       /\ value = 0 \/ CallsMade(Head(arms)) = ModelCalls
       /\ results' = [results EXCEPT ![Head(arms)] = value]
  /\ arms' = Tail(arms)
  /\ UNCHANGED <<committed, evidence, running, runner, usage, starts, rows, tally>>

\* Mutant: the arms' records are sliced from the start of the phase.
NextWorldUnsliced(row) ==
  /\ rows' = Append(rows, row)
  /\ starts' = starts
  /\ arms' = ArmOrder(running, Len(rows) + 1)
  /\ results' = NoResults
  /\ UNCHANGED <<committed, evidence, running, runner, usage>>

NextWorld(row) ==
  /\ rows' = Append(rows, row)
  /\ starts' = [arm \in Arms |-> Len(usage[arm])]
  /\ arms' = ArmOrder(running, Len(rows) + 1)
  /\ results' = NoResults
  /\ UNCHANGED <<committed, evidence, running, runner, usage>>

-------------------------------------------------------------------------------
(* The Null vanguard.                                                      *)

\* The workflow checks the qualification; the runner loads the freeze.
StartNull ==
  /\ authorized /\ qualified["v11"] = "COMPLETED_PASS"
  /\ "null" \notin triggered /\ pass = None
  /\ Starts("null")
  /\ triggered' = triggered \cup {"null"}
  /\ UNCHANGED <<runner, qualified, authorized, vanguard, pass>>

\* Mutant: one positive more.
KillReachedLate(positives) == positives > KillAt
KillReached(positives) == positives >= KillAt

NullWrites(class, worlds, positives, records) ==
  /\ evidence' = [phase |-> "null", class |-> class, worlds |-> worlds, positives |-> positives,
                  usage |-> [NoRecords EXCEPT !["full"] = records], total |-> UsageTotal(records)]
  /\ vanguard' = [class |-> class, positives |-> positives]
  /\ Exits
  /\ UNCHANGED <<qualified, triggered, authorized, pass>>

NullProviderFails ==
  /\ running = "null" /\ Calling
  /\ \E response \in Responses :
       /\ Raises(response)
       /\ NullWrites(Aborted, rows, tally, Invoke(usage["full"], response))

NullRow == [positive |-> results["full"] = 1, calls |-> [full |-> Len(Since("full")), flat |-> 0],
            total |-> [full |-> UsageTotal(Since("full")), flat |-> None]]

\* A world is done, and the next begins, the fifth positive ends the phase, or there are
\* no more worlds.
NullWorldEnds ==
  /\ running = "null" /\ arms = <<>>
  /\ LET positives == tally + results["full"]
     IN  CASE KillReached(positives) ->
                NullWrites("HALLUCINATION_KILL", Append(rows, NullRow), positives, usage["full"])
           [] ~ KillReached(positives) /\ Len(rows) + 1 = NullWorlds ->
                NullWrites("NULL_PASS", Append(rows, NullRow), positives, usage["full"])
           [] OTHER -> NextWorld(NullRow) /\ tally' = positives

-------------------------------------------------------------------------------
(* The causal phase.                                                       *)

\* Mutant: only the status of the record is looked at.
NullPassedByStatus(r) == r # None /\ r.status = "NULL_VANGUARD_PASSED"

\* _require_null_pass; a missing count reads as 999.
NullPassed(r) ==
  /\ r # None
  /\ r.status = "NULL_VANGUARD_PASSED"
  /\ r.positive_count # None /\ r.positive_count < KillAt

\* Started by hand: nothing in the code makes it one-shot.
StartCausal ==
  /\ authorized /\ NullPassed(pass)
  /\ Starts("causal")
  /\ UNCHANGED <<runner, committed>>

CausalProviderFails ==
  /\ running = "causal" /\ Calling
  /\ \E response \in Responses :
       /\ Raises(response)
       /\ evidence' = [phase |-> "causal", class |-> Aborted, worlds |-> rows,
                       usage |-> [usage EXCEPT ![Head(arms)] = Invoke(@, response)],
                       success |-> FALSE]
  /\ Exits
  /\ UNCHANGED committed

PairRow == [score |-> results,
            calls |-> [arm \in Arms |-> Len(Since(arm))],
            total |-> [arm \in Arms |-> UsageTotal(Since(arm))]]

\* The compute audit.
ComputeStatus(full, flat) ==
  IF full = None \/ flat = None \/ flat = 0 THEN "COMPUTE_AUDIT_INVALID"
  ELSE IF full * RatioBound[2] <= RatioBound[1] * flat THEN "VALID"
  ELSE "FULL_WIN_INVALID_IF_NOMINAL"

CausalCompletes(pairs) ==
  LET audit == ComputeStatus(UsageTotal(usage["full"]), UsageTotal(usage["flat"]))
      comparison == PairedSignFlipTest([i \in DOMAIN pairs |-> pairs[i].score["full"]],
                                       [i \in DOMAIN pairs |-> pairs[i].score["flat"]])
  IN  evidence' = [phase |-> "causal", class |-> "COMPLETED", worlds |-> pairs, usage |-> usage,
                   audit |-> audit, comparison |-> comparison,
                   success |-> comparison.success /\ audit = "VALID"]

PairEnds ==
  /\ running = "causal" /\ arms = <<>>
  /\ IF Len(rows) + 1 = CausalWorlds
     THEN CausalCompletes(Append(rows, PairRow)) /\ Exits /\ UNCHANGED committed
     ELSE NextWorld(PairRow) /\ UNCHANGED tally

-------------------------------------------------------------------------------
(* The specification.                                                      *)

Init ==
  /\ qualified = [r \in Runners |-> None]
  /\ triggered = {} /\ authorized = FALSE /\ vanguard = None /\ pass = None
  /\ evidence = None
  /\ running = None /\ runner = None
  /\ usage = NoRecords /\ starts = [arm \in Arms |-> 0]
  /\ arms = <<>> /\ results = NoResults
  /\ rows = <<>> /\ tally = 0

Next ==
  \/ StartLive \/ StartReplacement \/ StartV11
  \/ CycleAnswered \/ CycleProviderFails \/ CycleFailsLocally \/ SafeguardCompletes
  \/ Authorize \/ Ratify
  \/ StartNull \/ StartCausal
  \/ CallAnswered \/ ArmReturns
  \/ NullProviderFails \/ NullWorldEnds
  \/ CausalProviderFails \/ PairEnds
  \/ Killed

Spec == Init /\ [][Next]_vars

-------------------------------------------------------------------------------
(* Properties.                                                             *)

Wrote(phase) == evidence # None /\ evidence.phase = phase

\* A safeguard has a verdict only if the provider answered all three cycles, and it
\* passes exactly if one of them selected the revealing intervention; an abort leaves
\* the answered cycles in front of the pending ones, and has no verdict.  Every answered
\* cycle has the usage record of its own call, and there is no other record.
InfrastructureIsNoVerdict ==
  Wrote("safeguard") =>
    LET answered == {i \in DOMAIN evidence.cycles : evidence.cycles[i].hit # None}
    IN  /\ evidence.class = Aborted <=> evidence.misses = None
        /\ evidence.class # Aborted =>
             /\ answered = 1 .. Cycles
             /\ evidence.class = "COMPLETED_PASS" <=> \E i \in answered : evidence.cycles[i].hit
        /\ answered = 1 .. Len(evidence.usage)
        /\ \A i \in answered : evidence.cycles[i].usage_index = i - 1

\* concept_declarations of the registered analysis.
Declared(worlds) == [i \in DOMAIN worlds |-> worlds[i].positive]

\* Stopping early decides nothing the registered analysis would not: however the worlds
\* not executed turned out, a killed vanguard has reached the rate over all the Null
\* worlds, and one that passed has executed them all and has not.
EarlyStopDecides ==
  Wrote("null") =>
    LET declared == Declared(evidence.worlds)
        open == NullWorlds - Len(declared)
    IN  /\ evidence.class = "HALLUCINATION_KILL" =>
             \A rest \in [1 .. open -> BOOLEAN] : HallucinationKill(declared \o rest)
        /\ evidence.class = "NULL_PASS" => open = 0 /\ ~ HallucinationKill(declared)

\* No causal world is ever exposed after a killed vanguard, nor before one, even if one
\* field of the pass record is wrong; nor after an aborted one, unless the wrong field is
\* the status.
KilledStaysLocked ==
  running = "causal" =>
    /\ vanguard # None /\ vanguard.class # "HALLUCINATION_KILL"
    /\ pass # None
    /\ pass.status = Status(vanguard.class) => vanguard.class = "NULL_PASS"

\* Every usage record of a benchmark phase belongs to one of the worlds in its evidence,
\* or to the world a provider failure interrupted.
UsageAttributed ==
  (Wrote("null") \/ Wrote("causal")) =>
    \A arm \in Arms :
      LET rowCalls == SumOf([i \in DOMAIN evidence.worlds |-> evidence.worlds[i].calls[arm]])
          interrupted == Len(evidence.usage[arm]) - rowCalls
      IN  /\ interrupted \in 0 .. (IF evidence.class = Aborted THEN ModelCalls ELSE 0)
          /\ evidence.class # Aborted /\ None \notin Range(evidence.usage[arm]) =>
               SumOf(evidence.usage[arm]) =
                 SumOf([i \in DOMAIN evidence.worlds |->
                   IF evidence.worlds[i].total[arm] = None THEN 0 ELSE evidence.worlds[i].total[arm]])

\* Success is claimed only when every pair has both arms, the provider reported the
\* tokens of every call, those of the pairs stay within the ratio, and the Full arm has
\* the registered advantage over the Flat arm.
SuccessIsEarned ==
  (Wrote("causal") /\ evidence.success) =>
    LET Sum(Value(_)) == SumOf([i \in DOMAIN evidence.worlds |-> Value(evidence.worlds[i])])
        TokensOf(arm) == Sum(LAMBDA w : IF w.calls[arm] = 0 THEN 0 ELSE w.total[arm])
    IN  /\ Len(evidence.worlds) = CausalWorlds
        /\ \A arm \in Arms : None \notin Range(evidence.usage[arm])
        /\ TokensOf("flat") > 0
        /\ TokensOf("full") * RatioBound[2] <= RatioBound[1] * TokensOf("flat")
        /\ Sum(LAMBDA w : w.score["full"] - w.score["flat"]) * MinAdvantage[2]
             >= MinAdvantage[1] * ScoreMax * CausalWorlds
================================================================================
