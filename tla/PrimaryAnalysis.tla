---------------------------- MODULE PrimaryAnalysis ----------------------------
(***************************************************************************)
(* The registered analyses of archimedes_v0/analysis_plan.py, on scores    *)
(* that are numbers of correct transfer predictions out of ScoreMax.  The  *)
(* draws of the seeded generator are a constant: a sequence of functions   *)
(* that give each world a sign.                                            *)
(***************************************************************************)
EXTENDS Integers, Sequences, FiniteSets, FiniteSetsExt

CONSTANTS
  CausalWorlds,     \* CAUSAL_WORLDS_PER_ARM, 100
  NullWorlds,       \* NULL_WORLDS_FULL, 100
  ScoreMax,         \* transfer predictions of a world, 32
  Alpha,            \* PRIMARY_ALPHA, a fraction <<numerator, denominator>>
  MinAdvantage,     \* PRIMARY_MIN_MEAN_ADVANTAGE
  KillRate,         \* false positive rate of the hallucination kill
  Draws             \* the sign vectors of random.Random(PERMUTATION_SEED)

ASSUME AnalysisConstants ==
  /\ {CausalWorlds, NullWorlds, ScoreMax} \subseteq Nat \ {0}
  /\ \A rate \in {Alpha, MinAdvantage, KillRate} : rate[1] \in Nat /\ rate[2] \in Nat \ {0}
  /\ Draws \in Seq([1 .. CausalWorlds -> {-1, 1}]) /\ Draws # <<>>

SumOf(f) == MapThenSumSet(LAMBDA i : f[i], DOMAIN f)

\* The one-sided sign-flip test on the worlds' differences.
PairedSignFlipTest(full, flat) ==
  LET diffs == [i \in DOMAIN full |-> full[i] - flat[i]]
      observed == SumOf(diffs)
      extreme == Cardinality({d \in DOMAIN Draws :
                               SumOf([i \in DOMAIN diffs |-> Draws[d][i] * diffs[i]]) >= observed})
      significant == (extreme + 1) * Alpha[2] < Alpha[1] * (Len(Draws) + 1)
      effect == observed * MinAdvantage[2] >= MinAdvantage[1] * ScoreMax * Len(full)
  IN  [difference |-> observed, significant |-> significant, effect |-> effect,
       success |-> significant /\ effect]

Positives(declarations) == {i \in DOMAIN declarations : declarations[i]}

\* The kill as registered: the false positive rate over all the Null worlds.
HallucinationKill(declarations) ==
  Cardinality(Positives(declarations)) * KillRate[2] >= KillRate[1] * NullWorlds

===============================================================================
