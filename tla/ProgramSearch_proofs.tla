------------------------- MODULE ProgramSearch_proofs -------------------------
(***************************************************************************)
(* Theorems about ProgramSearch, for every engine, every job and every     *)
(* grammar that meets the assumptions on programs and encodings.           *)
(*                                                                         *)
(* A query that is refuted says something about the models not yet         *)
(* blocked: their errors on the working set, and what comes after, are     *)
(* beyond the bound.  LowerBound keeps what the refutations of a search    *)
(* say together, UpperBound what the incumbent achieves, and a search that *)
(* completes has brought the two to one value.                             *)
(***************************************************************************)
EXTENDS ProgramSearch, FiniteSetTheorems, SequenceTheorems, WellFoundedInduction, TLAPS

Searching == phase \notin {"done", "raised"}

-------------------------------------------------------------------------------
(* Types, and which phase has what.                                        *)

Bases ==
  /\ engine \in Engines /\ job \in Jobs
  /\ job.same_name => engine \in CegisEngines
  /\ work \in WorkingSets(engine, job)
  /\ phase \in Phases
  /\ lo \in Nat /\ hi \in Nat

Incumbents ==
  /\ {best, base, cand} \subseteq Legal \cup {None}
  /\ phase \in {"score", "nodes", "depth", "canon"} => best # None
  /\ (engine = "feasible_first" /\ phase \in {"exact", "errors"}) => best # None
  /\ (phase = "errors" /\ engine # "cegis") => best # None
  /\ phase \in {"any", "bracket"} \/ (phase = "exact" /\ engine # "feasible_first") => best = None
  /\ phase = "canon" => base # None

PhasesOfEngine ==
  /\ phase \in {"exact", "any", "errors", "witness", "nodes"} => engine # "lexscore"
  /\ phase \in {"bracket", "score"} => engine = "lexscore"

CapsOfPhase ==
  /\ cap = [err |-> cap.err, nodes |-> cap.nodes, depth |-> cap.depth]
  /\ cap.err \in 0 .. Len(obs) /\ {cap.nodes, cap.depth} \subseteq Nat \cup {None}
  /\ phase \in {"any", "exact", "bracket", "errors", "score", "witness"} => cap = NoCap
  /\ phase = "nodes" => cap.nodes = None /\ cap.depth = None
  /\ phase = "depth" => cap.nodes \in Nat /\ cap.depth = None
  /\ phase = "canon" => cap.nodes \in Nat /\ cap.depth \in Nat

Digits ==
  /\ fixed \in Seq(Nat)
  /\ Searching /\ phase # "canon" => fixed = <<>>
  /\ phase = "canon" => Len(fixed) < Len(Preorder(best))

Candidates ==
  /\ found \in Seq([program : Legal, complete : BOOLEAN])
  /\ Len(found) <= job.limit
  /\ Searching => Len(found) < job.limit
  /\ phase # "done" => status = None

Answers ==
  /\ ans \in {"none", "feasible", "infeasible", "unknown"}
  /\ budget \in {"left", "spent", "refused", "exhausted"}
  /\ engine \in CegisEngines => budget # "refused"
  /\ ans # "none" => Querying
  /\ ans = "feasible" =>
       Accepted(cand) /\ \E m \in Feasible : cand = Decoded(m) /\ Sound(m, cand)
  /\ ans = "infeasible" => Feasible = {}
  /\ (ans = "unknown" /\ engine \in CegisEngines) => budget # "left"

Typed ==
  Bases /\ Incumbents /\ PhasesOfEngine /\ CapsOfPhase /\ Digits /\ Candidates /\ Answers

-------------------------------------------------------------------------------
(* What the answers say.                                                   *)

\* The models that no candidate blocks.
Rivals ==
  {m \in SpaceOf(engine, job, work) : \A k \in DOMAIN found : ~ Blocked(m, found[k].program)}

Total(e, n) == e * Weight + n

\* The refutations of this optimization allow a program with e errors, n nodes and depth d.
Allows(e, n, d) ==
  /\ phase \in {"errors", "witness"} => e >= lo
  /\ phase \in {"bracket", "score"} => Total(e, n) >= lo
  /\ phase \in {"nodes", "depth", "canon"} => e >= cap.err
  /\ phase = "nodes" /\ e = cap.err => n >= lo
  /\ phase \in {"depth", "canon"} /\ e = cap.err => n >= cap.nodes
  /\ phase = "depth" /\ e = cap.err /\ n = cap.nodes => d >= lo
  /\ phase = "canon" /\ e = cap.err /\ n = cap.nodes => d >= cap.depth

LowerBound == \A m \in Rivals : Allows(WorkErrors(m), Nodes(m), Depth(m))

\* What the incumbent achieves.
UpperBound ==
  /\ phase = "errors" => IF best = None THEN hi = Len(obs) ELSE Errors(best) = hi
  /\ phase = "score" => Score(best) = hi
  /\ phase \in {"nodes", "depth", "canon"} => Errors(best) <= cap.err
  /\ phase = "nodes" /\ Errors(best) = cap.err => Nodes(best) = hi
  /\ phase = "depth" /\ Errors(best) = cap.err =>
       /\ Nodes(best) <= cap.nodes
       /\ Nodes(best) = cap.nodes =>
            Depth(best) <= hi /\ (engine \in CegisEngines => Depth(best) = hi)
  /\ phase = "canon" =>
       /\ Nodes(best) <= cap.nodes /\ Depth(best) <= cap.depth
       /\ Key(base) = <<cap.err, cap.nodes, cap.depth>>

\* A decoded model may be a program already returned, or one over other names: then nothing
\* bounds it from below.
Bounded == found = <<>> \/ (engine # "feasible_first" /\ ~ job.same_name)

\* The two bounds close in on the incumbent.  Only the error phase of feasible_first can
\* start beyond it, and only there and over equal names can an assertion fail.
Sharp ==
  /\ Bounded =>
       /\ phase = "errors" => lo <= hi
       /\ phase = "witness" => best = None /\ lo = Len(obs)
       /\ phase = "raised" => job.same_name
  /\ phase \in {"score", "nodes", "depth"} => lo <= hi
  /\ phase \in {"nodes", "depth", "canon"} => Errors(best) = cap.err
  /\ phase \in {"depth", "canon"} => Nodes(best) = cap.nodes
  /\ phase = "canon" => Depth(best) = cap.depth

\* The skeleton engines encode every observation and decode nothing.
Kept == (engine \in SkeletonEngines /\ best # None /\ phase # "done") => best \in Rivals

-------------------------------------------------------------------------------
(* The tie-break of the skeleton engines.                                  *)

Agree(s, t, n) == n <= Len(s) /\ n <= Len(t) /\ \A i \in 1 .. n : s[i] = t[i]

AsGood(m) == WorkErrors(m) = cap.err /\ Nodes(m) = cap.nodes /\ Depth(m) = cap.depth

NoLesser(s) ==
  /\ \A k \in 1 .. Len(fixed) : k <= Len(s) /\ Agree(fixed, s, k - 1) => s[k] >= fixed[k]
  /\ Len(fixed) + 1 <= Len(s) /\ Agree(fixed, s, Len(fixed)) => s[Len(fixed) + 1] >= lo

\* No rival as good as the incumbent has a lesser preorder as far as its digits are fixed.
LeastSoFar ==
  (phase = "canon" /\ engine \in SkeletonEngines) =>
    /\ Agree(fixed, Preorder(best), Len(fixed))
    /\ Preorder(best)[Len(fixed) + 1] = hi
    /\ \A m \in Rivals : AsGood(m) => NoLesser(Preorder(m))

-------------------------------------------------------------------------------
(* What was returned.                                                      *)

BestOfFresh ==
  \A k \in DOMAIN found : (found[k].complete /\ (k = 1 \/ ~ job.same_name)) =>
    \A p \in Fresh(k) : ~ KeyLess(Key(p), Key(found[k].program))

LeastOfFresh ==
  \A k \in DOMAIN found : (found[k].complete /\ engine \in SkeletonEngines) =>
    \A p \in SpaceOf(engine, job, work) \cap Fresh(k) :
      Key(p) = Key(found[k].program) => ~ LexLess(Preorder(p), Preorder(found[k].program))

-------------------------------------------------------------------------------
(* Facts about a job and its measures.                                     *)

Less == {p \in Nat \X Nat : p[1] < p[2]}

LEMMA LeastNatural ==
  ASSUME NEW S, S \subseteq Nat, S # {}
  PROVE  \E m \in S : \A k \in S : m <= k
<1>1. IsWellFoundedOn(Less, Nat)
  BY Zenon, NatLessThanWellFounded DEF OpToRel, Less
<1>2. PICK m \in S : \A k \in S : ~ (<<k, m>> \in Less)
  BY <1>1, WFMin
<1>3. ASSUME NEW k \in S PROVE m <= k
  <2>1. k \in Nat /\ m \in Nat /\ ~ (<<k, m>> \in Less)
    BY <1>2
  <2>2. ~ (k < m)
    BY <2>1 DEF Less
  <2>3. QED
    BY <2>1, <2>2
<1>4. QED
  BY <1>3

LEMMA JobFacts ==
  ASSUME NEW j \in Jobs
  PROVE  /\ Len(j.obs) \in Nat /\ Len(j.obs) >= 1 /\ DOMAIN j.obs = 1 .. Len(j.obs)
         /\ j.limit \in Nat /\ j.limit >= 1 /\ j.same_name \in BOOLEAN
         /\ 2 ^ j.max_depth - 1 \in Nat /\ LegalIn(j) # {}
BY SearchConstants, ProgramsMeasured

LEMMA PartOfInterval ==
  ASSUME NEW n \in Nat, NEW S, S \subseteq 1 .. n
  PROVE  IsFiniteSet(S) /\ Cardinality(S) \in 0 .. n
<1>1. IsFiniteSet(1 .. n) /\ Cardinality(1 .. n) = n
  BY FS_Interval
<1>2. IsFiniteSet(S) /\ Cardinality(S) <= n
  BY <1>1, FS_Subset
<1> QED
  BY <1>2, FS_CardinalityType

LEMMA ErrorsBounded ==
  ASSUME NEW j \in Jobs, NEW p
  PROVE  ErrorsIn(j, p) \in 0 .. Len(j.obs)
<1>1. {i \in DOMAIN j.obs : Evaluated(j, p, j.obs[i].pt) # j.obs[i].y} \subseteq 1 .. Len(j.obs)
  BY JobFacts
<1> QED
  BY <1>1, JobFacts, PartOfInterval DEF ErrorsIn

\* A program misses at least the observations of a part of the job.
LEMMA FewerMissed ==
  ASSUME NEW j \in Jobs, NEW p, NEW q, NEW S, S \subseteq DOMAIN j.obs,
         \A i \in S : Root(q, j.obs[i].pt) = Evaluated(j, p, j.obs[i].pt)
  PROVE  /\ Cardinality({i \in S : Root(q, j.obs[i].pt) # j.obs[i].y}) <= ErrorsIn(j, p)
         /\ S = DOMAIN j.obs =>
              Cardinality({i \in S : Root(q, j.obs[i].pt) # j.obs[i].y}) = ErrorsIn(j, p)
<1> DEFINE A == {i \in S : Root(q, j.obs[i].pt) # j.obs[i].y}
           B == {i \in DOMAIN j.obs : Evaluated(j, p, j.obs[i].pt) # j.obs[i].y}
<1>1. A \subseteq B /\ B \subseteq 1 .. Len(j.obs) /\ (S = DOMAIN j.obs => A = B)
  BY JobFacts
<1>2. IsFiniteSet(B)
  BY <1>1, JobFacts, PartOfInterval
<1>3. Cardinality(A) <= Cardinality(B)
  BY <1>1, <1>2, FS_Subset
<1> QED
  BY <1>1, <1>3 DEF ErrorsIn

-------------------------------------------------------------------------------
(* Working sets.                                                           *)

LEMMA WorkFacts ==
  ASSUME NEW e \in Engines, NEW j \in Jobs, NEW w \in WorkingSets(e, j)
  PROVE  /\ w \in Seq(DOMAIN j.obs) /\ Len(w) >= 1
         /\ DOMAIN w = 1 .. Len(w) /\ Len(w) \in Nat
         /\ IsInjective(w)
         /\ e \in SkeletonEngines => w = [i \in DOMAIN j.obs |-> i]
         /\ e \notin SkeletonEngines => w[1] = 1
<1>1. CASE e \in SkeletonEngines
  <2>1. w = [i \in 1 .. Len(j.obs) |-> i] /\ Len(j.obs) \in Nat /\ Len(j.obs) >= 1
    BY <1>1, JobFacts DEF WorkingSets
  <2>2. w \in Seq(DOMAIN j.obs) /\ DOMAIN w = 1 .. Len(j.obs) /\ Len(w) = Len(j.obs)
    BY <2>1, JobFacts
  <2> QED
    BY <1>1, <2>1, <2>2, JobFacts DEF IsInjective
<1>2. CASE e \notin SkeletonEngines
  <2>1. PICK n \in DOMAIN j.obs : w \in [1 .. n -> DOMAIN j.obs] /\ w[1] = 1 /\ IsInjective(w)
    BY <1>2 DEF WorkingSets
  <2>2. n \in Nat /\ n >= 1
    BY JobFacts
  <2>3. w \in Seq(DOMAIN j.obs) /\ Len(w) = n /\ DOMAIN w = 1 .. n
    BY <2>1, <2>2
  <2> QED
    BY <1>2, <2>1, <2>2, <2>3
<1> QED
  BY <1>1, <1>2

LEMMA WorkGrows ==
  ASSUME NEW e \in Engines \ SkeletonEngines, NEW j \in Jobs, NEW w \in WorkingSets(e, j),
         NEW i \in DOMAIN j.obs \ Range(w)
  PROVE  Append(w, i) \in WorkingSets(e, j)
<1> DEFINE v == Append(w, i)
<1>1. /\ w \in Seq(DOMAIN j.obs) /\ Len(w) >= 1 /\ Len(w) \in Nat /\ DOMAIN w = 1 .. Len(w)
      /\ IsInjective(w) /\ w[1] = 1
  BY WorkFacts
<1>2. v \in Seq(DOMAIN j.obs) /\ Len(v) = Len(w) + 1 /\ DOMAIN v = 1 .. Len(w) + 1
      /\ v[Len(w) + 1] = i /\ \A k \in 1 .. Len(w) : v[k] = w[k]
  BY <1>1
<1>3. \A k \in 1 .. Len(w) : w[k] # i
  BY <1>1 DEF Range
<1>4. IsInjective(v)
  BY <1>1, <1>2, <1>3 DEF IsInjective
<1>5. v \in [1 .. Len(v) -> DOMAIN j.obs]
  BY <1>2, LenProperties
<1>6. v \in Injection(1 .. Len(v), 1 .. Len(j.obs))
  BY <1>4, <1>5, JobFacts DEF Injection
<1>7. Len(v) <= Len(j.obs)
  BY <1>2, <1>6, JobFacts, FS_Injection, FS_Interval, <1>1
<1>8. Len(v) \in DOMAIN j.obs
  BY <1>1, <1>2, <1>7, JobFacts
<1>9. v[1] = 1
  BY <1>1, <1>2
<1>10. v \in UNION {[1 .. n -> DOMAIN j.obs] : n \in DOMAIN j.obs}
  BY <1>5, <1>8, Zenon
<1> QED
  BY <1>4, <1>9, <1>10 DEF WorkingSets

\* The errors on the working set are counted once each.
LEMMA WorkErrorsAreOf ==
  ASSUME Bases, NEW m
  PROVE  /\ Range(work) \subseteq DOMAIN obs
         /\ WorkErrors(m) = Cardinality({i \in Range(work) : Misses(m, i)})
<1> DEFINE K == {k \in DOMAIN work : Misses(m, work[k])}
           I == {i \in Range(work) : Misses(m, i)}
           f == [k \in K |-> work[k]]
<1>1. /\ work \in Seq(DOMAIN obs) /\ DOMAIN work = 1 .. Len(work) /\ Len(work) \in Nat
      /\ IsInjective(work)
  BY WorkFacts DEF Bases, obs
<1>2. IsFiniteSet(K)
  BY <1>1, PartOfInterval
<1>3. f \in Bijection(K, I)
  BY <1>1 DEF Bijection, Injection, Surjection, IsInjective, Range
<1>4. Cardinality(I) = Cardinality(K)
  BY <1>2, <1>3, FS_Bijection, Zenon DEF ExistsBijection
<1>5. Range(work) \subseteq DOMAIN obs
  BY <1>1 DEF Range
<1> QED
  BY <1>4, <1>5 DEF WorkErrors

-------------------------------------------------------------------------------
(* Measures of programs and models.                                        *)

LEMMA JobType ==
  ASSUME Bases
  PROVE  /\ Len(obs) \in Nat /\ Len(obs) >= 1 /\ DOMAIN obs = 1 .. Len(obs)
         /\ MaxNodes \in Nat /\ Weight \in Nat /\ Weight = MaxNodes + 1
         /\ job.limit \in Nat /\ job.limit >= 1 /\ Legal # {}
BY JobFacts DEF Bases, obs, MaxNodes, MaxDepth, Weight, Legal

LEMMA ProgramFacts ==
  ASSUME Bases, NEW p \in Legal
  PROVE  /\ Errors(p) \in 0 .. Len(obs)
         /\ Nodes(p) \in 1 .. MaxNodes /\ Depth(p) \in 1 .. MaxDepth
         /\ Preorder(p) \in Seq(Nat) /\ Len(Preorder(p)) >= 1
         /\ p # None
<1>1. /\ Nodes(p) \in 1 .. MaxNodes /\ Depth(p) \in 1 .. MaxDepth
      /\ Preorder(p) \in Seq(Nat) \ {<<>>}
  BY ProgramsMeasured DEF Bases, Legal, MaxNodes, MaxDepth
<1>2. Len(Preorder(p)) >= 1
  BY <1>1, EmptySeq
<1>3. p # None
  BY SearchConstants DEF Legal, LegalIn
<1> QED
  BY <1>1, <1>2, <1>3, ErrorsBounded DEF Bases, Errors, obs

LEMMA ModelFacts ==
  ASSUME Bases, NEW m \in SpaceOf(engine, job, work)
  PROVE  /\ WorkErrors(m) \in 0 .. Len(obs)
         /\ Nodes(m) \in 1 .. MaxNodes /\ Depth(m) \in 1 .. MaxDepth
         /\ Preorder(m) \in Seq(Nat)
         /\ Decoded(m) # None =>
              /\ Decoded(m) \in Legal
              /\ Nodes(Decoded(m)) = Nodes(m) /\ Depth(Decoded(m)) = Depth(m)
              /\ Len(Preorder(Decoded(m))) = Len(Preorder(m))
         /\ ~ job.same_name => Sound(m, Decoded(m))
         /\ engine \in SkeletonEngines => Decoded(m) = m /\ Decoded(m) # None
<1> DEFINE p == Decode(engine, m, PointsOf(job, work), job.same_name)
<1>1. /\ Nodes(m) \in 1 .. MaxNodes /\ Depth(m) \in 1 .. MaxDepth
      /\ Preorder(m) \in Seq(Nat)
      /\ p # None => /\ p \in Legal
                     /\ Nodes(p) = Nodes(m) /\ Depth(p) = Depth(m)
                     /\ Len(Preorder(p)) = Len(Preorder(m))
      /\ ~ job.same_name =>
           /\ p # None
           /\ \A k \in DOMAIN work : Root(p, obs[work[k]].pt) = Root(m, obs[work[k]].pt)
           /\ engine \in SkeletonEngines => p = m
  BY ModelsDecode, Zenon DEF Bases, Legal, obs, MaxNodes, MaxDepth
<1>2. Decoded(m) = p
  BY DEF Decoded, WorkPoints
<1>3. engine \in SkeletonEngines => ~ job.same_name
  BY DEF Bases, SkeletonEngines, CegisEngines
<1>4. ~ job.same_name => Sound(m, p)
  BY <1>1 DEF Sound, Evaluated
<1>5. WorkErrors(m) \in 0 .. Len(obs)
  <2>1. {i \in Range(work) : Misses(m, i)} \subseteq 1 .. Len(obs)
    BY WorkErrorsAreOf, JobType
  <2> QED
    BY <2>1, WorkErrorsAreOf, PartOfInterval, JobType
<1> HIDE DEF p
<1> QED
  BY <1>1, <1>2, <1>3, <1>4, <1>5

\* What the solver counts is no more than what a sound expression gets wrong.
LEMMA DecodedErrs ==
  ASSUME Bases, NEW m, NEW p, Sound(m, p)
  PROVE  /\ WorkErrors(m) <= Errors(p)
         /\ Range(work) = DOMAIN obs => WorkErrors(m) = Errors(p)
<1> DEFINE S == Range(work)
           W == Cardinality({i \in S : Root(m, job.obs[i].pt) # job.obs[i].y})
<1>1. S \subseteq DOMAIN job.obs /\ WorkErrors(m) = W
  BY WorkErrorsAreOf DEF Misses, obs
<1>2. \A i \in S : Root(m, job.obs[i].pt) = Evaluated(job, p, job.obs[i].pt)
  BY DEF Sound, Range, obs
<1>3. job \in Jobs
  BY DEF Bases
<1> HIDE DEF S
<1>4. /\ W <= ErrorsIn(job, p)
      /\ S = DOMAIN job.obs => W = ErrorsIn(job, p)
  BY <1>1, <1>2, <1>3, FewerMissed, Zenon
<1> QED
  BY <1>1, <1>4 DEF Errors, obs, S

\* A sound expression that gets more wrong than the solver counted is refuted by an
\* observation that the solver has not seen.
LEMMA Refuted ==
  ASSUME Bases, NEW m \in SpaceOf(engine, job, work), NEW p, Sound(m, p), WorkErrors(m) < Errors(p)
  PROVE  Counterexamples(p) # {}
<1> SUFFICES ASSUME Counterexamples(p) = {} PROVE FALSE
  OBVIOUS
<1> DEFINE W == {i \in Range(work) : Misses(m, i)}
           E == {i \in DOMAIN obs : Evaluated(job, p, obs[i].pt) # obs[i].y}
<1>1. Range(work) \subseteq DOMAIN obs /\ WorkErrors(m) = Cardinality(W)
  BY WorkErrorsAreOf
<1>2. \A i \in Range(work) : Root(m, obs[i].pt) = Evaluated(job, p, obs[i].pt)
  BY DEF Sound, Range
<1>3. W = E
  BY <1>1, <1>2 DEF Misses, Counterexamples
<1>4. Errors(p) = Cardinality(E)
  BY DEF Errors, ErrorsIn, obs
<1> HIDE DEF W, E
<1>5. WorkErrors(m) = Errors(p)
  BY <1>1, <1>3, <1>4
<1>6. WorkErrors(m) \in 0 .. Len(obs)
  BY ModelFacts
<1> QED
  BY <1>5, <1>6

\* A program is among the models, and the solver counts no more errors than it makes.
LEMMA ProgramIsEncoded ==
  ASSUME Bases, NEW p \in Legal
  PROVE  \E m \in SpaceOf(engine, job, work) :
           /\ WorkErrors(m) <= Errors(p)
           /\ Nodes(m) = Nodes(p) /\ Depth(m) = Depth(p)
           /\ ~ job.same_name => SameTable(m, p)
<1>1. PICK q \in Legal : /\ Nodes(q) = Nodes(p) /\ Depth(q) = Depth(p)
                         /\ ~ job.same_name => q = p
                         /\ \A i \in DOMAIN obs : Root(q, obs[i].pt) = Evaluated(job, p, obs[i].pt)
  <2>1. CASE job.same_name
    BY <2>1, ProgramsShadowed, Zenon DEF Bases, Legal, obs
  <2>2. CASE ~ job.same_name
    <3>1. \A pt : Evaluated(job, p, pt) = Root(p, pt)
      BY <2>2 DEF Evaluated
    <3> QED
      BY <2>2, <3>1, Zenon
  <2> QED
    BY <2>1, <2>2
<1>2. PICK m \in SpaceOf(engine, job, work) :
        SameTable(m, q) /\ Nodes(m) = Nodes(q) /\ Depth(m) = Depth(q)
  BY ProgramsEncoded, Zenon DEF Bases, Legal
<1>3. \A i \in DOMAIN obs : Root(m, obs[i].pt) = Root(q, obs[i].pt)
  <2>1. ASSUME NEW i \in DOMAIN obs PROVE Root(m, obs[i].pt) = Root(q, obs[i].pt)
    <3>1. obs[i].pt \in Range(AllPoints)
      BY ProgramsMeasured, Zenon DEF Bases, obs
    <3>2. PICK k \in DOMAIN AllPoints : AllPoints[k] = obs[i].pt
      BY <3>1 DEF Range
    <3> QED
      BY <1>2, <3>2, Zenon DEF SameTable
  <2> QED
    BY <2>1
<1>4. WorkErrors(m) <= Errors(p)
  <2>1. /\ Range(work) \subseteq DOMAIN obs
        /\ WorkErrors(m) = Cardinality({i \in Range(work) : Root(m, obs[i].pt) # obs[i].y})
    BY WorkErrorsAreOf DEF Misses
  <2>2. \A i \in Range(work) : Root(m, obs[i].pt) = Evaluated(job, p, obs[i].pt)
    BY <1>1, <1>3, <2>1
  <2>3. job \in Jobs
    BY DEF Bases
  <2> QED
    BY <2>1, <2>2, <2>3, FewerMissed DEF Errors, obs
<1> QED
  BY <1>1, <1>2, <1>4

-------------------------------------------------------------------------------
(* What a query asks for.                                                  *)

\* The bounds of the query on a program with e errors, n nodes and depth d.
Meets(e, n, d) ==
  /\ phase = "exact" => e = 0
  /\ phase = "errors" => e <= Mid
  /\ phase = "witness" => e <= lo
  /\ phase = "bracket" => e * Weight + n <= hi
  /\ phase = "score" => e * Weight + n <= Mid
  /\ phase \in {"nodes", "depth", "canon"} => e <= cap.err
  /\ phase = "nodes" => n <= Mid
  /\ phase \in {"depth", "canon"} => n <= cap.nodes
  /\ phase = "depth" => d <= Mid
  /\ phase = "canon" => d <= cap.depth

DigitMet(m) ==
  phase = "canon" => IsStrictPrefix(fixed, Preorder(m)) /\ Preorder(m)[Len(fixed) + 1] <= Mid

LEMMA MidBetween ==
  ASSUME lo \in Nat, hi \in Nat
  PROVE  /\ Mid \in Nat
         /\ lo < hi => lo <= Mid /\ Mid < hi
BY DEF Mid

LEMMA ScoreType ==
  ASSUME Bases, NEW e \in Nat, NEW n \in Nat
  PROVE  e * Weight + n \in Nat
<1> DEFINE W == Weight
<1>1. W \in Nat
  BY JobType
<1> HIDE DEF W
<1> QED
  BY <1>1 DEF W

LEMMA CapFacts ==
  ASSUME CapsOfPhase
  PROVE  /\ phase \in {"any", "exact", "bracket", "errors", "score", "witness"} =>
              cap.err = Len(obs) /\ cap.nodes = None /\ cap.depth = None
         /\ None \notin Nat
BY SearchConstants DEF CapsOfPhase, NoCap

LEMMA FeasibleIs ==
  ASSUME Bases, CapsOfPhase, Querying, NEW m \in Rivals
  PROVE  m \in Feasible <=> Meets(WorkErrors(m), Nodes(m), Depth(m)) /\ DigitMet(m)
<1> DEFINE e == WorkErrors(m)
           n == Nodes(m)
           d == Depth(m)
           s == WorkErrors(m) * Weight + Nodes(m)
<1>1. m \in SpaceOf(engine, job, work) /\ \A k \in DOMAIN found : ~ Blocked(m, found[k].program)
  BY DEF Rivals
<1>2. e \in 0 .. Len(obs) /\ n \in Nat /\ d \in Nat
  BY <1>1, ModelFacts, JobType
<1>3. m \in Feasible <=> Asked(m)
  BY <1>1 DEF Feasible, SpaceOf, WorkPoints, MaxDepth
<1>4. /\ phase \in {"any", "exact", "bracket", "errors", "score", "witness"} =>
           cap.err = Len(obs) /\ cap.nodes = None /\ cap.depth = None
      /\ None \notin Nat /\ Len(obs) \in Nat /\ lo \in Nat /\ hi \in Nat /\ Mid \in Nat
      /\ phase = "nodes" => cap.nodes = None /\ cap.depth = None
      /\ phase = "depth" => cap.nodes \in Nat /\ cap.depth = None
      /\ phase = "canon" => cap.nodes \in Nat /\ cap.depth \in Nat
  BY CapFacts, JobType, MidBetween DEF CapsOfPhase, Bases
<1>5. phase \in {"any", "exact", "bracket", "witness", "errors", "score", "nodes", "depth", "canon"}
  BY DEF Querying, Bisected
<1>6. Asked(m) <=>
        /\ IF Scored THEN s <= ScoreBound ELSE e <= ErrorBound
        /\ Within(n, IF phase = "nodes" THEN Mid ELSE cap.nodes)
        /\ Within(d, IF phase = "depth" THEN Mid ELSE cap.depth)
        /\ DigitMet(m)
  BY <1>1 DEF Asked, DigitMet
<1>7. Meets(e, n, d) <=>
        /\ IF Scored THEN s <= ScoreBound ELSE e <= ErrorBound
        /\ Within(n, IF phase = "nodes" THEN Mid ELSE cap.nodes)
        /\ Within(d, IF phase = "depth" THEN Mid ELSE cap.depth)
  <2>1. s \in Nat
    BY <1>2, ScoreType
  <2>2. Meets(e, n, d) <=>
          /\ phase = "exact" => e = 0
          /\ phase = "errors" => e <= Mid
          /\ phase = "witness" => e <= lo
          /\ phase = "bracket" => s <= hi
          /\ phase = "score" => s <= Mid
          /\ phase \in {"nodes", "depth", "canon"} => e <= cap.err
          /\ phase = "nodes" => n <= Mid
          /\ phase \in {"depth", "canon"} => n <= cap.nodes
          /\ phase = "depth" => d <= Mid
          /\ phase = "canon" => d <= cap.depth
    BY DEF Meets
  <2> HIDE DEF e, n, d, s
  <2> QED
    BY <1>2, <1>4, <1>5, <2>1, <2>2 DEF Scored, ScoreBound, ErrorBound, Within
<1> QED
  BY <1>3, <1>6, <1>7

LEMMA FeasibleRival ==
  ASSUME NEW m \in Feasible
  PROVE  m \in Rivals /\ m \in SpaceOf(engine, job, work)
BY DEF Feasible, Rivals, Asked, SpaceOf, WorkPoints, MaxDepth

LEMMA StrictlyLonger ==
  ASSUME NEW s \in Seq(Nat), NEW t \in Seq(Nat), IsStrictPrefix(s, t)
  PROVE  Len(s) < Len(t) /\ \A i \in 1 .. Len(s) : s[i] = t[i]
<1>1. /\ Len(s) \in Nat /\ Len(t) \in Nat /\ Len(s) <= Len(t) /\ s # t
      /\ SubSeq(s, 1, Len(s)) = SubSeq(t, 1, Len(s))
  BY DEF IsStrictPrefix, IsPrefix
<1>2. \A i \in 1 .. Len(s) : s[i] = t[i]
  <2>1. SubSeq(s, 1, Len(s)) = s
    BY SubSeqFull
  <2>2. \A i \in 1 .. Len(s) : SubSeq(t, 1, Len(s))[i] = t[i]
    BY <1>1, SubSeqProperties, ElementOfSeq
  <2> QED
    BY <1>1, <2>1, <2>2
<1>3. Len(s) # Len(t)
  BY <1>1, <1>2, SeqEqual
<1> QED
  BY <1>1, <1>2, <1>3

\* A candidate meets the bounds of the query it answers, on all observations.
LEMMA CandidateMeets ==
  ASSUME Typed, ans = "feasible"
  PROVE  \E m \in Rivals :
           /\ cand = Decoded(m) /\ cand \in Legal /\ Sound(m, cand)
           /\ Meets(WorkErrors(m), Nodes(m), Depth(m)) /\ DigitMet(m)
           /\ Meets(Errors(cand), Nodes(cand), Depth(cand))
           /\ Nodes(m) = Nodes(cand) /\ Depth(m) = Depth(cand)
           /\ phase = "canon" => Len(fixed) < Len(Preorder(cand))
<1>1. /\ Accepted(cand) /\ Bases /\ CapsOfPhase /\ Querying /\ Digits
  BY DEF Typed, Answers
<1>2. PICK m \in Feasible : cand = Decoded(m) /\ Sound(m, cand) /\ cand # None
  BY DEF Typed, Answers, Sound
<1>3. m \in Rivals /\ m \in SpaceOf(engine, job, work)
  BY <1>2, FeasibleRival
<1>4. Meets(WorkErrors(m), Nodes(m), Depth(m)) /\ DigitMet(m)
  BY <1>1, <1>2, <1>3, FeasibleIs
<1>5. /\ cand \in Legal /\ Nodes(m) = Nodes(cand) /\ Depth(m) = Depth(cand)
      /\ Preorder(m) \in Seq(Nat) /\ Len(Preorder(m)) = Len(Preorder(cand))
  BY <1>1, <1>2, <1>3, ModelFacts
<1>6. Meets(Errors(cand), Nodes(cand), Depth(cand))
  <2> DEFINE e == Errors(cand)
             f == WorkErrors(m)
             n == Nodes(cand)
             d == Depth(cand)
             s == Errors(cand) * Weight + Nodes(cand)
  <2>1. e \in 0 .. Len(obs) /\ n \in Nat /\ d \in Nat
    BY <1>1, <1>5, ProgramFacts, JobType
  <2>2. s \in Nat /\ s = Score(cand)
    BY <1>1, <2>1, ScoreType DEF Score
  <2>3. IF Scored THEN s <= ScoreBound ELSE e <= ErrorBound
    BY <1>1, <2>2 DEF Accepted
  <2>4. Meets(f, n, d)
    BY <1>4, <1>5
  <2>5. Meets(e, n, d) <=>
          /\ phase = "exact" => e = 0
          /\ phase = "errors" => e <= Mid
          /\ phase = "witness" => e <= lo
          /\ phase = "bracket" => s <= hi
          /\ phase = "score" => s <= Mid
          /\ phase \in {"nodes", "depth", "canon"} => e <= cap.err
          /\ phase = "nodes" => n <= Mid
          /\ phase \in {"depth", "canon"} => n <= cap.nodes
          /\ phase = "depth" => d <= Mid
          /\ phase = "canon" => d <= cap.depth
    BY DEF Meets
  <2>6. /\ phase = "nodes" => n <= Mid
        /\ phase \in {"depth", "canon"} => n <= cap.nodes
        /\ phase = "depth" => d <= Mid
        /\ phase = "canon" => d <= cap.depth
    BY <2>4 DEF Meets
  <2>7. Len(obs) \in Nat /\ Mid \in Int /\ lo \in Int /\ hi \in Int
    BY <1>1, JobType, MidBetween DEF Bases
  <2> HIDE DEF e, f, n, d, s
  <2>8. /\ phase = "exact" => e = 0
        /\ phase = "errors" => e <= Mid
        /\ phase = "witness" => e <= lo
        /\ phase = "bracket" => s <= hi
        /\ phase = "score" => s <= Mid
        /\ phase \in {"nodes", "depth", "canon"} => e <= cap.err
    BY <2>1, <2>3, <2>7 DEF Scored, ScoreBound, ErrorBound
  <2>9. Meets(e, n, d)
    BY <2>5, <2>6, <2>8
  <2> QED
    BY <2>9 DEF e, n, d
<1>7. phase = "canon" => Len(fixed) < Len(Preorder(cand))
  BY <1>1, <1>4, <1>5, StrictlyLonger DEF DigitMet, Digits
<1> QED
  BY <1>2, <1>3, <1>4, <1>5, <1>6, <1>7

-------------------------------------------------------------------------------
(* Type correctness.                                                       *)

LEMMA FirstPhases ==
  ASSUME engine \in Engines
  PROVE  /\ FirstPhase(engine) \in {"any", "exact", "bracket"}
         /\ FirstPhase(engine) = "bracket" <=> engine = "lexscore"
         /\ engine = "feasible_first" => FirstPhase(engine) = "any"
BY SearchConstants DEF FirstPhase, SkeletonEngines, CegisEngines

LEMMA FirstWork ==
  ASSUME NEW e \in Engines, NEW j \in Jobs
  PROVE  (IF e \in SkeletonEngines THEN [i \in DOMAIN j.obs |-> i] ELSE <<1>>) \in WorkingSets(e, j)
<1>1. CASE e \in SkeletonEngines
  BY <1>1 DEF WorkingSets
<1>2. CASE e \notin SkeletonEngines
  <2> DEFINE w == <<1>>
  <2>1. w \in [1 .. 1 -> DOMAIN j.obs] /\ w[1] = 1 /\ IsInjective(w) /\ 1 \in DOMAIN j.obs
    BY JobFacts DEF IsInjective
  <2>2. w \in UNION {[1 .. n -> DOMAIN j.obs] : n \in DOMAIN j.obs}
    BY <2>1, Zenon
  <2> QED
    BY <1>2, <2>1, <2>2 DEF WorkingSets
<1> QED
  BY <1>1, <1>2

LEMMA NoCapFacts ==
  ASSUME job \in Jobs
  PROVE  /\ NoCap = [err |-> NoCap.err, nodes |-> NoCap.nodes, depth |-> NoCap.depth]
         /\ NoCap.err = Len(obs) /\ NoCap.nodes = None /\ NoCap.depth = None
         /\ Len(obs) \in Nat /\ Len(obs) \in 0 .. Len(obs)
BY JobFacts DEF NoCap, obs

LEMMA TypedInit ==
  ASSUME Init
  PROVE  Typed
<1>1. engine \in Engines /\ job \in Jobs
  BY DEF Init
<1>2. phase \in {"any", "exact", "bracket"} /\ (phase = "bracket" <=> engine = "lexscore")
      /\ (engine = "feasible_first" => phase = "any")
  BY <1>1, FirstPhases DEF Init
<1>3. Bases
  BY <1>1, <1>2, FirstWork DEF Init, Bases, Phases, Bisected, obs
<1>4. Incumbents
  BY <1>2 DEF Init, Incumbents
<1>5. PhasesOfEngine
  BY <1>2 DEF PhasesOfEngine
<1>6. CapsOfPhase
  BY <1>1, <1>2, NoCapFacts DEF Init, CapsOfPhase
<1>7. Digits
  BY <1>2 DEF Init, Digits
<1>8. Candidates
  BY <1>1, <1>2, JobFacts DEF Init, Candidates
<1>9. Answers
  BY DEF Init, Answers
<1> QED
  BY <1>3, <1>4, <1>5, <1>6, <1>7, <1>8, <1>9 DEF Typed

\* A step of the optimizer between two queries.
Quiet ==
  /\ ans' = "none" /\ Searching
  /\ UNCHANGED <<engine, job, work, cand, budget>>

Moved ==
  /\ Quiet /\ UNCHANGED outcome
  /\ phase' \in Phases \ {"done"} /\ lo' \in Nat /\ hi' \in Nat

LEMMA MovedTypes ==
  ASSUME Typed, Moved
  PROVE  Bases' /\ Candidates' /\ Answers'
<1>1. Bases'
  BY DEF Typed, Moved, Quiet, Bases
<1>2. Candidates'
  BY DEF Typed, Moved, Quiet, Candidates, outcome, Searching, Legal
<1>3. Answers'
  BY DEF Typed, Moved, Quiet, Answers
<1> QED
  BY <1>1, <1>2, <1>3

LEMMA ReturnedTypes ==
  ASSUME Typed, Quiet, NEW p \in Legal \cup {None}, NEW c \in BOOLEAN, NEW reason,
         Returned(p, c, reason)
  PROVE  Typed' /\ (phase' = "done" \/ Restarted)
<1>1. /\ Bases /\ Incumbents /\ CapsOfPhase /\ Digits /\ Answers
      /\ found \in Seq([program : Legal, complete : BOOLEAN]) /\ Len(found) < job.limit
      /\ job.limit \in Nat /\ engine \in Engines /\ job \in Jobs
  BY JobType DEF Typed, Quiet, Candidates, Bases
<1>2. Legal' = Legal
  BY DEF Quiet, Legal
<1>3. ASSUME Stopped(found', reason) \/ \E r : Stopped(found', r),
             found' \in Seq([program : Legal, complete : BOOLEAN]), Len(found') <= job.limit
      PROVE  Typed' /\ phase' = "done"
  <2>1. phase' = "done" /\ UNCHANGED <<interval, cap, fixed, best, base>>
    BY <1>3, Zenon DEF Stopped
  <2>2. Bases'
    BY <1>1, <2>1 DEF Quiet, Bases, interval, Phases
  <2>3. Incumbents' /\ PhasesOfEngine' /\ Digits'
    BY <1>1, <1>2, <2>1 DEF Quiet, Incumbents, PhasesOfEngine, Digits, Searching
  <2>4. CapsOfPhase'
    BY <1>1, <2>1 DEF Quiet, CapsOfPhase, obs
  <2>5. Candidates'
    BY <1>2, <1>3, <2>1 DEF Quiet, Candidates, Searching
  <2>6. Answers'
    BY <1>1 DEF Quiet, Answers
  <2> QED
    BY <2>1, <2>2, <2>3, <2>4, <2>5, <2>6 DEF Typed
<1>4. CASE p = None
  <2>1. found' = found /\ Stopped(found', reason)
    BY <1>4 DEF Returned
  <2> QED
    BY <1>1, <1>3, <2>1
<1>5. CASE p # None
  <2> DEFINE cands == Append(found, [program |-> p, complete |-> c])
  <2>1. found' = cands /\ (Stopped(cands, "candidate") \/ (Len(cands) < job.limit /\ Restarted /\ UNCHANGED status))
    BY <1>5, Zenon DEF Returned
  <2>2. cands \in Seq([program : Legal, complete : BOOLEAN]) /\ Len(cands) = Len(found) + 1
    BY <1>1, <1>5
  <2>3. Len(cands) <= job.limit
    BY <1>1, <2>2, LenProperties
  <2> HIDE DEF cands
  <2>4. CASE Stopped(cands, "candidate")
    BY <1>3, <2>1, <2>2, <2>3, <2>4
  <2>5. CASE Len(cands) < job.limit /\ Restarted /\ UNCHANGED status
    <3>1. /\ phase' = FirstPhase(engine) /\ lo' = 1 /\ hi' = 1 /\ cap' = NoCap /\ fixed' = <<>>
          /\ best' = None /\ base' = None
      BY <2>5 DEF Restarted
    <3>2. phase' \in {"any", "exact", "bracket"} /\ (phase' = "bracket" <=> engine = "lexscore")
          /\ (engine = "feasible_first" => phase' = "any")
      BY <1>1, <3>1, FirstPhases
    <3>3. Bases'
      BY <1>1, <3>1, <3>2 DEF Quiet, Bases, Phases
    <3>4. Incumbents'
      BY <1>1, <1>2, <3>1, <3>2 DEF Quiet, Incumbents
    <3>5. PhasesOfEngine'
      BY <3>2 DEF Quiet, PhasesOfEngine
    <3>6. CapsOfPhase'
      BY <1>1, <3>1, <3>2, NoCapFacts DEF Quiet, CapsOfPhase, obs, NoCap
    <3>7. Digits'
      BY <3>1, <3>2 DEF Digits
    <3>8. Candidates'
      <4>1. status = None
        BY DEF Typed, Candidates, Quiet, Searching
      <4> QED
        BY <1>2, <2>1, <2>2, <2>3, <2>5, <3>2, <4>1 DEF Quiet, Candidates
    <3>9. Answers'
      BY <1>1 DEF Quiet, Answers
    <3> QED
      BY <2>5, <3>3, <3>4, <3>5, <3>6, <3>7, <3>8, <3>9 DEF Typed
  <2> QED
    BY <2>1, <2>4, <2>5
<1> QED
  BY <1>4, <1>5

LEMMA SameQuery ==
  ASSUME UNCHANGED <<engine, job, work, phase, lo, hi, cap, fixed, found>>
  PROVE  /\ Feasible' = Feasible /\ Querying' = Querying /\ Legal' = Legal
         /\ \A m : Decoded(m)' = Decoded(m)
         /\ \A p : Accepted(p)' = Accepted(p)
         /\ \A m, p : Sound(m, p)' = Sound(m, p)
<1>1. Scored' = Scored /\ ErrorBound' = ErrorBound /\ ScoreBound' = ScoreBound /\ Weight' = Weight
      /\ Mid' = Mid /\ obs' = obs /\ MaxDepth' = MaxDepth /\ Legal' = Legal
  BY DEF Scored, ErrorBound, ScoreBound, Weight, MaxNodes, MaxDepth, Mid, obs, Legal
<1>2. \A m : WorkErrors(m)' = WorkErrors(m)
  BY DEF WorkErrors, Misses, obs
<1>3. \A m, p : Blocked(m, p)' = Blocked(m, p)
  BY DEF Blocked
<1>4. \A m : Asked(m)' = Asked(m)
  BY <1>1, <1>2, <1>3, Zenon DEF Asked
<1>5. WorkPoints' = WorkPoints
  BY DEF WorkPoints
<1>6. Feasible' = Feasible
  BY <1>1, <1>4, <1>5 DEF Feasible
<1>7. Querying' = Querying
  BY DEF Querying
<1>8. \A m : Decoded(m)' = Decoded(m)
  BY <1>5 DEF Decoded
<1>9. \A p : Score(p)' = Score(p) /\ Errors(p)' = Errors(p)
  BY <1>1 DEF Score, Errors
<1>10. \A p : Accepted(p)' = Accepted(p)
  BY <1>1, <1>9 DEF Accepted
<1>11. \A m, p : Sound(m, p)' = Sound(m, p)
  BY <1>1 DEF Sound
<1> QED
  BY <1>1, <1>6, <1>7, <1>8, <1>10, <1>11

LEMMA SolverTypes ==
  ASSUME Typed, Refute \/ GiveUp
  PROVE  Typed'
<1>1. /\ UNCHANGED <<engine, job, work, phase, lo, hi, cap, fixed, found>>
      /\ UNCHANGED <<best, base, cand, status>>
      /\ Querying /\ ans = "none" /\ budget \in {"left", "spent", "refused", "exhausted"}
  BY DEF Refute, GiveUp, SolverCalled, interval, outcome, Typed, Answers
<1>2. Bases' /\ Incumbents' /\ PhasesOfEngine' /\ CapsOfPhase' /\ Digits' /\ Candidates'
  BY <1>1 DEF Typed, Bases, Incumbents, PhasesOfEngine, CapsOfPhase, Digits, Candidates, Legal,
              obs, Searching, NoCap
<1>3. Feasible' = Feasible /\ Querying' = Querying
  BY <1>1, SameQuery
<1>4. Answers'
  <2>1. CASE Refute
    BY <1>1, <1>3, <2>1 DEF Refute, Answers
  <2>2. CASE GiveUp
    <3>1. engine \in CegisEngines => budget' \in {"spent", "exhausted"}
      BY <1>1, <2>2 DEF GiveUp, Typed, Answers
    <3>2. budget' \in {"left", "spent", "refused", "exhausted"} /\ ans' = "unknown"
      BY <1>1, <2>2 DEF GiveUp
    <3> QED
      BY <1>1, <1>3, <3>1, <3>2 DEF Answers
  <2> QED
    BY <2>1, <2>2
<1> QED
  BY <1>2, <1>4 DEF Typed

LEMMA LeastCounterexample ==
  ASSUME Bases, NEW p, Counterexamples(p) # {}
  PROVE  Min(Counterexamples(p)) \in DOMAIN obs \ Range(work)
<1> DEFINE S == Counterexamples(p)
<1>1. S \subseteq DOMAIN obs \ Range(work) /\ S \subseteq Nat
  BY JobType DEF Counterexamples
<1> HIDE DEF S
<1>2. S # {}
  BY DEF S
<1>3. \E m \in S : \A k \in S : m <= k
  BY <1>1, <1>2, LeastNatural
<1>4. Min(S) \in S
  BY <1>3 DEF Min
<1> QED
  BY <1>1, <1>4 DEF S

\* A proposal is accepted, or adds an observation that refutes it, or fails an assertion.
LEMMA Proposals ==
  ASSUME Typed, Propose
  PROVE  \E m \in Feasible :
           /\ cand' = Decoded(m)
           /\ ans = "none" /\ Querying /\ budget' \in {"left", "spent"}
           /\ UNCHANGED <<engine, job, lo, hi, cap, fixed, best, base, found, status>>
           /\ \/ /\ Sound(m, Decoded(m)) /\ Accepted(Decoded(m))
                 /\ ans' = "feasible" /\ UNCHANGED <<work, phase>>
              \/ /\ ans' = "none" /\ phase' = phase
                 /\ engine \notin SkeletonEngines
                 /\ \E i \in DOMAIN obs \ Range(work) : work' = Append(work, i)
              \/ /\ phase' = "raised" /\ ans' = "none" /\ work' = work
                 /\ \/ ~ Sound(m, Decoded(m))
                    \/ ~ Accepted(Decoded(m)) /\ Counterexamples(Decoded(m)) = {}
<1>1. Querying /\ ans = "none" /\ Bases
  BY DEF Propose, Typed
<1>2. PICK m \in Feasible :
        /\ cand' = Decoded(m)
        /\ CASE Sound(m, Decoded(m)) /\ Accepted(Decoded(m)) ->
                  ans' = "feasible" /\ UNCHANGED <<work, phase>>
             [] /\ Sound(m, Decoded(m)) /\ ~ Accepted(Decoded(m))
                /\ Counterexamples(Decoded(m)) # {} ->
                  /\ work' = Append(work, Min(Counterexamples(Decoded(m))))
                  /\ UNCHANGED <<ans, phase>>
             [] OTHER -> phase' = "raised" /\ UNCHANGED <<ans, work>>
  BY DEF Propose
<1>3. /\ budget' \in {"left", "spent"}
      /\ UNCHANGED <<engine, job, lo, hi, cap, fixed, best, base, found, status>>
  BY DEF Propose, interval, outcome
<1> DEFINE p == Decoded(m)
<1> HIDE DEF p
<1>4. CASE Sound(m, p) /\ Accepted(p)
  BY <1>1, <1>2, <1>3, <1>4 DEF p
<1>5. CASE Sound(m, p) /\ ~ Accepted(p) /\ Counterexamples(p) # {}
  <2>1. Min(Counterexamples(p)) \in DOMAIN obs \ Range(work)
    BY <1>1, <1>5, LeastCounterexample
  <2>2. work' = Append(work, Min(Counterexamples(p))) /\ UNCHANGED <<ans, phase>>
    BY <1>2, <1>5 DEF p
  <2>3. engine \notin SkeletonEngines
    <3>1. engine \in SkeletonEngines => work = [i \in DOMAIN obs |-> i]
      BY <1>1, WorkFacts DEF Bases, obs
    <3> QED
      BY <2>1, <3>1 DEF Range
  <2>4. \E i \in DOMAIN obs \ Range(work) : work' = Append(work, i)
    BY <2>1, <2>2
  <2> QED
    BY <1>1, <1>2, <1>3, <2>2, <2>3, <2>4 DEF p
<1>6. CASE ~ Sound(m, p) \/ (~ Accepted(p) /\ Counterexamples(p) = {})
  <2>1. phase' = "raised" /\ UNCHANGED <<ans, work>>
    BY <1>2, <1>6 DEF p
  <2> QED
    BY <1>1, <1>2, <1>3, <1>6, <2>1 DEF p
<1> QED
  BY <1>4, <1>5, <1>6

LEMMA ProposeTypes ==
  ASSUME Typed, Propose
  PROVE  Typed'
<1>1. PICK m \in Feasible :
        /\ cand' = Decoded(m)
        /\ ans = "none" /\ Querying /\ budget' \in {"left", "spent"}
        /\ UNCHANGED <<engine, job, lo, hi, cap, fixed, best, base, found, status>>
        /\ \/ /\ Sound(m, Decoded(m)) /\ Accepted(Decoded(m))
              /\ ans' = "feasible" /\ UNCHANGED <<work, phase>>
           \/ /\ ans' = "none" /\ phase' = phase
              /\ engine \notin SkeletonEngines
              /\ \E i \in DOMAIN obs \ Range(work) : work' = Append(work, i)
           \/ /\ phase' = "raised" /\ ans' = "none" /\ work' = work
  BY Proposals
<1>2. Decoded(m) \in Legal \cup {None}
  BY FeasibleRival, ModelFacts DEF Typed
<1>3. phase \in Phases \ {"done", "raised"}
  BY <1>1 DEF Typed, Bases, Querying, Bisected
<1>4. Bases'
  <2>1. work' \in WorkingSets(engine, job)
    BY <1>1, WorkGrows DEF Typed, Bases, obs
  <2> QED
    BY <1>1, <1>3, <2>1 DEF Typed, Bases, Phases
<1>5. Incumbents'
  BY <1>1, <1>2 DEF Typed, Incumbents, Legal
<1>6. PhasesOfEngine' /\ CapsOfPhase' /\ Digits'
  BY <1>1 DEF Typed, PhasesOfEngine, CapsOfPhase, Digits, obs, NoCap, Searching
<1>7. Candidates'
  BY <1>1, <1>3 DEF Typed, Candidates, Legal, Searching
<1>8. Answers'
  <2>1. CASE /\ Sound(m, Decoded(m)) /\ Accepted(Decoded(m))
             /\ ans' = "feasible" /\ UNCHANGED <<work, phase>>
    <3>1. /\ Feasible' = Feasible /\ Querying' = Querying
          /\ Decoded(m)' = Decoded(m) /\ Sound(m, Decoded(m))' = Sound(m, Decoded(m))
      BY <1>1, <2>1, SameQuery
    <3>2. Accepted(cand)' /\ Sound(m, cand)'
      BY <1>1, <2>1, SameQuery
    <3> QED
      BY <1>1, <2>1, <3>1, <3>2 DEF Answers
  <2>2. CASE ans' = "none"
    BY <1>1, <2>2 DEF Answers
  <2> QED
    BY <1>1, <2>1, <2>2
<1> QED
  BY <1>4, <1>5, <1>6, <1>7, <1>8 DEF Typed

LEMMA MergeIs ==
  ASSUME NEW p
  PROVE  \/ Merge(p) = p
         \/ /\ Merge(p) = best /\ best # None /\ engine = "feasible_first" /\ phase # "canon"
            /\ ~ ScoreLess(p, best)
BY DEF Merge, Better

LEMMA BetterIs ==
  ASSUME NEW p, NEW q
  PROVE  \/ Better(p, q) = p /\ p # None /\ ~ ScoreLess(q, p)
         \/ Better(p, q) = q /\ (p = None \/ ScoreLess(q, p))
BY DEF Better

\* What an action of the optimizer on an answer leaves alone.
LEMMA AnsweredQuiet ==
  ASSUME Typed, NEW a \in {"feasible", "infeasible", "unknown"}, Answered(a)
  PROVE  Quiet /\ ans = a /\ Querying
BY DEF Answered, Quiet, Typed, Answers, Querying, Searching, Bisected

LEMMA ClosedQuiet ==
  ASSUME NEW o \in Bisected, Closed(o)
  PROVE  Quiet /\ phase = o /\ lo >= hi
BY DEF Closed, Quiet, Searching, Bisected

LEMMA TightensTypes ==
  ASSUME Typed, Quiet, UNCHANGED outcome, NEW p \in Legal, best' = p, NEW e \in 0 .. Len(obs),
         engine # "lexscore", TightensNodes(p, e), UNCHANGED <<fixed, base>>,
         cap.nodes = None, cap.depth = None
  PROVE  Typed'
<1>1. /\ phase' = "nodes" /\ lo' = 1 /\ hi' = Nodes(p)
      /\ cap' = [cap EXCEPT !.err = e] /\ Bases
  BY DEF TightensNodes, Tightens, Typed
<1>2. Nodes(p) \in Nat /\ p # None
  BY <1>1, ProgramFacts, JobType
<1>3. Moved
  BY <1>1, <1>2 DEF Moved, Phases, Bisected
<1>4. Bases' /\ Candidates' /\ Answers'
  BY <1>3, MovedTypes
<1>5. Legal' = Legal /\ obs' = obs
  BY DEF Quiet, Legal, obs
<1>6. Incumbents'
  BY <1>1, <1>2, <1>5 DEF Typed, Quiet, Incumbents
<1>7. PhasesOfEngine'
  BY <1>1 DEF Quiet, PhasesOfEngine
<1>8. CapsOfPhase'
  BY <1>1, <1>5 DEF Typed, CapsOfPhase
<1>9. Digits'
  BY <1>1, CapFacts DEF Typed, CapsOfPhase, Quiet, Digits, Searching
<1> QED
  BY <1>4, <1>6, <1>7, <1>8, <1>9 DEF Typed

\* Into a phase that caps nothing yet.
LEMMA UncappedTypes ==
  ASSUME Typed, Moved, UNCHANGED <<cap, fixed, base>>, cap = NoCap,
         phase' \in {"any", "exact", "bracket", "errors", "score", "witness", "raised"},
         PhasesOfEngine', best' \in Legal \cup {None},
         phase' = "score" => best' # None,
         (engine = "feasible_first" /\ phase' \in {"exact", "errors"}) => best' # None,
         (phase' = "errors" /\ engine # "cegis") => best' # None,
         phase' \in {"any", "bracket"} \/ (phase' = "exact" /\ engine # "feasible_first") => best' = None
  PROVE  Typed'
<1>1. Bases' /\ Candidates' /\ Answers'
  BY MovedTypes
<1>2. Incumbents'
  BY DEF Typed, Moved, Quiet, Incumbents, Legal
<1>3. CapsOfPhase'
  BY DEF Typed, Moved, Quiet, CapsOfPhase, obs, NoCap
<1>4. Digits'
  BY CapFacts DEF Typed, CapsOfPhase, NoCap, Moved, Quiet, Digits, Searching
<1> QED
  BY <1>1, <1>2, <1>3, <1>4 DEF Typed

\* Into the failure of an assertion.
LEMMA RaisedTypes ==
  ASSUME Typed, Quiet, UNCHANGED outcome, phase' = "raised", UNCHANGED <<interval, fixed>>,
         {best', base'} \subseteq Legal \cup {None},
         cap' = [err |-> cap'.err, nodes |-> cap'.nodes, depth |-> cap'.depth],
         cap'.err \in 0 .. Len(obs), {cap'.nodes, cap'.depth} \subseteq Nat \cup {None}
  PROVE  Typed'
<1>1. Moved
  BY DEF Typed, Bases, Moved, interval, Phases
<1>2. Bases' /\ Candidates' /\ Answers'
  BY <1>1, MovedTypes
<1>3. Incumbents'
  BY DEF Typed, Quiet, Incumbents, Legal
<1>4. CapsOfPhase' /\ PhasesOfEngine'
  BY DEF Typed, Quiet, CapsOfPhase, PhasesOfEngine, obs
<1>5. Digits'
  BY DEF Typed, Quiet, Digits, Searching
<1> QED
  BY <1>2, <1>3, <1>4, <1>5 DEF Typed

LEMMA CandidateType ==
  ASSUME Typed, ans = "feasible"
  PROVE  /\ cand \in Legal /\ cand # None /\ Merge(cand) \in Legal
         /\ Errors(cand) \in 0 .. Len(obs) /\ Score(cand) \in Nat
         /\ Nodes(cand) \in Nat /\ Depth(cand) \in 1 .. MaxDepth
<1>1. cand \in Legal /\ Bases
  BY CandidateMeets DEF Typed
<1>2. cand # None /\ Errors(cand) \in 0 .. Len(obs) /\ Nodes(cand) \in Nat /\ Depth(cand) \in 1 .. MaxDepth
  BY <1>1, ProgramFacts, JobType
<1>3. Merge(cand) \in Legal
  BY <1>1, MergeIs DEF Typed, Incumbents
<1>4. Score(cand) \in Nat
  BY <1>1, <1>2, ScoreType DEF Score
<1> QED
  BY <1>1, <1>2, <1>3, <1>4

LEMMA StopTypes ==
  ASSUME Typed, Interrupted \/ NoneLeft
  PROVE  Typed' /\ (phase' = "done" \/ Restarted)
<1>1. {best, base} \subseteq Legal \cup {None}
  BY DEF Typed, Incumbents
<1>2. CASE Interrupted
  <2> DEFINE p == IF engine = "feasible_first" /\ phase = "canon" THEN Better(base, best) ELSE best
  <2>1. Quiet /\ Returned(p, FALSE, "unknown")
    BY <1>2, AnsweredQuiet DEF Interrupted
  <2>2. p \in Legal \cup {None}
    BY <1>1, BetterIs
  <2> HIDE DEF p
  <2> QED
    BY <2>1, <2>2, ReturnedTypes
<1>3. CASE NoneLeft
  <2>1. Quiet /\ Returned(best, FALSE, "unsat")
    BY <1>3, AnsweredQuiet DEF NoneLeft
  <2> QED
    BY <1>1, <2>1, ReturnedTypes
<1> QED
  BY <1>2, <1>3

LEMMA EngineIs ==
  ASSUME Bases
  PROVE  /\ engine \in SkeletonEngines <=> engine \notin CegisEngines
         /\ engine \in {"skeleton", "exact_first", "finite", "cegis", "lexscore", "feasible_first"}
BY SearchConstants DEF Bases, SkeletonEngines, CegisEngines

LEMMA FirstFeasibleTypes ==
  ASSUME Typed, AnyFound
  PROVE  Typed'
<1>1. /\ Quiet /\ ans = "feasible" /\ phase = "any" /\ best' = cand
      /\ \/ engine = "feasible_first" /\ phase' = "exact" /\ lo' = lo /\ hi' = hi
         \/ engine # "feasible_first" /\ phase' = "errors" /\ lo' = 0 /\ hi' = Errors(cand)
      /\ UNCHANGED <<cap, fixed, base>> /\ UNCHANGED outcome
  BY AnsweredQuiet DEF AnyFound, Tightens, interval
<1>2. cand \in Legal /\ cand # None /\ Errors(cand) \in Nat
  BY <1>1, CandidateType, JobType DEF Typed
<1>3. Moved
  BY <1>1, <1>2 DEF Moved, Phases, Bisected, Typed, Bases
<1>4. PhasesOfEngine'
  BY <1>1 DEF Typed, PhasesOfEngine, Quiet
<1>5. cap = NoCap
  BY <1>1 DEF Typed, CapsOfPhase
<1> QED
  BY <1>1, <1>2, <1>3, <1>4, <1>5, UncappedTypes

LEMMA ExactFoundTypes ==
  ASSUME Typed, ExactFound
  PROVE  Typed'
<1>1. /\ Quiet /\ ans = "feasible" /\ phase = "exact" /\ best' = Merge(cand)
      /\ \/ Errors(Merge(cand)) = 0 /\ TightensNodes(Merge(cand), 0)
         \/ Errors(Merge(cand)) # 0 /\ phase' = "raised" /\ UNCHANGED <<interval, cap>>
      /\ UNCHANGED <<fixed, base>> /\ UNCHANGED outcome
  BY AnsweredQuiet DEF ExactFound
<1>2. Merge(cand) \in Legal /\ 0 \in 0 .. Len(obs)
  BY <1>1, CandidateType, JobType DEF Typed
<1>3. engine # "lexscore" /\ cap = NoCap /\ cap.nodes = None /\ cap.depth = None
  BY <1>1, CapFacts DEF Typed, PhasesOfEngine, CapsOfPhase
<1>4. CASE TightensNodes(Merge(cand), 0)
  BY <1>1, <1>2, <1>3, <1>4, TightensTypes
<1>5. CASE phase' = "raised" /\ UNCHANGED <<interval, cap>>
  BY <1>1, <1>2, <1>5, RaisedTypes DEF Typed, Incumbents, CapsOfPhase
<1> QED
  BY <1>1, <1>4, <1>5

LEMMA WitnessedTypes ==
  ASSUME Typed, Witnessed
  PROVE  Typed'
<1>1. /\ Quiet /\ ans = "feasible" /\ phase = "witness" /\ best' = Merge(cand)
      /\ \/ Errors(Merge(cand)) = lo /\ TightensNodes(Merge(cand), lo)
         \/ Errors(Merge(cand)) # lo /\ phase' = "raised" /\ UNCHANGED <<interval, cap>>
      /\ UNCHANGED <<fixed, base>> /\ UNCHANGED outcome
  BY AnsweredQuiet DEF Witnessed
<1>2. Merge(cand) \in Legal /\ Errors(Merge(cand)) \in 0 .. Len(obs)
  BY <1>1, CandidateType, ProgramFacts DEF Typed
<1>3. engine # "lexscore" /\ cap = NoCap /\ cap.nodes = None /\ cap.depth = None
  BY <1>1, CapFacts DEF Typed, PhasesOfEngine, CapsOfPhase
<1>4. CASE Errors(Merge(cand)) = lo /\ TightensNodes(Merge(cand), lo)
  BY <1>1, <1>2, <1>3, <1>4, TightensTypes
<1>5. CASE phase' = "raised" /\ UNCHANGED <<interval, cap>>
  BY <1>1, <1>2, <1>5, RaisedTypes DEF Typed, Incumbents, CapsOfPhase
<1> QED
  BY <1>1, <1>4, <1>5

LEMMA NothingExactTypes ==
  ASSUME Typed, NothingExact
  PROVE  Typed'
<1>1. /\ Quiet /\ phase = "exact" /\ engine # "lexscore" /\ cap = NoCap
      /\ UNCHANGED <<cap, fixed, best, base>> /\ UNCHANGED outcome
  BY AnsweredQuiet DEF NothingExact, Typed, PhasesOfEngine, CapsOfPhase
<1>2. \/ engine \in SkeletonEngines /\ phase' = "any" /\ lo' = lo /\ hi' = hi
      \/ engine = "cegis" /\ phase' = "errors" /\ lo' = 1 /\ hi' = Len(obs)
      \/ engine = "feasible_first" /\ phase' = "errors" /\ lo' = 1 /\ hi' = Errors(best)
  BY <1>1, EngineIs DEF NothingExact, Tightens, interval, Typed, CegisEngines
<1>3. engine = "feasible_first" => best \in Legal /\ Errors(best) \in Nat
  BY <1>1, ProgramFacts, JobType DEF Typed, Incumbents
<1>4. Len(obs) \in Nat
  BY JobType DEF Typed
<1>5. Moved
  BY <1>1, <1>2, <1>3, <1>4 DEF Moved, Phases, Bisected, Typed, Bases
<1>6. engine \in SkeletonEngines => engine # "feasible_first"
  BY DEF SkeletonEngines
<1>7. PhasesOfEngine'
  BY <1>1, <1>2 DEF PhasesOfEngine, Quiet
<1>8. best \in Legal \cup {None} /\ (engine # "feasible_first" => best = None)
      /\ (engine = "feasible_first" => best # None)
  BY <1>1 DEF Typed, Incumbents
<1> QED
  BY <1>1, <1>2, <1>5, <1>6, <1>7, <1>8, UncappedTypes DEF CegisEngines

LEMMA BracketTypes ==
  ASSUME Typed, Bracketed \/ NotBracketed
  PROVE  Typed'
<1>1. engine = "lexscore" /\ cap = NoCap /\ phase = "bracket" /\ best = None /\ Quiet
      /\ lo \in Nat /\ hi \in Nat
  BY AnsweredQuiet DEF Bracketed, NotBracketed, Typed, PhasesOfEngine, CapsOfPhase, Incumbents, Bases
<1>2. CASE Bracketed
  <2>1. /\ phase' = "score" /\ best' = cand /\ ans = "feasible"
        /\ lo' = lo /\ hi' = Smaller(hi, Score(cand))
        /\ UNCHANGED <<cap, fixed, base>> /\ UNCHANGED outcome
    BY <1>1, <1>2 DEF Bracketed, Answered, Tightens
  <2>2. cand \in Legal /\ cand # None /\ Score(cand) \in Nat
    BY <2>1, CandidateType
  <2>3. Moved
    BY <1>1, <2>1, <2>2 DEF Moved, Phases, Bisected, Smaller
  <2>4. PhasesOfEngine'
    BY <1>1, <2>1 DEF PhasesOfEngine, Quiet
  <2> QED
    BY <1>1, <2>1, <2>2, <2>3, <2>4, UncappedTypes
<1>3. CASE NotBracketed
  <2>1. /\ phase' = "bracket" /\ lo' = hi + 1 /\ hi' = Smaller(MaxScore, 2 * hi)
        /\ UNCHANGED <<cap, fixed, base, best>> /\ UNCHANGED outcome
    BY <1>1, <1>3 DEF NotBracketed
  <2>2. MaxScore \in Nat
    BY JobType, ScoreType DEF MaxScore, Typed
  <2>3. Moved
    BY <1>1, <2>1, <2>2 DEF Moved, Phases, Bisected, Smaller
  <2>4. PhasesOfEngine'
    BY <1>1, <2>1 DEF PhasesOfEngine, Quiet
  <2> QED
    BY <1>1, <2>1, <2>3, <2>4, UncappedTypes
<1> QED
  BY <1>2, <1>3

\* Within a bisection nothing else moves.
LEMMA BisectTypes ==
  ASSUME Typed, Quiet, phase \in Bisected, phase' = phase, lo' \in Nat, hi' \in Nat,
         UNCHANGED <<cap, fixed, base>>, UNCHANGED outcome, best' \in Legal \cup {None},
         best' = best \/ (/\ best' \in Legal
                          /\ phase = "canon" => Len(fixed) < Len(Preorder(best')))
  PROVE  Typed'
<1>1. Moved
  BY DEF Moved, Typed, Bases, Bisected, Phases
<1>2. Bases' /\ Candidates' /\ Answers'
  BY <1>1, MovedTypes
<1>3. best' = best \/ best' # None
  BY ProgramFacts DEF Typed
<1>4. Incumbents'
  BY <1>3 DEF Typed, Quiet, Incumbents, Legal, Bisected
<1>5. PhasesOfEngine' /\ CapsOfPhase'
  BY DEF Typed, Quiet, PhasesOfEngine, CapsOfPhase, NoCap, obs
<1>6. Digits'
  <2>1. best' = best \/ (phase = "canon" => Len(fixed) < Len(Preorder(best')))
    OBVIOUS
  <2> QED
    BY <2>1 DEF Typed, Quiet, Digits, Searching
<1> QED
  BY <1>2, <1>4, <1>5, <1>6 DEF Typed

LEMMA MeasureType ==
  ASSUME Typed, ans = "feasible", phase \in Bisected
  PROVE  Measure(cand) \in Nat
<1>1. /\ Errors(cand) \in Nat /\ Score(cand) \in Nat /\ Nodes(cand) \in Nat /\ Depth(cand) \in Nat
      /\ cand \in Legal
  BY CandidateType, JobType DEF Typed
<1>2. phase = "canon" => Len(fixed) < Len(Preorder(cand))
  BY CandidateMeets
<1>3. Preorder(cand) \in Seq(Nat) /\ Len(fixed) \in Nat
  BY <1>1, ProgramFacts DEF Typed, Digits
<1>4. phase = "canon" => Preorder(cand)[Len(fixed) + 1] \in Nat
  BY <1>2, <1>3, ElementOfSeq
<1> QED
  BY <1>1, <1>4 DEF Measure, Bisected

LEMMA HalvedTypes ==
  ASSUME Typed, Lowered \/ Raised
  PROVE  Typed'
<1>1. /\ Quiet /\ phase \in Bisected /\ phase' = phase
      /\ UNCHANGED <<cap, fixed, base>> /\ UNCHANGED outcome
      /\ lo \in Nat /\ hi \in Nat /\ Mid \in Nat
  BY AnsweredQuiet, MidBetween DEF Lowered, Raised, Typed, Bases
<1>2. CASE Lowered
  <2>1. ans = "feasible" /\ best' = Merge(cand) /\ lo' = lo
    BY <1>2 DEF Lowered, Answered
  <2>2. Merge(cand) \in Legal /\ Depth(cand) \in 1 .. MaxDepth /\ Measure(cand) \in Nat
    BY <1>1, <2>1, CandidateType, MeasureType
  <2>3. hi' \in Nat
    <3>1. hi' \in Depth(cand) .. Mid \/ hi' = Smaller(Mid, Measure(cand))
      BY <1>2 DEF Lowered
    <3>2. Smaller(Mid, Measure(cand)) \in Nat
      BY <1>1, <2>2 DEF Smaller
    <3> QED
      BY <1>1, <2>2, <3>1, <3>2
  <2>4. phase = "canon" => Merge(cand) = cand
    BY MergeIs
  <2>5. phase = "canon" => Len(fixed) < Len(Preorder(Merge(cand)))
    BY <2>1, <2>4, CandidateMeets
  <2> QED
    BY <1>1, <2>1, <2>2, <2>3, <2>5, BisectTypes
<1>3. CASE Raised
  <2>1. lo' = Mid + 1 /\ hi' = hi /\ best' = best
    BY <1>3 DEF Raised
  <2>2. lo' \in Nat /\ hi' \in Nat /\ best' \in Legal \cup {None}
    BY <1>1, <2>1 DEF Typed, Incumbents
  <2> QED
    BY <1>1, <2>1, <2>2, BisectTypes
<1> QED
  BY <1>2, <1>3

LEMMA ErrorsClosedTypes ==
  ASSUME Typed, ErrorsClosed
  PROVE  Typed'
<1>1. /\ Quiet /\ phase = "errors" /\ UNCHANGED <<fixed, best, base>> /\ UNCHANGED outcome
      /\ \/ (best = None \/ Errors(best) # lo) /\ phase' = "witness" /\ UNCHANGED <<interval, cap>>
         \/ best # None /\ Errors(best) = lo /\ TightensNodes(best, lo)
  BY ClosedQuiet DEF ErrorsClosed, Bisected
<1>2. engine # "lexscore" /\ cap = NoCap /\ cap.nodes = None /\ cap.depth = None
      /\ best \in Legal \cup {None} /\ lo \in Nat /\ hi \in Nat
  BY <1>1, CapFacts DEF Typed, PhasesOfEngine, CapsOfPhase, Incumbents, Bases
<1>3. CASE best # None /\ Errors(best) = lo /\ TightensNodes(best, lo)
  <2>1. best \in Legal /\ Errors(best) \in 0 .. Len(obs)
    BY <1>2, <1>3, ProgramFacts DEF Typed
  <2> QED
    BY <1>1, <1>2, <1>3, <2>1, TightensTypes
<1>4. CASE phase' = "witness" /\ UNCHANGED <<interval, cap>>
  <2>1. Moved
    BY <1>1, <1>2, <1>4 DEF Moved, Phases, interval
  <2>2. PhasesOfEngine'
    BY <1>1, <1>2, <1>4 DEF PhasesOfEngine, Quiet
  <2> QED
    BY <1>1, <1>2, <1>4, <2>1, <2>2, UncappedTypes
<1> QED
  BY <1>1, <1>3, <1>4

LEMMA DepthTypes ==
  ASSUME Typed, ScoreClosed \/ NodesClosed
  PROVE  Typed'
<1>1. /\ Quiet /\ phase \in {"score", "nodes"} /\ UNCHANGED <<fixed, best, base>> /\ UNCHANGED outcome
      /\ best \in Legal /\ best # None /\ Bases
  BY ClosedQuiet DEF ScoreClosed, NodesClosed, Typed, Incumbents, Bisected
<1>2. Errors(best) \in 0 .. Len(obs) /\ Nodes(best) \in Nat /\ Depth(best) \in 1 .. MaxDepth
  BY <1>1, ProgramFacts, JobType
<1>3. \/ phase' = "raised" /\ UNCHANGED <<interval, cap>>
      \/ TightensDepth(Errors(best), Nodes(best))
  BY DEF ScoreClosed, NodesClosed, Realized
<1>4. CASE phase' = "raised" /\ UNCHANGED <<interval, cap>>
  BY <1>1, <1>4, RaisedTypes DEF Typed, Incumbents, CapsOfPhase
<1>5. CASE TightensDepth(Errors(best), Nodes(best))
  <2>1. /\ phase' = "depth" /\ lo' = 1
        /\ hi' \in Depth(best) .. MaxDepth \/ hi' = Depth(best)
        /\ cap' = [cap EXCEPT !.err = Errors(best), !.nodes = Nodes(best)]
    BY <1>5 DEF TightensDepth
  <2>2. hi' \in Nat
    BY <1>2, <2>1
  <2>3. Moved
    BY <1>1, <2>1, <2>2 DEF Moved, Phases, Bisected
  <2>4. Bases' /\ Candidates' /\ Answers'
    BY <2>3, MovedTypes
  <2>5. Incumbents'
    BY <1>1, <2>1 DEF Typed, Quiet, Incumbents, Legal
  <2>6. PhasesOfEngine'
    BY <2>1 DEF PhasesOfEngine, Quiet
  <2>7. cap.depth = None
    BY <1>1, CapFacts DEF Typed, CapsOfPhase
  <2>8. CapsOfPhase'
    <3>1. cap' = [err |-> Errors(best), nodes |-> Nodes(best), depth |-> None]
      BY <2>1, <2>7 DEF Typed, CapsOfPhase
    <3>2. cap'.err = Errors(best) /\ cap'.nodes = Nodes(best) /\ cap'.depth = None /\ obs' = obs
      BY <1>1, <3>1 DEF Quiet, obs
    <3> QED
      BY <1>2, <2>1, <3>1, <3>2 DEF CapsOfPhase
  <2>9. Digits'
    BY <1>1, <2>1 DEF Typed, Digits, Quiet, Searching
  <2> QED
    BY <2>4, <2>5, <2>6, <2>8, <2>9 DEF Typed
<1> QED
  BY <1>3, <1>4, <1>5

LEMMA DepthClosedTypes ==
  ASSUME Typed, DepthClosed
  PROVE  Typed'
<1>1. /\ Quiet /\ phase = "depth" /\ UNCHANGED <<fixed, best>> /\ UNCHANGED outcome
      /\ base' = best /\ cap' = [cap EXCEPT !.depth = lo]
      /\ \/ phase' = "raised" /\ UNCHANGED interval
         \/ phase' = "canon" /\ lo' = 0 /\ hi' = Preorder(best)[1]
  BY ClosedQuiet DEF DepthClosed, Tightens, Bisected
<1>2. best \in Legal /\ best # None /\ Bases /\ lo \in Nat
  BY <1>1 DEF Typed, Incumbents, Bases
<1>3. Preorder(best) \in Seq(Nat) /\ Len(Preorder(best)) >= 1
  BY <1>2, ProgramFacts
<1>4. /\ cap' = [err |-> cap'.err, nodes |-> cap'.nodes, depth |-> cap'.depth]
      /\ cap'.err = cap.err /\ cap'.nodes = cap.nodes /\ cap'.depth = lo
      /\ cap.err \in 0 .. Len(obs) /\ cap.nodes \in Nat
  BY <1>1 DEF Typed, CapsOfPhase
<1>5. CASE phase' = "raised" /\ UNCHANGED interval
  BY <1>1, <1>2, <1>4, <1>5, RaisedTypes
<1>6. CASE phase' = "canon" /\ lo' = 0 /\ hi' = Preorder(best)[1]
  <2>1. hi' \in Nat
    BY <1>3, <1>6, ElementOfSeq
  <2>2. Moved
    BY <1>1, <1>6, <2>1 DEF Moved, Phases, Bisected
  <2>3. Bases' /\ Candidates' /\ Answers'
    BY <2>2, MovedTypes
  <2>4. Incumbents'
    BY <1>1, <1>2, <1>6 DEF Typed, Quiet, Incumbents, Legal
  <2>5. PhasesOfEngine'
    BY <1>6 DEF PhasesOfEngine, Quiet
  <2>6. CapsOfPhase'
    BY <1>1, <1>2, <1>4, <1>6 DEF CapsOfPhase, Quiet, obs
  <2>7. Digits'
    <3>1. fixed = <<>>
      BY <1>1 DEF Typed, Digits, Quiet
    <3> QED
      BY <1>1, <1>3, <1>6, <3>1 DEF Digits, Quiet
  <2> QED
    BY <2>3, <2>4, <2>5, <2>6, <2>7 DEF Typed
<1> QED
  BY <1>1, <1>5, <1>6

LEMMA DigitClosedTypes ==
  ASSUME Typed, DigitClosed
  PROVE  /\ Typed'
         /\ \/ Len(fixed) + 1 = Len(Preorder(best)) /\ (phase' = "done" \/ Restarted)
            \/ Len(fixed) + 1 # Len(Preorder(best)) /\ phase' = "canon"
<1>1. Quiet /\ phase = "canon" /\ {best, base} \subseteq Legal \cup {None} /\ best # None
  BY ClosedQuiet DEF DigitClosed, Typed, Incumbents, Bisected
<1>2. Preorder(best) \in Seq(Nat) /\ Len(fixed) < Len(Preorder(best)) /\ fixed \in Seq(Nat)
      /\ lo \in Nat /\ hi \in Nat
  BY <1>1, ProgramFacts DEF Typed, Digits, Bases
<1>3. CASE Len(fixed) + 1 = Len(Preorder(best))
  <2> DEFINE p == IF engine = "feasible_first" THEN Better(base, best) ELSE best
  <2>1. Returned(p, TRUE, "candidate")
    BY <1>3 DEF DigitClosed
  <2>2. p \in Legal \cup {None}
    BY <1>1, BetterIs
  <2> HIDE DEF p
  <2>3. Typed' /\ (phase' = "done" \/ Restarted)
    BY <1>1, <2>1, <2>2, ReturnedTypes
  <2> QED
    BY <1>3, <2>3
<1>4. CASE Len(fixed) + 1 # Len(Preorder(best))
  <2>1. /\ fixed' = Append(fixed, hi) /\ lo' = 0 /\ hi' = Preorder(best)[Len(fixed) + 2]
        /\ UNCHANGED <<phase, cap, best, base, outcome>>
    BY <1>4 DEF DigitClosed
  <2>2. hi' \in Nat /\ Len(fixed) \in Nat /\ Len(Preorder(best)) \in Nat
    BY <1>2, <1>4, <2>1, ElementOfSeq
  <2>3. Moved
    BY <1>1, <2>1, <2>2 DEF Moved, Phases, Bisected
  <2>4. Bases' /\ Candidates' /\ Answers'
    BY <2>3, MovedTypes
  <2>5. Incumbents' /\ PhasesOfEngine' /\ CapsOfPhase'
    BY <1>1, <2>1 DEF Typed, Quiet, Incumbents, Legal, PhasesOfEngine, CapsOfPhase, obs, NoCap
  <2>6. fixed' \in Seq(Nat) /\ Len(fixed') = Len(fixed) + 1
    BY <1>2, <2>1
  <2>7. Digits'
    BY <1>1, <1>2, <1>4, <2>1, <2>2, <2>6 DEF Digits
  <2> QED
    BY <1>1, <1>4, <2>1, <2>4, <2>5, <2>7 DEF Typed
<1> QED
  BY <1>3, <1>4

LEMMA TypedStep ==
  ASSUME Typed, [Next]_vars
  PROVE  Typed'
<1>1. CASE UNCHANGED vars
  <2>1. /\ UNCHANGED <<engine, job, work, phase, lo, hi, cap, fixed, found>>
        /\ UNCHANGED <<best, base, cand, ans, budget, status>>
    BY <1>1 DEF vars
  <2>2. Bases' /\ Incumbents' /\ PhasesOfEngine' /\ CapsOfPhase' /\ Digits' /\ Candidates'
    BY <2>1 DEF Typed, Bases, Incumbents, PhasesOfEngine, CapsOfPhase, Digits, Candidates, Legal,
                obs, Searching, NoCap
  <2>3. Answers'
    <3>1. Accepted(cand)' = Accepted(cand) /\ Feasible' = Feasible /\ Querying' = Querying
          /\ \A m : Decoded(m)' = Decoded(m) /\ Sound(m, cand)' = Sound(m, cand)
      BY <2>1, SameQuery DEF Sound
    <3>2. \A m : Decoded(m)' = Decoded(m) /\ Sound(m, cand)' = Sound(m, cand)
      BY <3>1
    <3> QED
      BY <2>1, <3>1, <3>2, Zenon DEF Typed, Answers
  <2> QED
    BY <2>2, <2>3 DEF Typed
<1>2. CASE Next
  BY <1>2, SolverTypes, ProposeTypes, StopTypes, FirstFeasibleTypes, ExactFoundTypes,
     NothingExactTypes, BracketTypes, HalvedTypes, WitnessedTypes, ErrorsClosedTypes, DepthTypes,
     DepthClosedTypes, DigitClosedTypes DEF Next, Solver, Optimizer
<1> QED
  BY <1>1, <1>2

LEMMA AlwaysTyped == Spec => []Typed
BY TypedInit, TypedStep, PTL DEF Spec

\* Variables keep their types, and a phase has the state it needs: a program that is
\* returned or kept is one of the grammar, and no bound exceeds what it bounds.
THEOREM TypeCorrect == Spec => []TypeOK
<1>1. Typed => TypeOK
  <2> SUFFICES ASSUME Typed PROVE TypeOK
    OBVIOUS
  <2>1. work \in Seq(DOMAIN obs) /\ Len(work) >= 1
    BY WorkFacts DEF Typed, Bases, obs
  <2>2. work # <<>>
    BY <2>1, EmptySeq
  <2>3. ans = "feasible" => cand # None
    BY CandidateType
  <2> QED
    BY <2>1, <2>2, <2>3 DEF Typed, Bases, Incumbents, CapsOfPhase, Candidates, Answers, TypeOK
<1> QED
  BY <1>1, AlwaysTyped, PTL

-------------------------------------------------------------------------------
(* The lower bound.                                                        *)

LEMMA SameJob ==
  ASSUME UNCHANGED job
  PROVE  /\ Weight' = Weight /\ MaxNodes' = MaxNodes /\ MaxDepth' = MaxDepth /\ obs' = obs
         /\ MaxScore' = MaxScore /\ Legal' = Legal
         /\ \A p : Errors(p)' = Errors(p) /\ Score(p)' = Score(p) /\ Key(p)' = Key(p)
         /\ \A e, n : Total(e, n)' = Total(e, n)
BY DEF Weight, MaxNodes, MaxDepth, obs, MaxScore, Legal, Errors, Score, Key, Total

LEMMA SameRivals ==
  ASSUME UNCHANGED <<engine, job, work>>
  PROVE  /\ \A m : WorkErrors(m)' = WorkErrors(m)
         /\ found' = found => Rivals' = Rivals
         /\ SpaceOf(engine, job, work)' = SpaceOf(engine, job, work)
<1>1. \A m : WorkErrors(m)' = WorkErrors(m)
  BY DEF WorkErrors, Misses, obs
<1>2. \A m, p : Blocked(m, p)' = Blocked(m, p)
  BY DEF Blocked
<1>3. SpaceOf(engine, job, work)' = SpaceOf(engine, job, work)
  OBVIOUS
<1>4. found' = found => Rivals' = Rivals
  BY <1>2, <1>3, Zenon DEF Rivals
<1> QED
  BY <1>1, <1>3, <1>4

LEMMA TotalType ==
  ASSUME Bases, NEW e \in Nat, NEW n \in Nat
  PROVE  Total(e, n) \in Nat
BY ScoreType DEF Total

LEMMA TotalGrows ==
  ASSUME Bases, NEW e \in Nat, NEW f \in Nat, NEW n \in Nat, e <= f
  PROVE  Total(e, n) <= Total(f, n)
<1> DEFINE W == Weight
<1>1. W \in Nat
  BY JobType
<1> HIDE DEF W
<1>2. e * W <= f * W
  BY <1>1
<1>3. e * W \in Nat /\ f * W \in Nat
  BY <1>1
<1> QED
  BY <1>2, <1>3 DEF Total, W

\* Error first, then nodes.
LEMMA TotalOrder ==
  ASSUME Bases, NEW e \in Nat, NEW f \in Nat, NEW n \in 1 .. MaxNodes, NEW k \in 1 .. MaxNodes
  PROVE  Total(e, n) >= Total(f, k) <=> (e > f \/ (e = f /\ n >= k))
<1> DEFINE W == Weight
<1>1. W \in Nat /\ n \in 1 .. W - 1 /\ k \in 1 .. W - 1
  BY JobType
<1> HIDE DEF W
<1>2. CASE e > f
  <2>1. e * W >= (f + 1) * W
    BY <1>1, <1>2
  <2>2. (f + 1) * W = f * W + W /\ e * W \in Nat /\ f * W \in Nat
    BY <1>1
  <2>3. e * W + n >= f * W + k
    BY <1>1, <2>1, <2>2
  <2> QED
    BY <1>2, <2>3 DEF Total, W
<1>3. CASE e = f
  <2>1. e * W \in Nat
    BY <1>1
  <2>2. e * W + n >= e * W + k <=> n >= k
    BY <1>1, <2>1
  <2> QED
    BY <1>3, <2>2 DEF Total, W
<1>4. CASE e < f
  <2>1. f * W >= (e + 1) * W
    BY <1>1, <1>4
  <2>2. (e + 1) * W = e * W + W /\ e * W \in Nat /\ f * W \in Nat
    BY <1>1
  <2>3. ~ (e * W + n >= f * W + k)
    BY <1>1, <2>1, <2>2
  <2> QED
    BY <1>4, <2>3 DEF Total, W
<1> QED
  BY <1>2, <1>3, <1>4

\* A program with more errors is allowed as well.
LEMMA AllowsMore ==
  ASSUME Bases, CapsOfPhase, NEW e \in Nat, NEW f \in Nat, NEW n \in Nat, NEW d \in Nat,
         e <= f, Allows(e, n, d)
  PROVE  Allows(f, n, d)
<1>1. Total(e, n) <= Total(f, n) /\ Total(e, n) \in Nat /\ Total(f, n) \in Nat /\ lo \in Nat
  BY TotalGrows, TotalType DEF Bases
<1>2. cap.err \in Nat
  BY JobType DEF CapsOfPhase
<1> QED
  BY <1>1, <1>2 DEF Allows

LEMMA RivalFacts ==
  ASSUME Bases, NEW m \in Rivals
  PROVE  /\ WorkErrors(m) \in Nat /\ Nodes(m) \in Nat /\ Depth(m) \in Nat
         /\ WorkErrors(m) <= Len(obs) /\ Len(obs) \in Nat
         /\ Nodes(m) \in 1 .. MaxNodes /\ MaxNodes \in Nat /\ Nodes(m) >= 1 /\ Depth(m) >= 1
         /\ Total(WorkErrors(m), Nodes(m)) \in Nat
<1>1. m \in SpaceOf(engine, job, work)
  BY DEF Rivals
<1>2. WorkErrors(m) \in 0 .. Len(obs) /\ Nodes(m) \in 1 .. MaxNodes /\ Depth(m) \in 1 .. MaxDepth
  BY <1>1, ModelFacts
<1>3. Len(obs) \in Nat /\ MaxNodes \in Nat
  BY JobType
<1>5. Depth(m) \in Nat /\ Depth(m) >= 1
  BY <1>2
<1>4. WorkErrors(m) \in Nat /\ Nodes(m) \in Nat /\ Nodes(m) >= 1 /\ WorkErrors(m) <= Len(obs)
  BY <1>2, <1>3
<1> QED
  BY <1>2, <1>3, <1>4, <1>5, TotalType

WorkCounted ==
  /\ Range(work) \subseteq DOMAIN obs
  /\ \A m : WorkErrors(m) = Cardinality({i \in Range(work) : Misses(m, i)})

LEMMA WorkErrorsCounted == Bases => WorkCounted
BY WorkErrorsAreOf DEF WorkCounted

LEMMA GrownRivals ==
  ASSUME Typed, Typed', UNCHANGED <<engine, job, found>>, engine \notin SkeletonEngines,
         NEW i \in DOMAIN obs \ Range(work), work' = Append(work, i)
  PROVE  Rivals' \subseteq Rivals /\ \A m \in Rivals' : WorkErrors(m) <= WorkErrors(m)'
<1>1. SpaceOf(engine, job, Append(work, i)) \subseteq SpaceOf(engine, job, work)
  BY ObservationsConstrain, Zenon DEF Typed, Bases, obs
<1>2. \A m, p : Blocked(m, p)' = Blocked(m, p)
  BY DEF Blocked
<1>3. Rivals' \subseteq Rivals
  BY <1>1, <1>2 DEF Rivals
<1>4. ASSUME NEW m \in Rivals' PROVE WorkErrors(m) <= WorkErrors(m)'
  <2> DEFINE A == {k \in Range(work) : Misses(m, k)}
             B == {k \in Range(work') : Misses(m, k)}
  <2>1. obs' = obs /\ \A k : Misses(m, k)' = Misses(m, k)
    BY DEF obs, Misses
  <2>2. Range(work) \subseteq DOMAIN obs /\ WorkErrors(m) = Cardinality(A)
    BY WorkErrorsAreOf DEF Typed
  <2>3. Bases'
    BY DEF Typed
  <2>4. Range(work') \subseteq DOMAIN obs' /\ WorkErrors(m)' = Cardinality({k \in Range(work') : Misses(m, k)'})
    <3>1. WorkCounted'
      BY <2>3, WorkErrorsCounted, PTL
    <3> QED
      BY <3>1 DEF WorkCounted
  <2>5. WorkErrors(m)' = Cardinality(B)
    BY <2>1, <2>4, Zenon
  <2>6. Range(work) \subseteq Range(work')
    <3>1. work \in Seq(DOMAIN obs) /\ DOMAIN work = 1 .. Len(work) /\ Len(work) \in Nat
      BY WorkFacts DEF Typed, Bases, obs
    <3>2. DOMAIN work' = 1 .. Len(work) + 1 /\ \A k \in 1 .. Len(work) : work'[k] = work[k]
      BY <3>1
    <3> QED
      BY <3>1, <3>2 DEF Range
  <2>7. A \subseteq B /\ B \subseteq 1 .. Len(obs) /\ Len(obs) \in Nat
    BY <2>1, <2>4, <2>6, JobType DEF Typed
  <2> HIDE DEF A, B
  <2>8. IsFiniteSet(B)
    BY <2>7, PartOfInterval
  <2>9. Cardinality(A) <= Cardinality(B)
    BY <2>7, <2>8, FS_Subset
  <2> QED
    BY <2>2, <2>5, <2>9
<1> QED
  BY <1>3, <1>4

RivalErrors == \A m \in Rivals : WorkErrors(m) \in Nat

LEMMA RivalErrorsNat == Typed => RivalErrors
BY RivalFacts DEF RivalErrors, Typed

\* A bound holds after a step on an answer if it holds of each model that it held of.
LEMMA LowerKept ==
  ASSUME Typed, LowerBound, UNCHANGED <<engine, job, work, found>>,
         \A e, n, d \in Nat : (Allows(e, n, d) /\ n >= 1 /\ d >= 1) => Allows(e, n, d)'
  PROVE  LowerBound'
<1> SUFFICES ASSUME NEW m \in Rivals' PROVE Allows(WorkErrors(m), Nodes(m), Depth(m))'
  BY DEF LowerBound
<1>1. Rivals' = Rivals /\ WorkErrors(m)' = WorkErrors(m)
  BY SameRivals
<1>2. /\ Allows(WorkErrors(m), Nodes(m), Depth(m))
      /\ WorkErrors(m) \in Nat /\ Nodes(m) \in Nat /\ Depth(m) \in Nat
      /\ Nodes(m) >= 1 /\ Depth(m) >= 1
  BY <1>1, RivalFacts DEF LowerBound, Typed
<1> DEFINE e == WorkErrors(m)
<1>3. Allows(e, Nodes(m), Depth(m))'
  <2>1. e \in Nat /\ e' = e /\ Allows(e, Nodes(m), Depth(m))
    BY <1>1, <1>2
  <2> HIDE DEF e
  <2>2. PICK c \in Nat : c = e
    BY <2>1
  <2>3. Allows(c, Nodes(m), Depth(m))'
    BY <1>2, <2>1, <2>2
  <2>4. e' = c
    BY <2>1, <2>2
  <2> QED
    BY <2>3, <2>4 DEF Allows, Total
<1> QED
  BY <1>3

\* After a refutation, of each model that the query did not meet.
LEMMA LowerRaised ==
  ASSUME Typed, LowerBound, ans = "infeasible", phase # "canon",
         UNCHANGED <<engine, job, work, found>>,
         \A e, n, d \in Nat :
           (Allows(e, n, d) /\ ~ Meets(e, n, d) /\ n >= 1 /\ d >= 1) => Allows(e, n, d)'
  PROVE  LowerBound'
<1> SUFFICES ASSUME NEW m \in Rivals' PROVE Allows(WorkErrors(m), Nodes(m), Depth(m))'
  BY DEF LowerBound
<1>1. Rivals' = Rivals /\ WorkErrors(m)' = WorkErrors(m)
  BY SameRivals
<1>2. /\ Allows(WorkErrors(m), Nodes(m), Depth(m))
      /\ WorkErrors(m) \in Nat /\ Nodes(m) \in Nat /\ Depth(m) \in Nat
      /\ Nodes(m) >= 1 /\ Depth(m) >= 1
  BY <1>1, RivalFacts DEF LowerBound, Typed
<1>3. ~ Meets(WorkErrors(m), Nodes(m), Depth(m))
  <2>1. m \notin Feasible /\ Querying /\ Bases /\ CapsOfPhase
    BY DEF Typed, Answers
  <2>2. DigitMet(m)
    BY DEF DigitMet
  <2> QED
    BY <1>1, <2>1, <2>2, FeasibleIs
<1> DEFINE e == WorkErrors(m)
<1>4. Allows(e, Nodes(m), Depth(m))'
  <2>1. e \in Nat /\ e' = e /\ Allows(e, Nodes(m), Depth(m)) /\ ~ Meets(e, Nodes(m), Depth(m))
    BY <1>1, <1>2, <1>3
  <2> HIDE DEF e
  <2>2. PICK c \in Nat : c = e
    BY <2>1
  <2>3. Allows(c, Nodes(m), Depth(m))'
    BY <1>2, <2>1, <2>2
  <2>4. e' = c
    BY <2>1, <2>2
  <2> QED
    BY <2>3, <2>4 DEF Allows, Total
<1> QED
  BY <1>4

LEMMA LowerTrivial ==
  ASSUME phase' \in {"any", "exact", "raised", "done"}
  PROVE  LowerBound'
BY DEF LowerBound, Allows

LEMMA LowerPropose ==
  ASSUME Typed, Typed', LowerBound, Propose
  PROVE  LowerBound'
<1>1. /\ UNCHANGED <<engine, job, lo, cap, found>>
      /\ \/ UNCHANGED <<work, phase>>
         \/ /\ phase' = phase /\ engine \notin SkeletonEngines
            /\ \E i \in DOMAIN obs \ Range(work) : work' = Append(work, i)
         \/ phase' = "raised"
  BY Proposals
<1>2. \A e, n, d : phase' = phase => Allows(e, n, d)' = Allows(e, n, d)
  BY <1>1, SameJob DEF Allows
<1>3. CASE UNCHANGED <<work, phase>>
  BY <1>1, <1>2, <1>3, LowerKept
<1>4. CASE phase' = "raised"
  BY <1>4, LowerTrivial
<1>5. ASSUME phase' = phase, engine \notin SkeletonEngines,
             NEW i \in DOMAIN obs \ Range(work), work' = Append(work, i)
      PROVE  LowerBound'
  <2> SUFFICES ASSUME NEW m \in Rivals' PROVE Allows(WorkErrors(m), Nodes(m), Depth(m))'
    BY DEF LowerBound
  <2>1. m \in Rivals /\ WorkErrors(m) <= WorkErrors(m)'
    BY <1>1, <1>5, GrownRivals
  <2>2. /\ Allows(WorkErrors(m), Nodes(m), Depth(m))
        /\ WorkErrors(m) \in Nat /\ Nodes(m) \in Nat /\ Depth(m) \in Nat
    BY <2>1, RivalFacts DEF LowerBound, Typed
  <2>3. WorkErrors(m)' \in Nat
    <3>1. RivalErrors'
      BY RivalErrorsNat, PTL
    <3> QED
      BY <3>1 DEF RivalErrors
  <2> DEFINE e == WorkErrors(m)
             f == WorkErrors(m)'
  <2>4. e \in Nat /\ f \in Nat /\ e <= f /\ Allows(e, Nodes(m), Depth(m))
    BY <2>1, <2>2, <2>3
  <2> HIDE DEF e, f
  <2>5. Allows(f, Nodes(m), Depth(m))
    BY <2>2, <2>4, AllowsMore DEF Typed
  <2> QED
    BY <1>1, <1>5, <2>5, SameJob DEF Allows, f
<1> QED
  BY <1>1, <1>3, <1>4, <1>5

LEMMA LowerReturned ==
  ASSUME Typed, Quiet, phase' = "done" \/ Restarted
  PROVE  LowerBound'
<1>1. CASE phase' \in {"any", "exact", "done"}
  BY <1>1, LowerTrivial
<1>2. CASE phase' \notin {"any", "exact", "done"}
  <2>1. phase' = "bracket" /\ lo' = 1 /\ UNCHANGED <<engine, job, work>>
    BY <1>2, FirstPhases DEF Restarted, Quiet, Typed, Bases
  <2> SUFFICES ASSUME NEW m \in Rivals' PROVE Allows(WorkErrors(m), Nodes(m), Depth(m))'
    BY DEF LowerBound
  <2>2. m \in SpaceOf(engine, job, work) /\ WorkErrors(m)' = WorkErrors(m)
    BY <2>1, SameRivals DEF Rivals
  <2>3. WorkErrors(m) \in 0 .. Len(obs) /\ Nodes(m) \in 1 .. MaxNodes
    BY <2>2, ModelFacts DEF Typed
  <2> DEFINE e == WorkErrors(m)
  <2>4. e \in Nat /\ Nodes(m) \in Nat /\ Nodes(m) >= 1
    BY <2>3, JobType DEF Typed
  <2>5. e' = e
    BY <2>2
  <2> HIDE DEF e
  <2>6. Total(0, Nodes(m)) = Nodes(m)
    <3>1. 0 * Weight = 0
      BY JobType DEF Typed
    <3> QED
      BY <2>4, <3>1 DEF Total
  <2>7. Total(0, Nodes(m)) <= Total(e, Nodes(m)) /\ Total(e, Nodes(m)) \in Nat
    <3>1. Bases /\ 0 \in Nat /\ 0 <= e
      BY <2>4 DEF Typed
    <3>2. Total(0, Nodes(m)) <= Total(e, Nodes(m))
      BY <2>4, <3>1, TotalGrows
    <3> QED
      BY <2>4, <3>1, <3>2, TotalType
  <2>8. Total(e, Nodes(m))' = Total(e, Nodes(m))
    BY <2>1, <2>5, SameJob DEF Total
  <2>9. Allows(e, Nodes(m), Depth(m))'
    BY <2>1, <2>4, <2>6, <2>7, <2>8 DEF Allows
  <2> QED
    BY <2>9 DEF e
<1> QED
  BY <1>1, <1>2

LEMMA LowerStarted ==
  ASSUME Typed, LowerBound, AnyFound \/ ExactFound \/ Witnessed
  PROVE  LowerBound'
<1>1. UNCHANGED <<engine, job, work, found>> /\ lo \in Nat
  BY DEF AnyFound, ExactFound, Witnessed, Answered, outcome, Typed, Bases
<1>2. CASE AnyFound
  <2>1. phase' = "exact" \/ (phase' = "errors" /\ lo' = 0)
    BY <1>2 DEF AnyFound, Tightens
  <2>2. CASE phase' = "errors" /\ lo' = 0
    BY <1>1, <2>2, LowerKept DEF Allows
  <2> QED
    BY <2>1, <2>2, LowerTrivial
<1>3. CASE ExactFound
  <2>1. \/ phase' = "raised"
        \/ phase' = "nodes" /\ lo' = 1 /\ cap' = [cap EXCEPT !.err = 0]
    BY <1>3 DEF ExactFound, TightensNodes, Tightens
  <2>2. CASE phase' = "nodes" /\ lo' = 1 /\ cap' = [cap EXCEPT !.err = 0]
    <3>1. cap'.err = 0
      BY <2>2 DEF Typed, CapsOfPhase
    <3> QED
      BY <1>1, <2>2, <3>1, LowerKept DEF Allows
  <2> QED
    BY <2>1, <2>2, LowerTrivial
<1>4. CASE Witnessed
  <2>1. /\ phase = "witness"
        /\ \/ phase' = "raised"
           \/ phase' = "nodes" /\ lo' = 1 /\ cap' = [cap EXCEPT !.err = lo]
    BY <1>4 DEF Witnessed, TightensNodes, Tightens
  <2>2. CASE phase' = "nodes" /\ lo' = 1 /\ cap' = [cap EXCEPT !.err = lo]
    <3>1. cap'.err = lo
      BY <2>2 DEF Typed, CapsOfPhase
    <3> QED
      BY <1>1, <2>1, <2>2, <3>1, LowerKept DEF Allows
  <2> QED
    BY <2>1, <2>2, LowerTrivial
<1> QED
  BY <1>2, <1>3, <1>4

LEMMA LowerRefuted ==
  ASSUME Typed, LowerBound, NothingExact \/ NotBracketed \/ Raised
  PROVE  LowerBound'
<1>1. UNCHANGED <<engine, job, work, found, cap>> /\ ans = "infeasible" /\ lo \in Nat /\ hi \in Nat
      /\ Mid \in Nat /\ Bases
  BY MidBetween DEF NothingExact, NotBracketed, Raised, Answered, outcome, Typed, Bases
<1>2. CASE NothingExact
  <2>1. /\ phase = "exact"
        /\ phase' = "any" \/ (phase' = "errors" /\ lo' = 1)
    BY <1>1, <1>2, EngineIs DEF NothingExact, Tightens, Typed, PhasesOfEngine, CegisEngines
  <2>2. CASE phase' = "errors" /\ lo' = 1
    <3>1. ASSUME NEW e \in Nat, NEW n \in Nat, NEW d \in Nat, ~ Meets(e, n, d)
          PROVE  Allows(e, n, d)'
      <4>1. e # 0
        BY <2>1, <3>1 DEF Meets
      <4> QED
        BY <2>2, <4>1 DEF Allows
    <3> QED
      BY <1>1, <2>1, <3>1, LowerRaised
  <2> QED
    BY <2>1, <2>2, LowerTrivial
<1>3. CASE NotBracketed
  <2>1. phase = "bracket" /\ phase' = "bracket" /\ lo' = hi + 1
    BY <1>3 DEF NotBracketed
  <2>2. ASSUME NEW e \in Nat, NEW n \in Nat, NEW d \in Nat, ~ Meets(e, n, d)
        PROVE  Allows(e, n, d)'
    <3>1. Total(e, n) \in Nat /\ Total(e, n)' = Total(e, n)
      BY <1>1, TotalType, SameJob
    <3>2. ~ (Total(e, n) <= hi)
      BY <2>1, <2>2 DEF Meets, Total
    <3>3. Total(e, n) >= hi + 1
      BY <1>1, <3>1, <3>2
    <3> QED
      BY <2>1, <3>1, <3>3 DEF Allows
  <2> QED
    BY <1>1, <2>1, <2>2, LowerRaised
<1>4. CASE Raised
  <2>1. phase \in Bisected /\ phase' = phase /\ lo' = Mid + 1
    BY <1>4 DEF Raised
  <2>2. CASE phase = "canon"
    BY <1>1, <2>1, <2>2, LowerKept DEF Allows
  <2>3. CASE phase # "canon"
    <3>1. ASSUME NEW e \in Nat, NEW n \in Nat, NEW d \in Nat, ~ Meets(e, n, d), Allows(e, n, d)
          PROVE  Allows(e, n, d)'
      <4>1. Total(e, n) \in Nat /\ Total(e, n)' = Total(e, n)
        BY <1>1, TotalType, SameJob
      <4>2. /\ phase = "errors" => ~ (e <= Mid)
            /\ phase = "score" => ~ (Total(e, n) <= Mid)
            /\ phase = "nodes" => ~ (e <= cap.err /\ n <= Mid)
            /\ phase = "depth" => ~ (e <= cap.err /\ n <= cap.nodes /\ d <= Mid)
        BY <3>1 DEF Meets, Total
      <4>3. /\ phase \in {"nodes", "depth"} => e >= cap.err
            /\ phase = "depth" /\ e = cap.err => n >= cap.nodes
        BY <3>1 DEF Allows
      <4>4. phase' = phase /\ phase \in {"errors", "score", "nodes", "depth"} /\ cap' = cap
            /\ cap.err \in Nat /\ (phase = "depth" => cap.nodes \in Nat)
        BY <1>1, <2>1, <2>3, JobType DEF Bisected, Typed, CapsOfPhase
      <4>5. CASE phase = "errors"
        BY <1>1, <2>1, <4>2, <4>4, <4>5 DEF Allows
      <4>6. CASE phase = "score"
        <5>1. Total(e, n) >= Mid + 1
          BY <1>1, <4>1, <4>2, <4>6
        <5> QED
          BY <2>1, <4>1, <4>4, <4>6, <5>1 DEF Allows
      <4>7. CASE phase = "nodes"
        BY <1>1, <2>1, <4>2, <4>3, <4>4, <4>7 DEF Allows
      <4>8. CASE phase = "depth"
        BY <1>1, <2>1, <4>2, <4>3, <4>4, <4>8 DEF Allows
      <4> QED
        BY <4>4, <4>5, <4>6, <4>7, <4>8
    <3> QED
      BY <1>1, <2>3, <3>1, LowerRaised
  <2> QED
    BY <2>2, <2>3
<1> QED
  BY <1>2, <1>3, <1>4

\* Nothing that Allows depends on changes when the incumbent does.
LEMMA LowerUntouched ==
  ASSUME Typed, LowerBound, Bracketed \/ Lowered
  PROVE  LowerBound'
<1>1. UNCHANGED <<engine, job, work, found, cap, lo>>
      /\ (phase' = phase \/ (phase = "bracket" /\ phase' = "score"))
  BY DEF Bracketed, Lowered, Answered, outcome, Tightens
<1>2. \A e, n : Total(e, n)' = Total(e, n)
  BY <1>1, SameJob
<1>3. \A e, n, d \in Nat : Allows(e, n, d) => Allows(e, n, d)'
  <2> SUFFICES ASSUME NEW e \in Nat, NEW n \in Nat, NEW d \in Nat, Allows(e, n, d)
               PROVE  Allows(e, n, d)'
    OBVIOUS
  <2>1. Total(e, n)' = Total(e, n)
    BY <1>2
  <2> QED
    BY <1>1, <2>1 DEF Allows
<1> QED
  BY <1>1, <1>3, LowerKept

LEMMA DivideScore ==
  ASSUME NEW l \in Nat, NEW w \in Nat, w >= 1
  PROVE  l = (l \div w) * w + (l % w)
OBVIOUS

\* The score that was reached is that of the incumbent which realizes it.
LEMMA ScoreRealized ==
  ASSUME Typed, phase = "score", Realized(lo \div Weight, lo % Weight, None)
  PROVE  lo = Total(Errors(best), Nodes(best)) /\ best \in Legal
<1>1. lo \in Nat /\ Weight \in Nat /\ Weight >= 1 /\ best \in Legal
  BY JobType DEF Typed, Bases, Incumbents
<1>2. Errors(best) = lo \div Weight /\ Nodes(best) = lo % Weight
  BY DEF Realized
<1>3. lo = (lo \div Weight) * Weight + (lo % Weight)
  BY <1>1, DivideScore
<1> QED
  BY <1>1, <1>2, <1>3, Zenon DEF Total

LEMMA LowerClosed ==
  ASSUME Typed, LowerBound, ErrorsClosed \/ ScoreClosed \/ NodesClosed \/ DepthClosed
  PROVE  LowerBound'
<1>1. UNCHANGED <<engine, job, work, found>> /\ lo \in Nat /\ Bases
      /\ cap = [err |-> cap.err, nodes |-> cap.nodes, depth |-> cap.depth]
  BY DEF ErrorsClosed, ScoreClosed, NodesClosed, DepthClosed, Closed, outcome, Typed, Bases, CapsOfPhase
<1>2. CASE ErrorsClosed
  <2>1. /\ phase = "errors"
        /\ \/ phase' = "witness" /\ lo' = lo
           \/ phase' = "nodes" /\ lo' = 1 /\ cap' = [cap EXCEPT !.err = lo]
    BY <1>2 DEF ErrorsClosed, TightensNodes, Tightens, Closed, interval
  <2>2. CASE phase' = "witness" /\ lo' = lo
    BY <1>1, <2>1, <2>2, LowerKept DEF Allows
  <2>3. CASE phase' = "nodes" /\ lo' = 1 /\ cap' = [cap EXCEPT !.err = lo]
    <3>1. cap'.err = lo
      BY <1>1, <2>3
    <3> QED
      BY <1>1, <2>1, <2>3, <3>1, LowerKept DEF Allows
  <2> QED
    BY <2>1, <2>2, <2>3
<1>3. CASE NodesClosed
  <2>1. /\ phase = "nodes"
        /\ \/ phase' = "raised"
           \/ phase' = "depth" /\ lo' = 1 /\ cap' = [cap EXCEPT !.err = cap.err, !.nodes = lo]
    BY <1>3 DEF NodesClosed, TightensDepth, Closed
  <2>2. CASE phase' = "depth" /\ lo' = 1 /\ cap' = [cap EXCEPT !.err = cap.err, !.nodes = lo]
    <3>1. cap' = [err |-> cap.err, nodes |-> lo, depth |-> cap.depth]
      BY <1>1, <2>2
    <3>2. cap'.err = cap.err /\ cap'.nodes = lo
      BY <3>1
    <3> QED
      BY <1>1, <2>1, <2>2, <3>2, LowerKept DEF Allows
  <2> QED
    BY <2>1, <2>2, LowerTrivial
<1>4. CASE DepthClosed
  <2>1. /\ phase = "depth" /\ cap' = [cap EXCEPT !.depth = lo]
        /\ phase' = "raised" \/ phase' = "canon"
    BY <1>4 DEF DepthClosed, Tightens, Closed
  <2>2. CASE phase' = "canon"
    <3>1. cap'.err = cap.err /\ cap'.nodes = cap.nodes /\ cap'.depth = lo
      BY <1>1, <2>1
    <3> QED
      BY <1>1, <2>1, <2>2, <3>1, LowerKept DEF Allows
  <2> QED
    BY <2>1, <2>2, LowerTrivial
<1>5. CASE ScoreClosed
  <2>1. /\ phase = "score"
        /\ \/ phase' = "raised"
           \/ /\ Realized(lo \div Weight, lo % Weight, None)
              /\ TightensDepth(lo \div Weight, lo % Weight)
    BY <1>5 DEF ScoreClosed, Closed
  <2>2. ASSUME Realized(lo \div Weight, lo % Weight, None),
               TightensDepth(lo \div Weight, lo % Weight)
        PROVE  LowerBound'
    <3>1. lo = Total(Errors(best), Nodes(best)) /\ best \in Legal
      BY <2>1, <2>2, ScoreRealized
    <3>2. /\ phase' = "depth" /\ lo' = 1
          /\ cap' = [cap EXCEPT !.err = Errors(best), !.nodes = Nodes(best)]
      BY <2>2 DEF TightensDepth, Realized
    <3>3. cap' = [err |-> Errors(best), nodes |-> Nodes(best), depth |-> cap.depth]
      BY <1>1, <3>2
    <3>4. cap'.err = Errors(best) /\ cap'.nodes = Nodes(best)
      BY <3>3
    <3>5. Errors(best) \in Nat /\ Nodes(best) \in 1 .. MaxNodes
      BY <1>1, <3>1, ProgramFacts, JobType
    <3> SUFFICES ASSUME NEW m \in Rivals' PROVE Allows(WorkErrors(m), Nodes(m), Depth(m))'
      BY DEF LowerBound
    <3>6. m \in Rivals /\ WorkErrors(m)' = WorkErrors(m)
      BY <1>1, SameRivals
    <3>7. /\ Allows(WorkErrors(m), Nodes(m), Depth(m))
          /\ WorkErrors(m) \in Nat /\ Nodes(m) \in 1 .. MaxNodes /\ Depth(m) >= 1
      BY <1>1, <3>6, RivalFacts DEF LowerBound
    <3>8. Total(WorkErrors(m), Nodes(m)) >= Total(Errors(best), Nodes(best))
      BY <2>1, <3>1, <3>7 DEF Allows
    <3>9. WorkErrors(m) > Errors(best) \/ (WorkErrors(m) = Errors(best) /\ Nodes(m) >= Nodes(best))
      BY <1>1, <3>5, <3>7, <3>8, TotalOrder
    <3> DEFINE e == WorkErrors(m)
               b == Errors(best)
    <3>10. /\ e \in Nat /\ b \in Nat /\ (e > b \/ (e = b /\ Nodes(m) >= Nodes(best)))
           /\ e' = e /\ cap'.err = b /\ cap'.nodes = Nodes(best) /\ Depth(m) >= 1
      BY <3>4, <3>5, <3>6, <3>7, <3>9
    <3> HIDE DEF e, b
    <3>11. Allows(e, Nodes(m), Depth(m))'
      BY <3>2, <3>10 DEF Allows
    <3> QED
      BY <3>11 DEF e
  <2> QED
    BY <2>1, <2>2, LowerTrivial
<1> QED
  BY <1>2, <1>3, <1>4, <1>5

LEMMA LowerStep ==
  ASSUME Typed, Typed', LowerBound, [Next]_vars
  PROVE  LowerBound'
<1>1. CASE UNCHANGED vars \/ Refute \/ GiveUp
  <2>1. UNCHANGED <<engine, job, work, found, phase, lo, cap>>
    BY <1>1 DEF vars, Refute, GiveUp, SolverCalled, interval, outcome
  <2>2. \A e, n : Total(e, n)' = Total(e, n)
    BY <2>1, SameJob
  <2>3. \A e, n, d \in Nat : Allows(e, n, d) => Allows(e, n, d)'
    <3> SUFFICES ASSUME NEW e \in Nat, NEW n \in Nat, NEW d \in Nat, Allows(e, n, d)
                 PROVE  Allows(e, n, d)'
      OBVIOUS
    <3>1. Total(e, n)' = Total(e, n)
      BY <2>2
    <3> QED
      BY <2>1, <3>1 DEF Allows
  <2> QED
    BY <2>1, <2>3, LowerKept
<1>2. CASE Interrupted \/ NoneLeft
  <2>1. Quiet
    BY <1>2, AnsweredQuiet DEF Interrupted, NoneLeft
  <2> QED
    BY <1>2, <2>1, StopTypes, LowerReturned
<1>3. CASE DigitClosed
  <2>1. Quiet /\ phase = "canon"
    BY <1>3, ClosedQuiet DEF DigitClosed, Bisected
  <2>2. CASE phase' = "done" \/ Restarted
    BY <2>1, <2>2, LowerReturned
  <2>3. CASE Len(fixed) + 1 # Len(Preorder(best))
    <3>1. UNCHANGED <<phase, cap, found>>
      BY <1>3, <2>3 DEF DigitClosed, outcome
    <3> QED
      BY <2>1, <3>1, LowerKept DEF Quiet, Allows
  <2> QED
    BY <1>3, <2>2, <2>3, DigitClosedTypes
<1> QED
  BY <1>1, <1>2, <1>3, LowerPropose, LowerStarted, LowerRefuted, LowerUntouched, LowerClosed
     DEF Next, Solver, Optimizer

LEMMA LowerInit == Init => LowerBound
<1> SUFFICES ASSUME Init PROVE LowerBound
  OBVIOUS
<1>1. Typed /\ lo = 1 /\ phase \in {"any", "exact", "bracket"}
  BY TypedInit, FirstPhases DEF Init
<1> SUFFICES ASSUME NEW m \in Rivals PROVE Allows(WorkErrors(m), Nodes(m), Depth(m))
  BY DEF LowerBound
<1>2. WorkErrors(m) \in Nat /\ Nodes(m) \in Nat /\ Nodes(m) >= 1
  BY <1>1, RivalFacts DEF Typed
<1> DEFINE e == WorkErrors(m)
<1>3. e \in Nat
  BY <1>2
<1> HIDE DEF e
<1>4. Total(e, Nodes(m)) >= 1
  <2> DEFINE W == Weight
  <2>1. W \in Nat
    BY <1>1, JobType DEF Typed
  <2> HIDE DEF W
  <2>2. e * W \in Nat
    BY <1>3, <2>1
  <2> QED
    BY <1>2, <2>2 DEF Total, W
<1>5. Allows(e, Nodes(m), Depth(m))
  BY <1>1, <1>4 DEF Allows
<1> QED
  BY <1>5 DEF e

-------------------------------------------------------------------------------
(* Programs that are still to be found.                                    *)

\* A program that means something else than the candidates is encoded, and not blocked.
LEMMA FreshRival ==
  ASSUME Typed, NEW p \in Fresh(Len(found) + 1), ~ job.same_name \/ found = <<>>
  PROVE  \E m \in Rivals : /\ WorkErrors(m) <= Errors(p)
                           /\ Nodes(m) = Nodes(p) /\ Depth(m) = Depth(p)
<1>1. /\ p \in Legal
      /\ \A j \in 1 .. Len(found) : ~ SameTable(p, found[j].program)
  <2>1. Len(found) \in Nat
    BY DEF Typed, Candidates
  <2>2. (Len(found) + 1) - 1 = Len(found)
    BY <2>1
  <2> QED
    BY <2>2 DEF Fresh
<1>2. PICK m \in SpaceOf(engine, job, work) :
        /\ WorkErrors(m) <= Errors(p)
        /\ Nodes(m) = Nodes(p) /\ Depth(m) = Depth(p)
        /\ ~ job.same_name => SameTable(m, p)
  BY <1>1, ProgramIsEncoded DEF Typed
<1>3. m \in Rivals
  <2> SUFFICES ASSUME NEW k \in DOMAIN found, Blocked(m, found[k].program)
               PROVE  FALSE
    BY DEF Rivals
  <2>1. k \in 1 .. Len(found) /\ found # <<>>
    BY DEF Typed, Candidates
  <2>2. SameTable(m, p)
    BY <1>2, <2>1
  <2>3. SameTable(p, found[k].program)
    BY <2>2, Zenon DEF Blocked, SameTable
  <2> QED
    BY <1>1, <2>1, <2>3
<1> QED
  BY <1>2, <1>3

LEMMA FreshAllowed ==
  ASSUME Typed, LowerBound, NEW p \in Fresh(Len(found) + 1), ~ job.same_name \/ found = <<>>
  PROVE  Allows(Errors(p), Nodes(p), Depth(p))
<1>1. PICK m \in Rivals : /\ WorkErrors(m) <= Errors(p)
                          /\ Nodes(m) = Nodes(p) /\ Depth(m) = Depth(p)
  BY FreshRival
<1>2. /\ Allows(WorkErrors(m), Nodes(p), Depth(p))
      /\ WorkErrors(m) \in Nat /\ Nodes(p) \in Nat /\ Depth(p) \in Nat
  BY <1>1, RivalFacts DEF LowerBound, Typed
<1>3. Errors(p) \in Nat
  BY ProgramFacts, JobType DEF Typed, Fresh
<1> QED
  BY <1>1, <1>2, <1>3, AllowsMore DEF Typed

LEMMA AllFresh ==
  ASSUME found = <<>>, NEW p \in Legal
  PROVE  p \in Fresh(Len(found) + 1)
<1>1. Len(found) = 0
  OBVIOUS
<1>2. (Len(found) + 1) - 1 = 0
  BY <1>1
<1> QED
  BY <1>2 DEF Fresh

LEMMA CandAllowed ==
  ASSUME Typed, LowerBound, ans = "feasible"
  PROVE  Allows(Errors(cand), Nodes(cand), Depth(cand))
<1>1. PICK m \in Rivals : /\ Sound(m, cand) /\ cand \in Legal
                          /\ Nodes(m) = Nodes(cand) /\ Depth(m) = Depth(cand)
  BY CandidateMeets
<1>2. WorkErrors(m) <= Errors(cand)
  BY <1>1, DecodedErrs DEF Typed
<1>3. /\ Allows(WorkErrors(m), Nodes(cand), Depth(cand))
      /\ WorkErrors(m) \in Nat /\ Nodes(cand) \in Nat /\ Depth(cand) \in Nat
  BY <1>1, RivalFacts DEF LowerBound, Typed
<1>4. Errors(cand) \in Nat
  BY <1>1, ProgramFacts, JobType DEF Typed
<1> QED
  BY <1>2, <1>3, <1>4, AllowsMore DEF Typed

LEMMA NotBetter ==
  ASSUME Bases, NEW p \in Legal, NEW q \in Legal, ~ KeyLess(Key(p), Key(q))
  PROVE  /\ Errors(q) <= Errors(p)
         /\ Errors(q) = Errors(p) => /\ Nodes(q) <= Nodes(p)
                                     /\ Nodes(q) = Nodes(p) => Depth(q) <= Depth(p)
<1>1. /\ Errors(p) \in Nat /\ Nodes(p) \in Nat /\ Depth(p) \in Nat
      /\ Errors(q) \in Nat /\ Nodes(q) \in Nat /\ Depth(q) \in Nat
  <2>1. Errors(p) \in 0 .. Len(obs) /\ Nodes(p) \in 1 .. MaxNodes /\ Depth(p) \in 1 .. MaxDepth
    BY ProgramFacts
  <2>2. Errors(q) \in 0 .. Len(obs) /\ Nodes(q) \in 1 .. MaxNodes /\ Depth(q) \in 1 .. MaxDepth
    BY ProgramFacts
  <2> QED
    BY <2>1, <2>2
<1>2. Key(p) = <<Errors(p), Nodes(p), Depth(p)>> /\ Key(q) = <<Errors(q), Nodes(q), Depth(q)>>
  BY DEF Key, KeyIn, Errors
<1>3. ~ \/ Errors(p) < Errors(q)
        \/ Errors(p) = Errors(q) /\ Nodes(p) < Nodes(q)
        \/ Errors(p) = Errors(q) /\ Nodes(p) = Nodes(q) /\ Depth(p) < Depth(q)
  BY <1>2 DEF KeyLess
<1> QED
  BY <1>1, <1>3

\* The incumbent becomes the candidate, or is no worse and stays.
LEMMA Merged ==
  ASSUME Typed, ans = "feasible"
  PROVE  \/ Merge(cand) = cand
         \/ /\ Merge(cand) = best /\ best \in Legal /\ engine = "feasible_first" /\ phase # "canon"
            /\ Errors(best) <= Errors(cand)
            /\ Errors(best) = Errors(cand) =>
                 /\ Nodes(best) <= Nodes(cand)
                 /\ Nodes(best) = Nodes(cand) => Depth(best) <= Depth(cand)
<1>1. cand \in Legal /\ Bases
  BY CandidateMeets DEF Typed
<1>2. ASSUME Merge(cand) = best, best # None, ~ ScoreLess(cand, best)
      PROVE  /\ best \in Legal
             /\ Errors(best) <= Errors(cand)
             /\ Errors(best) = Errors(cand) =>
                  /\ Nodes(best) <= Nodes(cand)
                  /\ Nodes(best) = Nodes(cand) => Depth(best) <= Depth(cand)
  <2>1. best \in Legal
    BY <1>2 DEF Typed, Incumbents
  <2>2. ~ KeyLess(Key(cand), Key(best))
    BY <1>2 DEF ScoreLess
  <2> QED
    BY <1>1, <2>1, <2>2, NotBetter
<1> QED
  BY <1>2, MergeIs

LEMMA IncumbentFacts ==
  ASSUME Typed, best # None
  PROVE  /\ best \in Legal /\ Errors(best) \in Nat /\ Errors(best) <= Len(obs) /\ Len(obs) \in Nat
         /\ Nodes(best) \in Nat /\ Nodes(best) >= 1 /\ Nodes(best) \in 1 .. MaxNodes
         /\ Depth(best) \in Nat /\ Depth(best) >= 1
         /\ Score(best) \in Nat /\ Score(best) = Total(Errors(best), Nodes(best))
<1>1. best \in Legal /\ Bases
  BY DEF Typed, Incumbents
<1>2. Errors(best) \in 0 .. Len(obs) /\ Nodes(best) \in 1 .. MaxNodes /\ Depth(best) \in 1 .. MaxDepth
      /\ Len(obs) \in Nat /\ MaxNodes \in Nat
  BY <1>1, ProgramFacts, JobType
<1>3. Errors(best) \in Nat /\ Errors(best) <= Len(obs) /\ Nodes(best) \in Nat /\ Nodes(best) >= 1
  BY <1>2
<1>4. Depth(best) \in Nat /\ Depth(best) >= 1
  BY <1>2
<1>5. Score(best) = Total(Errors(best), Nodes(best))
  BY DEF Score, Total
<1> QED
  BY <1>1, <1>2, <1>3, <1>4, <1>5, TotalType

-------------------------------------------------------------------------------
(* The upper bound.                                                        *)

LEMMA CandidateFacts ==
  ASSUME Typed, ans = "feasible"
  PROVE  /\ cand \in Legal /\ cand # None
         /\ Errors(cand) \in Nat /\ Errors(cand) <= Len(obs) /\ Len(obs) \in Nat
         /\ Nodes(cand) \in Nat /\ Nodes(cand) >= 1 /\ Nodes(cand) \in 1 .. MaxNodes
         /\ Depth(cand) \in Nat /\ Depth(cand) >= 1
         /\ Score(cand) \in Nat /\ Score(cand) = Total(Errors(cand), Nodes(cand))
         /\ phase = "exact" => Errors(cand) = 0
         /\ phase = "errors" => Errors(cand) <= Mid
         /\ phase = "witness" => Errors(cand) <= lo
         /\ phase = "bracket" => Score(cand) <= hi
         /\ phase = "score" => Score(cand) <= Mid
         /\ phase \in {"nodes", "depth", "canon"} => Errors(cand) <= cap.err
         /\ phase = "nodes" => Nodes(cand) <= Mid
         /\ phase \in {"depth", "canon"} => Nodes(cand) <= cap.nodes
         /\ phase = "depth" => Depth(cand) <= Mid
         /\ phase = "canon" => Depth(cand) <= cap.depth
<1>1. cand \in Legal /\ Bases /\ Meets(Errors(cand), Nodes(cand), Depth(cand)) /\ cand # None
  BY CandidateMeets, CandidateType DEF Typed
<1>2. Errors(cand) \in 0 .. Len(obs) /\ Nodes(cand) \in 1 .. MaxNodes /\ Depth(cand) \in 1 .. MaxDepth
      /\ Len(obs) \in Nat /\ MaxNodes \in Nat
  BY <1>1, ProgramFacts, JobType
<1>3. Errors(cand) \in Nat /\ Errors(cand) <= Len(obs) /\ Nodes(cand) \in Nat /\ Nodes(cand) >= 1
  BY <1>2
<1>4. Depth(cand) \in Nat /\ Depth(cand) >= 1
  BY <1>2
<1>5. Score(cand) = Total(Errors(cand), Nodes(cand))
  BY DEF Score, Total
<1>6. Score(cand) \in Nat
  BY <1>1, <1>3, <1>5, TotalType
<1>7. /\ phase = "exact" => Errors(cand) = 0
      /\ phase = "errors" => Errors(cand) <= Mid
      /\ phase = "witness" => Errors(cand) <= lo
      /\ phase = "bracket" => Score(cand) <= hi
      /\ phase = "score" => Score(cand) <= Mid
      /\ phase \in {"nodes", "depth", "canon"} => Errors(cand) <= cap.err
      /\ phase = "nodes" => Nodes(cand) <= Mid
      /\ phase \in {"depth", "canon"} => Nodes(cand) <= cap.nodes
      /\ phase = "depth" => Depth(cand) <= Mid
      /\ phase = "canon" => Depth(cand) <= cap.depth
  BY <1>1 DEF Meets, Score
<1> QED
  BY <1>1, <1>2, <1>3, <1>4, <1>5, <1>6, <1>7

LEMMA UpperMeans ==
  ASSUME UNCHANGED <<engine, job>>,
         phase' = "errors" => IF best' = None THEN hi' = Len(obs) ELSE Errors(best') = hi',
         phase' = "score" => Score(best') = hi',
         phase' \in {"nodes", "depth", "canon"} => Errors(best') <= cap'.err,
         phase' = "nodes" /\ Errors(best') = cap'.err => Nodes(best') = hi',
         phase' = "depth" /\ Errors(best') = cap'.err =>
           /\ Nodes(best') <= cap'.nodes
           /\ Nodes(best') = cap'.nodes =>
                Depth(best') <= hi' /\ (engine \in CegisEngines => Depth(best') = hi'),
         phase' = "canon" =>
           /\ Nodes(best') <= cap'.nodes /\ Depth(best') <= cap'.depth
           /\ Key(base') = <<cap'.err, cap'.nodes, cap'.depth>>
  PROVE  UpperBound'
<1> USE DEF obs, Errors, Score, Weight, MaxNodes, MaxDepth, Key
<1>1. phase' = "errors" => IF best' = None THEN hi' = Len(obs') ELSE Errors(best)' = hi'
  OBVIOUS
<1>2. phase' = "score" => Score(best)' = hi'
  OBVIOUS
<1>3. Errors(best)' = Errors(best') /\ Key(base)' = Key(base')
  OBVIOUS
<1> QED
  BY <1>1, <1>2, <1>3 DEF UpperBound

LEMMA UpperTrivial ==
  ASSUME phase' \in {"any", "exact", "bracket", "witness", "raised", "done"}
  PROVE  UpperBound'
BY DEF UpperBound

LEMMA UpperOfNodes ==
  ASSUME Typed, UNCHANGED <<engine, job>>, best' \in Legal, Errors(best') \in 0 .. Len(obs),
         TightensNodes(best', Errors(best'))
  PROVE  UpperBound'
<1>1. phase' = "nodes" /\ hi' = Nodes(best') /\ cap' = [cap EXCEPT !.err = Errors(best')]
  BY DEF TightensNodes, Tightens
<1>2. cap'.err = Errors(best') /\ Errors(best') \in Int
  BY <1>1 DEF Typed, CapsOfPhase
<1> HIDE DEF TightensNodes
<1> QED
  BY <1>1, <1>2, UpperMeans

LEMMA UpperStarted ==
  ASSUME Typed, AnyFound \/ ExactFound \/ Witnessed \/ NothingExact \/ Bracketed \/ NotBracketed
  PROVE  UpperBound'
<1>1. UNCHANGED <<engine, job>> /\ Quiet
  BY AnsweredQuiet DEF AnyFound, ExactFound, Witnessed, NothingExact, Bracketed, NotBracketed, Quiet
<1>2. CASE AnyFound
  <2>1. /\ best' = cand /\ ans = "feasible"
        /\ phase' = "exact" \/ (phase' = "errors" /\ hi' = Errors(cand))
    BY <1>2 DEF AnyFound, Tightens, Answered
  <2>2. cand # None
    BY <2>1, CandidateFacts
  <2> QED
    BY <1>1, <2>1, <2>2, UpperMeans, UpperTrivial
<1>3. CASE ExactFound \/ Witnessed
  <2>1. /\ best' = Merge(cand) /\ ans = "feasible"
        /\ phase' = "raised" \/ TightensNodes(best', Errors(best'))
    BY <1>3 DEF ExactFound, Witnessed, Answered
  <2>2. best' \in Legal
    BY <2>1, CandidateType
  <2>3. Errors(best') \in 0 .. Len(obs)
    BY <2>2, ProgramFacts DEF Typed
  <2> QED
    BY <1>1, <2>1, <2>2, <2>3, UpperOfNodes, UpperTrivial
<1>4. CASE NothingExact
  <2>1. /\ best' = best /\ phase = "exact"
        /\ \/ phase' = "any"
           \/ engine = "cegis" /\ phase' = "errors" /\ hi' = Len(obs)
           \/ engine = "feasible_first" /\ phase' = "errors" /\ hi' = Errors(best)
    BY <1>4, EngineIs DEF NothingExact, Tightens, Typed, PhasesOfEngine, CegisEngines
  <2>2. engine = "cegis" => best = None
    BY <2>1 DEF Typed, Incumbents
  <2>3. engine = "feasible_first" => best # None
    BY <2>1 DEF Typed, Incumbents
  <2>4. CASE phase' = "any"
    BY <2>4, UpperTrivial
  <2>5. CASE engine = "cegis" /\ phase' = "errors" /\ hi' = Len(obs)
    BY <1>1, <2>1, <2>2, <2>5, UpperMeans
  <2>6. CASE engine = "feasible_first" /\ phase' = "errors" /\ hi' = Errors(best)
    BY <1>1, <2>1, <2>3, <2>6, UpperMeans
  <2> QED
    BY <2>1, <2>4, <2>5, <2>6
<1>5. CASE Bracketed
  <2>1. /\ phase = "bracket" /\ phase' = "score" /\ best' = cand /\ ans = "feasible"
        /\ hi' = Smaller(hi, Score(cand))
    BY <1>5 DEF Bracketed, Tightens, Answered
  <2>2. Score(cand) <= hi /\ Score(cand) \in Nat /\ hi \in Nat
    BY <2>1, CandidateFacts DEF Typed, Bases
  <2>3. hi' = Score(cand)
    BY <2>1, <2>2 DEF Smaller
  <2> QED
    BY <1>1, <2>1, <2>3, UpperMeans
<1>6. CASE NotBracketed
  BY <1>6, UpperTrivial DEF NotBracketed
<1> QED
  BY <1>2, <1>3, <1>4, <1>5, <1>6

LEMMA UpperKept ==
  ASSUME UpperBound, UNCHANGED <<engine, job, phase, hi, cap, best, base>>
  PROVE  UpperBound'
<1>1. \A p : Errors(p)' = Errors(p) /\ Score(p)' = Score(p) /\ Key(p)' = Key(p)
  BY SameJob
<1>2. Errors(best)' = Errors(best) /\ Score(best)' = Score(best) /\ Key(base)' = Key(base)
      /\ obs' = obs
  BY <1>1 DEF obs
<1> QED
  BY <1>2 DEF UpperBound

LEMMA UpperLowered ==
  ASSUME Typed, UpperBound, Lowered
  PROVE  UpperBound'
<1>1. /\ UNCHANGED <<engine, job, phase, cap, base>> /\ ans = "feasible" /\ phase \in Bisected
      /\ best' = Merge(cand) /\ lo < hi /\ lo \in Nat /\ hi \in Nat
  BY AnsweredQuiet DEF Lowered, Quiet, Answered, Typed, Bases, Querying, Bisected
<1>2. Mid \in Nat /\ Mid < hi
  BY <1>1, MidBetween
<1>3. IF phase = "depth" /\ engine \in SkeletonEngines
      THEN hi' \in Depth(cand) .. Mid ELSE hi' = Smaller(Mid, Measure(cand))
  BY DEF Lowered
<1>4. engine = "feasible_first" => engine \in CegisEngines /\ engine \notin SkeletonEngines
  BY DEF CegisEngines, SkeletonEngines
<1>5. engine \in CegisEngines => engine \notin SkeletonEngines
  BY DEF CegisEngines, SkeletonEngines
<1>6. CASE phase = "errors"
  <2>1. hi' = Errors(cand)
    BY <1>2, <1>3, <1>6, <1>1, CandidateFacts DEF Measure, Smaller
  <2>2. Errors(cand) < hi /\ Errors(cand) \in Nat /\ cand # None
    BY <1>1, <1>2, <1>6, CandidateFacts
  <2>3. Merge(cand) = cand
    <3>1. best # None => Errors(best) = hi
      BY <1>6 DEF UpperBound
    <3>2. best \in Legal => best # None
      BY ProgramFacts DEF Typed
    <3> QED
      BY <1>1, <2>2, <3>1, <3>2, Merged
  <2> QED
    BY <1>1, <1>6, <2>1, <2>2, <2>3, UpperMeans
<1>7. CASE phase = "score"
  <2>1. hi' = Score(cand)
    BY <1>2, <1>3, <1>7, <1>1, CandidateFacts DEF Measure, Smaller
  <2>2. Merge(cand) = cand
    BY <1>1, <1>7, MergeIs DEF Typed, PhasesOfEngine
  <2> QED
    BY <1>1, <1>7, <2>1, <2>2, UpperMeans
<1>8. CASE phase = "nodes"
  <2>1. hi' = Nodes(cand)
    BY <1>2, <1>3, <1>8, <1>1, CandidateFacts DEF Measure, Smaller
  <2>2. /\ Errors(cand) <= cap.err /\ Nodes(cand) < hi
        /\ Errors(cand) \in Nat /\ Nodes(cand) \in Nat /\ cap.err \in Nat
    BY <1>1, <1>2, <1>8, CandidateFacts DEF Typed, CapsOfPhase
  <2>3. CASE Merge(cand) = cand
    BY <1>1, <1>8, <2>1, <2>2, <2>3, UpperMeans
  <2>4. CASE /\ Merge(cand) = best /\ best \in Legal
             /\ Errors(best) <= Errors(cand)
             /\ Errors(best) = Errors(cand) => Nodes(best) <= Nodes(cand)
    <3>1. Errors(best) <= cap.err /\ (Errors(best) = cap.err => Nodes(best) = hi)
      BY <1>8 DEF UpperBound
    <3>2. Errors(best) \in Nat /\ Nodes(best) \in Nat
      BY <2>4, IncumbentFacts, ProgramFacts DEF Typed
    <3>3. Errors(best) # cap.err
      BY <1>1, <2>2, <2>4, <3>1, <3>2
    <3> QED
      BY <1>1, <1>8, <2>4, <3>1, <3>3, UpperMeans
  <2> QED
    BY <1>1, <2>3, <2>4, Merged
<1>9. CASE phase = "depth"
  <2>1. /\ Depth(cand) <= hi' /\ (engine \in CegisEngines => hi' = Depth(cand))
        /\ Depth(cand) <= Mid /\ Depth(cand) \in Nat /\ hi' <= Mid
    <3>1. Depth(cand) <= Mid /\ Depth(cand) \in Nat
      BY <1>1, <1>9, CandidateFacts
    <3>2. Measure(cand) = Depth(cand)
      BY <1>9 DEF Measure
    <3> QED
      BY <1>2, <1>3, <1>5, <1>9, <3>1, <3>2 DEF Smaller
  <2>2. /\ Errors(cand) <= cap.err /\ Nodes(cand) <= cap.nodes
        /\ Errors(cand) \in Nat /\ Nodes(cand) \in Nat /\ cap.err \in Nat /\ cap.nodes \in Nat
    BY <1>1, <1>9, CandidateFacts DEF Typed, CapsOfPhase
  <2>3. CASE Merge(cand) = cand
    BY <1>1, <1>9, <2>1, <2>2, <2>3, UpperMeans
  <2>4. CASE /\ Merge(cand) = best /\ best \in Legal /\ engine = "feasible_first"
             /\ Errors(best) <= Errors(cand)
             /\ Errors(best) = Errors(cand) =>
                  /\ Nodes(best) <= Nodes(cand)
                  /\ Nodes(best) = Nodes(cand) => Depth(best) <= Depth(cand)
    <3>1. /\ Errors(best) <= cap.err
          /\ Errors(best) = cap.err =>
               Nodes(best) <= cap.nodes /\ (Nodes(best) = cap.nodes => Depth(best) = hi)
      BY <1>4, <1>9, <2>4 DEF UpperBound
    <3>2. Errors(best) \in Nat /\ Nodes(best) \in Nat /\ Depth(best) \in Nat
      BY <2>4, IncumbentFacts, ProgramFacts DEF Typed
    <3>3. ~ (Errors(best) = cap.err /\ Nodes(best) = cap.nodes)
      BY <1>1, <1>2, <2>1, <2>2, <2>4, <3>1, <3>2
    <3> QED
      BY <1>1, <1>9, <2>4, <3>1, <3>3, UpperMeans
  <2> QED
    BY <1>1, <2>3, <2>4, Merged
<1>10. CASE phase = "canon"
  <2>1. Merge(cand) = cand
    BY <1>10, MergeIs
  <2>2. Errors(cand) <= cap.err /\ Nodes(cand) <= cap.nodes /\ Depth(cand) <= cap.depth
    BY <1>1, <1>10, CandidateFacts
  <2>3. Key(base) = <<cap.err, cap.nodes, cap.depth>>
    BY <1>10 DEF UpperBound
  <2> QED
    BY <1>1, <1>10, <2>1, <2>2, <2>3, UpperMeans
<1> QED
  BY <1>1, <1>6, <1>7, <1>8, <1>9, <1>10 DEF Bisected

LEMMA KeyIs ==
  ASSUME NEW p
  PROVE  Key(p) = <<Errors(p), Nodes(p), Depth(p)>>
BY DEF Key, KeyIn, Errors

LEMMA UpperClosed ==
  ASSUME Typed, UpperBound, ErrorsClosed \/ ScoreClosed \/ NodesClosed \/ DepthClosed
  PROVE  UpperBound'
<1>1. UNCHANGED <<engine, job, best>>
      /\ cap = [err |-> cap.err, nodes |-> cap.nodes, depth |-> cap.depth]
  BY DEF ErrorsClosed, ScoreClosed, NodesClosed, DepthClosed, Closed, Typed, CapsOfPhase
<1>2. CASE ErrorsClosed
  <2>1. \/ phase' = "witness"
        \/ best # None /\ TightensNodes(best, Errors(best))
    BY <1>2 DEF ErrorsClosed
  <2>2. ASSUME best # None, TightensNodes(best, Errors(best)) PROVE UpperBound'
    <3>1. best \in Legal
      BY <2>2 DEF Typed, Incumbents
    <3>2. Errors(best) \in 0 .. Len(obs)
      BY <3>1, ProgramFacts DEF Typed
    <3> QED
      BY <1>1, <2>2, <3>1, <3>2, UpperOfNodes
  <2> QED
    BY <2>1, <2>2, UpperTrivial
<1>3. CASE ScoreClosed \/ NodesClosed
  <2>1. phase' = "raised" \/ TightensDepth(Errors(best), Nodes(best))
    BY <1>3 DEF ScoreClosed, NodesClosed, Realized
  <2>2. ASSUME TightensDepth(Errors(best), Nodes(best)) PROVE UpperBound'
    <3>1. /\ phase' = "depth"
          /\ hi' \in IF engine \in SkeletonEngines THEN Depth(best) .. MaxDepth ELSE {Depth(best)}
          /\ cap' = [cap EXCEPT !.err = Errors(best), !.nodes = Nodes(best)]
      BY <2>2 DEF TightensDepth
    <3>2. cap' = [err |-> Errors(best), nodes |-> Nodes(best), depth |-> cap.depth]
      BY <1>1, <3>1
    <3>3. cap'.err = Errors(best) /\ cap'.nodes = Nodes(best)
      BY <3>2
    <3>4. best # None
      BY <1>3 DEF ScoreClosed, NodesClosed, Closed, Typed, Incumbents
    <3>5. Errors(best) \in Nat /\ Nodes(best) \in Nat /\ Depth(best) \in Nat
      BY <3>4, IncumbentFacts
    <3>6. engine \in CegisEngines => engine \notin SkeletonEngines
      BY DEF CegisEngines, SkeletonEngines
    <3>7. Depth(best) <= hi' /\ (engine \in CegisEngines => Depth(best) = hi')
      BY <3>1, <3>5, <3>6
    <3> QED
      BY <1>1, <3>1, <3>3, <3>5, <3>7, UpperMeans
  <2> QED
    BY <2>1, <2>2, UpperTrivial
<1>4. CASE DepthClosed
  <2>1. /\ base' = best /\ cap' = [cap EXCEPT !.depth = lo] /\ phase = "depth"
        /\ phase' = "raised" \/ (phase' = "canon" /\ Realized(cap.err, cap.nodes, lo))
    BY <1>4 DEF DepthClosed, Tightens, Closed
  <2>2. ASSUME phase' = "canon", Realized(cap.err, cap.nodes, lo) PROVE UpperBound'
    <3>1. cap'.err = cap.err /\ cap'.nodes = cap.nodes /\ cap'.depth = lo
      BY <1>1, <2>1
    <3>2. Errors(best) = cap.err /\ Nodes(best) = cap.nodes /\ Depth(best) = lo
      <4>1. lo # None
        BY SearchConstants DEF Typed, Bases
      <4> QED
        BY <2>2, <4>1 DEF Realized
    <3>3. Key(best) = <<cap'.err, cap'.nodes, cap'.depth>>
      BY <3>1, <3>2, KeyIs
    <3>4. Errors(best) \in Nat /\ Nodes(best) \in Nat /\ Depth(best) \in Nat
      BY <2>1, IncumbentFacts DEF Typed, Incumbents
    <3> QED
      BY <1>1, <2>1, <2>2, <3>1, <3>2, <3>3, <3>4, UpperMeans
  <2> QED
    BY <2>1, <2>2, UpperTrivial
<1> QED
  BY <1>2, <1>3, <1>4

LEMMA UpperReturned ==
  ASSUME Typed, phase' = "done" \/ Restarted
  PROVE  UpperBound'
<1>1. engine \in Engines
  BY DEF Typed, Bases
<1> QED
  BY <1>1, FirstPhases, UpperTrivial DEF Restarted

LEMMA UpperStep ==
  ASSUME Typed, UpperBound, [Next]_vars
  PROVE  UpperBound'
<1>1. CASE UNCHANGED vars \/ Refute \/ GiveUp
  BY <1>1, UpperKept DEF vars, Refute, GiveUp, SolverCalled, interval
<1>2. CASE Propose
  <2>1. UNCHANGED <<engine, job, hi, cap, best, base>> /\ (phase' = phase \/ phase' = "raised")
    BY <1>2, Proposals
  <2> QED
    BY <2>1, UpperKept, UpperTrivial
<1>3. CASE Interrupted \/ NoneLeft
  BY <1>3, StopTypes, UpperReturned
<1>4. CASE DigitClosed
  <2>1. CASE phase' = "done" \/ Restarted
    BY <2>1, UpperReturned
  <2>2. CASE Len(fixed) + 1 # Len(Preorder(best))
    <3>1. phase = "canon" /\ UNCHANGED <<engine, job, phase, cap, best, base>>
      BY <1>4, <2>2 DEF DigitClosed, Closed
    <3>2. /\ Errors(best) <= cap.err /\ Nodes(best) <= cap.nodes /\ Depth(best) <= cap.depth
          /\ Key(base) = <<cap.err, cap.nodes, cap.depth>>
      BY <3>1 DEF UpperBound
    <3> QED
      BY <3>1, <3>2, UpperMeans
  <2> QED
    BY <1>4, <2>1, <2>2, DigitClosedTypes
<1>5. CASE Raised
  BY <1>5, UpperKept DEF Raised, Answered
<1> QED
  BY <1>1, <1>2, <1>3, <1>4, <1>5, UpperStarted, UpperLowered, UpperClosed
     DEF Next, Solver, Optimizer

LEMMA UpperInit == Init => UpperBound
BY FirstPhases DEF Init, UpperBound

-------------------------------------------------------------------------------
(* The incumbents of the skeleton engines.                                 *)

LEMMA KeptStep ==
  ASSUME Typed, Kept, [Next]_vars
  PROVE  Kept'
<1> SUFFICES ASSUME engine' \in SkeletonEngines, best' # None, phase' # "done"
             PROVE  best' \in Rivals'
  BY DEF Kept
<1>1. CASE UNCHANGED vars \/ Refute \/ GiveUp \/ Propose \/ Raised \/ NothingExact \/ NotBracketed
           \/ ErrorsClosed \/ ScoreClosed \/ NodesClosed \/ DepthClosed
           \/ (DigitClosed /\ Len(fixed) + 1 # Len(Preorder(best)))
  <2>1. UNCHANGED <<engine, job, best, found>> /\ phase # "done"
    <3>1. CASE Propose
      <4>1. UNCHANGED <<engine, job, best, found>> /\ Querying
        BY <3>1, Proposals
      <4> QED
        BY <4>1 DEF Querying, Bisected
    <3>2. CASE Raised \/ NothingExact \/ NotBracketed
      BY <3>2 DEF Raised, NothingExact, NotBracketed, Answered, outcome, Bisected
    <3>3. CASE ErrorsClosed \/ ScoreClosed \/ NodesClosed \/ DepthClosed
      BY <3>3 DEF ErrorsClosed, ScoreClosed, NodesClosed, DepthClosed, Closed, outcome
    <3>4. CASE DigitClosed /\ Len(fixed) + 1 # Len(Preorder(best))
      BY <3>4 DEF DigitClosed, Closed, outcome
    <3>5. CASE UNCHANGED vars \/ Refute \/ GiveUp
      BY <3>5 DEF vars, Refute, GiveUp, SolverCalled, outcome, Querying, Bisected
    <3> QED
      BY <1>1, <3>1, <3>2, <3>3, <3>4, <3>5
  <2>2. work' = work
    <3>1. CASE Propose
      BY <2>1, <3>1, Proposals
    <3> QED
      BY <1>1, <3>1 DEF vars, Refute, GiveUp, Raised, NothingExact, NotBracketed, Answered,
                     ErrorsClosed, ScoreClosed, NodesClosed, DepthClosed, DigitClosed, Closed
  <2> QED
    BY <2>1, <2>2, SameRivals DEF Kept
<1>2. CASE AnyFound \/ ExactFound \/ Witnessed \/ Bracketed \/ Lowered
  <2>1. /\ UNCHANGED <<engine, job, work, found>> /\ ans = "feasible"
        /\ best' = cand \/ best' = Merge(cand)
        /\ engine \in SkeletonEngines
    BY <1>2 DEF AnyFound, ExactFound, Witnessed, Bracketed, Lowered, Answered, outcome
  <2>2. PICK m \in Rivals : cand = Decoded(m)
    BY <2>1, CandidateMeets
  <2>3. cand = m
    BY <2>1, <2>2, ModelFacts DEF Rivals, Typed
  <2>4. Merge(cand) = cand
    BY <2>1, MergeIs DEF SkeletonEngines
  <2> QED
    BY <2>1, <2>2, <2>3, <2>4, SameRivals
<1>3. ASSUME phase' = "done" \/ Restarted PROVE FALSE
  BY <1>3 DEF Restarted
<1> QED
  BY <1>1, <1>2, <1>3, StopTypes, DigitClosedTypes DEF Next, Solver, Optimizer

LEMMA SkeletonErrors ==
  ASSUME Typed, engine \in SkeletonEngines, NEW m \in SpaceOf(engine, job, work)
  PROVE  WorkErrors(m) = Errors(m) /\ m \in Legal
<1>1. ~ job.same_name /\ Bases
  BY EngineIs DEF Typed, Bases
<1>2. Decoded(m) = m /\ Decoded(m) \in Legal
  BY <1>1, ModelFacts
<1>3. Range(work) = DOMAIN obs
  <2>1. work = [i \in DOMAIN obs |-> i]
    BY <1>1, WorkFacts DEF Bases, obs
  <2> QED
    BY <2>1 DEF Range
<1>4. WorkErrors(m) = Errors(Decoded(m))
  BY <1>1, <1>3, ModelFacts, DecodedErrs
<1> QED
  BY <1>2, <1>4

-------------------------------------------------------------------------------
(* The bounds meet.                                                        *)

LEMMA SharpMeans ==
  ASSUME UNCHANGED <<engine, job, found>>,
         Bounded =>
           /\ phase' = "errors" => lo' <= hi'
           /\ phase' = "witness" => best' = None /\ lo' = Len(obs)
           /\ phase' = "raised" => job.same_name,
         phase' \in {"score", "nodes", "depth"} => lo' <= hi',
         phase' \in {"nodes", "depth", "canon"} => Errors(best') = cap'.err,
         phase' \in {"depth", "canon"} => Nodes(best') = cap'.nodes,
         phase' = "canon" => Depth(best') = cap'.depth
  PROVE  Sharp'
<1>1. Bounded' = Bounded
  BY DEF Bounded
<1>2. Errors(best)' = Errors(best') /\ Len(obs)' = Len(obs)
  BY DEF Errors, obs
<1> QED
  BY <1>1, <1>2 DEF Sharp

LEMMA SharpTrivial ==
  ASSUME phase' \in {"any", "exact", "bracket", "done"}
  PROVE  Sharp'
BY DEF Sharp

LEMMA SharpKept ==
  ASSUME Sharp, UNCHANGED <<engine, job, found, phase, lo, hi, cap, best>>
  PROVE  Sharp'
<1>1. \A p : Errors(p)' = Errors(p)
  BY SameJob
<1>2. Errors(best)' = Errors(best) /\ obs' = obs /\ Bounded' = Bounded
  BY <1>1 DEF obs, Bounded
<1> QED
  BY <1>2 DEF Sharp

\* What is sound and fails the test of all observations has a counterexample that the solver
\* did not know.
LEMMA NeverRefusesUnrefuted ==
  ASSUME Typed, Querying, NEW m \in Feasible, Sound(m, Decoded(m)), ~ Accepted(Decoded(m))
  PROVE  Counterexamples(Decoded(m)) # {}
<1> DEFINE p == Decoded(m)
           e == WorkErrors(m)
           f == Errors(Decoded(m))
           n == Nodes(m)
<1>1. m \in SpaceOf(engine, job, work) /\ Bases
  BY FeasibleRival DEF Typed
<1>2. p \in Legal /\ Nodes(p) = n /\ e \in Nat /\ n \in Nat
  BY <1>1, ModelFacts, JobType DEF Sound
<1>3. f \in Nat
  BY <1>1, <1>2, ProgramFacts, JobType
<1>4. IF Scored THEN e * Weight + n <= ScoreBound ELSE e <= ErrorBound
  BY DEF Feasible, Asked
<1>5. IF Scored THEN ~ (f * Weight + n <= ScoreBound) ELSE ~ (f <= ErrorBound)
  BY <1>2 DEF Accepted, Score
<1>6. e < f
  <2> HIDE DEF e, f, n
  <2>1. CASE Scored
    <3>1. e * Weight + n <= ScoreBound /\ ~ (f * Weight + n <= ScoreBound)
      BY <1>4, <1>5, <2>1
    <3>2. e * Weight + n \in Nat /\ f * Weight + n \in Nat
      BY <1>1, <1>2, <1>3, ScoreType
    <3>3. ScoreBound \in Nat
      BY <1>1, MidBetween DEF ScoreBound, Bases
    <3>4. ~ (f <= e)
      <4> SUFFICES ASSUME f <= e PROVE FALSE
        OBVIOUS
      <4>1. f * Weight + n <= e * Weight + n
        BY <1>1, <1>2, <1>3, TotalGrows DEF Total
      <4> QED
        BY <3>1, <3>2, <3>3, <4>1
    <3> QED
      BY <1>2, <1>3, <3>4
  <2>2. CASE ~ Scored
    <3>1. e <= ErrorBound /\ ~ (f <= ErrorBound)
      BY <1>4, <1>5, <2>2
    <3>2. ErrorBound \in Int
      BY <1>1, MidBetween, JobType DEF ErrorBound, Bases, Typed, CapsOfPhase
    <3> QED
      BY <1>2, <1>3, <3>1, <3>2
  <2> QED
    BY <2>1, <2>2
<1> QED
  BY <1>1, <1>6, Refuted

LEMMA SharpPropose ==
  ASSUME Typed, Sharp, Propose
  PROVE  Sharp'
<1>1. PICK m \in Feasible :
        /\ Querying
        /\ UNCHANGED <<engine, job, lo, hi, cap, best, found>>
        /\ \/ phase' = phase
           \/ /\ phase' = "raised"
              /\ \/ ~ Sound(m, Decoded(m))
                 \/ ~ Accepted(Decoded(m)) /\ Counterexamples(Decoded(m)) = {}
  BY Proposals
<1>2. CASE phase' = phase
  BY <1>1, <1>2, SharpKept
<1>3. CASE /\ phase' = "raised"
           /\ \/ ~ Sound(m, Decoded(m))
              \/ ~ Accepted(Decoded(m)) /\ Counterexamples(Decoded(m)) = {}
  <2>1. job.same_name
    <3>1. job.same_name \in BOOLEAN
      BY JobFacts DEF Typed, Bases
    <3> QED
      BY <1>1, <1>3, <3>1, NeverRefusesUnrefuted, FeasibleRival, ModelFacts DEF Typed
  <2> QED
    BY <1>1, <1>3, <2>1, SharpMeans
<1> QED
  BY <1>1, <1>2, <1>3

LEMMA SharpOfNodes ==
  ASSUME Typed, UNCHANGED <<engine, job, found>>, best' \in Legal,
         TightensNodes(best', Errors(best'))
  PROVE  Sharp'
<1>1. phase' = "nodes" /\ lo' = 1 /\ hi' = Nodes(best') /\ cap' = [cap EXCEPT !.err = Errors(best')]
  BY DEF TightensNodes, Tightens
<1>2. cap'.err = Errors(best')
  BY <1>1 DEF Typed, CapsOfPhase
<1>3. Nodes(best') \in 1 .. MaxNodes /\ MaxNodes \in Nat
  BY ProgramFacts, JobType DEF Typed
<1>4. lo' <= hi'
  BY <1>1, <1>3
<1> HIDE DEF TightensNodes
<1> QED
  BY <1>1, <1>2, <1>4, SharpMeans

LEMMA SharpStarted ==
  ASSUME Typed, LowerBound, Sharp,
         AnyFound \/ ExactFound \/ Witnessed \/ NothingExact \/ Bracketed \/ NotBracketed
  PROVE  Sharp'
<1>1. UNCHANGED <<engine, job, found>> /\ Bases /\ lo \in Nat /\ hi \in Nat
  BY DEF AnyFound, ExactFound, Witnessed, NothingExact, Bracketed, NotBracketed, Answered, outcome,
         Typed, Bases
<1>2. CASE AnyFound
  <2>1. /\ best' = cand /\ ans = "feasible"
        /\ phase' = "exact" \/ (phase' = "errors" /\ lo' = 0 /\ hi' = Errors(cand))
    BY <1>2 DEF AnyFound, Tightens, Answered
  <2>2. Errors(cand) >= 0
    BY <2>1, CandidateFacts
  <2> QED
    BY <1>1, <2>1, <2>2, SharpMeans, SharpTrivial
<1>3. CASE ExactFound
  <2>1. /\ best' = Merge(cand) /\ ans = "feasible" /\ phase = "exact"
        /\ Errors(best') = 0 => TightensNodes(best', Errors(best'))
    BY <1>3 DEF ExactFound, Answered
  <2>2. best' \in Legal
    BY <2>1, CandidateType
  <2>3. Errors(best') = 0
    <3>1. Errors(cand) = 0
      BY <2>1, CandidateFacts
    <3>2. best \in Legal => Errors(best) \in Nat
      BY ProgramFacts, JobType DEF Typed
    <3> QED
      BY <2>1, <3>1, <3>2, Merged
  <2> QED
    BY <1>1, <2>1, <2>2, <2>3, SharpOfNodes
<1>4. CASE Witnessed
  <2>1. /\ best' = Merge(cand) /\ ans = "feasible" /\ phase = "witness"
        /\ \/ phase' = "raised" /\ Errors(best') # lo
           \/ Errors(best') = lo /\ TightensNodes(best', Errors(best'))
    BY <1>4 DEF Witnessed, Answered
  <2>2. best' \in Legal
    BY <2>1, CandidateType
  <2>3. CASE Bounded
    <3>1. best = None /\ lo = Len(obs)
      BY <2>1, <2>3 DEF Sharp
    <3>2. Merge(cand) = cand
      BY <3>1, MergeIs
    <3>3. Errors(cand) >= lo
      BY <2>1, <2>3, CandAllowed DEF Allows
    <3>4. Errors(cand) = lo
      BY <2>1, <3>1, <3>3, CandidateFacts
    <3> QED
      BY <1>1, <2>1, <2>2, <3>2, <3>4, SharpOfNodes
  <2>4. CASE ~ Bounded
    <3>1. CASE phase' = "raised"
      BY <1>1, <2>4, <3>1, SharpMeans
    <3> QED
      BY <1>1, <2>1, <2>2, <3>1, SharpOfNodes
  <2> QED
    BY <2>3, <2>4
<1>5. CASE NothingExact
  <2>1. /\ best' = best /\ phase = "exact" /\ ans = "infeasible"
        /\ \/ phase' = "any"
           \/ engine = "cegis" /\ phase' = "errors" /\ lo' = 1 /\ hi' = Len(obs)
           \/ engine = "feasible_first" /\ phase' = "errors" /\ lo' = 1 /\ hi' = Errors(best)
    BY <1>5, EngineIs DEF NothingExact, Tightens, Typed, PhasesOfEngine, CegisEngines, Answered
  <2>2. CASE engine = "cegis" /\ phase' = "errors" /\ lo' = 1 /\ hi' = Len(obs)
    <3>1. lo' <= hi'
      BY <1>1, <2>2, JobType
    <3> QED
      BY <1>1, <2>2, <3>1, SharpMeans
  <2>3. CASE engine = "feasible_first" /\ phase' = "errors" /\ lo' = 1 /\ hi' = Errors(best)
    <3>1. CASE Bounded
      <4>1. found = <<>>
        BY <2>3, <3>1 DEF Bounded
      <4>2. best # None
        BY <2>1, <2>3 DEF Typed, Incumbents
      <4>3. best \in Fresh(Len(found) + 1) /\ Errors(best) \in Nat
        BY <4>1, <4>2, IncumbentFacts, AllFresh
      <4>4. PICK m \in Rivals : WorkErrors(m) <= Errors(best)
        BY <4>1, <4>3, FreshRival
      <4>5. m \notin Feasible /\ Querying /\ CapsOfPhase
        BY <2>1 DEF Typed, Answers
      <4>6. ~ Meets(WorkErrors(m), Nodes(m), Depth(m))
        BY <1>1, <2>1, <4>5, FeasibleIs DEF DigitMet
      <4>7. WorkErrors(m) # 0 /\ WorkErrors(m) \in Nat
        BY <1>1, <2>1, <4>6, RivalFacts DEF Meets
      <4>8. lo' <= hi'
        BY <2>3, <4>3, <4>4, <4>7
      <4> QED
        BY <1>1, <2>3, <4>8, SharpMeans
    <3>2. CASE ~ Bounded
      BY <1>1, <2>3, <3>2, SharpMeans
    <3> QED
      BY <3>1, <3>2
  <2> QED
    BY <2>1, <2>2, <2>3, SharpTrivial
<1>6. CASE Bracketed
  <2>1. /\ phase = "bracket" /\ phase' = "score" /\ ans = "feasible"
        /\ lo' = lo /\ hi' = Smaller(hi, Score(cand))
    BY <1>6 DEF Bracketed, Tightens, Answered
  <2>2. Total(Errors(cand), Nodes(cand)) >= lo
    BY <2>1, CandAllowed DEF Allows
  <2>3. Score(cand) >= lo /\ Score(cand) <= hi /\ Score(cand) \in Nat
    BY <2>1, <2>2, CandidateFacts
  <2>4. lo' <= hi'
    BY <1>1, <2>1, <2>3 DEF Smaller
  <2> QED
    BY <1>1, <2>1, <2>4, SharpMeans
<1>7. CASE NotBracketed
  BY <1>7, SharpTrivial DEF NotBracketed
<1> QED
  BY <1>2, <1>3, <1>4, <1>5, <1>6, <1>7

LEMMA SharpLowered ==
  ASSUME Typed, LowerBound, UpperBound, Sharp, Lowered
  PROVE  Sharp'
<1>1. /\ UNCHANGED <<engine, job, phase, cap, lo, found>> /\ ans = "feasible" /\ phase \in Bisected
      /\ best' = Merge(cand) /\ lo < hi /\ lo \in Nat /\ hi \in Nat
  BY AnsweredQuiet DEF Lowered, Quiet, Answered, Typed, Bases, Querying, Bisected, outcome
<1>2. Mid \in Nat /\ Mid < hi /\ lo <= Mid
  BY <1>1, MidBetween
<1>3. \/ hi' \in Depth(cand) .. Mid /\ phase = "depth"
      \/ hi' = Smaller(Mid, Measure(cand))
  BY DEF Lowered
<1>4. Allows(Errors(cand), Nodes(cand), Depth(cand))
  BY <1>1, CandAllowed
<1>5. CASE phase = "errors"
  <2>1. Errors(cand) >= lo /\ Errors(cand) \in Nat
    BY <1>1, <1>4, <1>5, CandidateFacts DEF Allows
  <2>2. lo' <= hi'
    BY <1>1, <1>2, <1>3, <1>5, <2>1 DEF Measure, Smaller
  <2> QED
    BY <1>1, <1>5, <2>2, SharpMeans
<1>6. CASE phase = "score"
  <2>1. Score(cand) >= lo /\ Score(cand) \in Nat
    BY <1>1, <1>4, <1>6, CandidateFacts DEF Allows
  <2>2. lo' <= hi'
    BY <1>1, <1>2, <1>3, <1>6, <2>1 DEF Measure, Smaller
  <2> QED
    BY <1>1, <1>6, <2>2, SharpMeans
<1>7. CASE phase \in {"nodes", "depth", "canon"}
  <2>1. /\ Errors(cand) = cap.err /\ cap.err \in Nat
        /\ phase = "nodes" => Nodes(cand) >= lo
        /\ phase \in {"depth", "canon"} => Nodes(cand) = cap.nodes
        /\ phase = "depth" => Depth(cand) >= lo
        /\ phase = "canon" => Depth(cand) = cap.depth
    <3>1. /\ Errors(cand) <= cap.err /\ Errors(cand) \in Nat /\ Nodes(cand) \in Nat
          /\ Depth(cand) \in Nat
          /\ phase \in {"depth", "canon"} => Nodes(cand) <= cap.nodes
          /\ phase = "canon" => Depth(cand) <= cap.depth
      BY <1>1, <1>7, CandidateFacts
    <3>2. cap.err \in Nat /\ (phase \in {"depth", "canon"} => cap.nodes \in Nat)
          /\ (phase = "canon" => cap.depth \in Nat)
      BY DEF Typed, CapsOfPhase
    <3>3. Errors(cand) >= cap.err
      BY <1>4, <1>7 DEF Allows
    <3>4. Errors(cand) = cap.err
      BY <3>1, <3>2, <3>3
    <3>5. /\ phase = "nodes" => Nodes(cand) >= lo
          /\ phase \in {"depth", "canon"} => Nodes(cand) >= cap.nodes
      BY <1>4, <3>4 DEF Allows
    <3>6. phase \in {"depth", "canon"} => Nodes(cand) = cap.nodes
      BY <3>1, <3>2, <3>5
    <3>7. /\ phase = "depth" => Depth(cand) >= lo
          /\ phase = "canon" => Depth(cand) >= cap.depth
      BY <1>4, <3>4, <3>6 DEF Allows
    <3> QED
      BY <3>1, <3>2, <3>4, <3>5, <3>6, <3>7
  <2>2. phase = "nodes" => lo' <= hi'
    BY <1>1, <1>2, <1>3, <2>1, CandidateFacts DEF Measure, Smaller
  <2>3. phase = "depth" => lo' <= hi'
    <3>1. Depth(cand) \in Nat
      BY <1>1, CandidateFacts
    <3> QED
      BY <1>1, <1>2, <1>3, <2>1, <3>1 DEF Measure, Smaller
  <2>4. /\ Errors(best') = cap.err
        /\ phase \in {"depth", "canon"} => Nodes(best') = cap.nodes
        /\ phase = "canon" => Depth(best') = cap.depth
    <3>1. /\ Errors(best) = cap.err
          /\ phase \in {"depth", "canon"} => Nodes(best) = cap.nodes
          /\ phase = "canon" => Depth(best) = cap.depth
      BY <1>7 DEF Sharp
    <3>2. Merge(cand) = cand \/ Merge(cand) = best
      BY MergeIs
    <3> QED
      BY <1>1, <2>1, <3>1, <3>2
  <2> QED
    BY <1>1, <1>7, <2>2, <2>3, <2>4, SharpMeans
<1> QED
  BY <1>1, <1>5, <1>6, <1>7 DEF Bisected

LEMMA SharpRaised ==
  ASSUME Typed, Sharp, Raised
  PROVE  Sharp'
<1>1. /\ UNCHANGED <<engine, job, phase, cap, hi, best, found>> /\ phase \in Bisected
      /\ lo' = Mid + 1 /\ lo < hi /\ lo \in Nat /\ hi \in Nat
  BY AnsweredQuiet DEF Raised, Answered, Typed, Bases, Querying, Bisected, outcome
<1>2. lo' <= hi'
  BY <1>1, MidBetween
<1>3. /\ phase \in {"nodes", "depth", "canon"} => Errors(best) = cap.err
      /\ phase \in {"depth", "canon"} => Nodes(best) = cap.nodes
      /\ phase = "canon" => Depth(best) = cap.depth
  BY DEF Sharp
<1> QED
  BY <1>1, <1>2, <1>3, SharpMeans DEF Bisected

LEMMA DivideTotal ==
  ASSUME NEW e \in Nat, NEW w \in Nat, NEW n \in Nat, n < w
  PROVE  (e * w + n) \div w = e /\ (e * w + n) % w = n
<1> DEFINE l == e * w + n
           q == l \div w
           r == l % w
<1>1. l \in Nat /\ e * w \in Nat
  OBVIOUS
<1>2. l = q * w + r /\ q \in Nat /\ r \in Nat /\ r < w
  BY <1>1
<1>3. e * w + n = q * w + r
  BY <1>2
<1> HIDE DEF l, q, r
<1>4. ~ (q > e)
  <2> SUFFICES ASSUME q > e PROVE FALSE
    OBVIOUS
  <2>1. q * w >= (e + 1) * w
    BY <1>2
  <2>2. (e + 1) * w = e * w + w /\ q * w \in Nat
    BY <1>2
  <2> QED
    BY <1>1, <1>2, <1>3, <2>1, <2>2
<1>5. ~ (q < e)
  <2> SUFFICES ASSUME q < e PROVE FALSE
    OBVIOUS
  <2>1. e * w >= (q + 1) * w
    BY <1>2
  <2>2. (q + 1) * w = q * w + w /\ q * w \in Nat
    BY <1>2
  <2> QED
    BY <1>1, <1>2, <1>3, <2>1, <2>2
<1>6. q = e
  BY <1>2, <1>4, <1>5
<1>7. r = n
  BY <1>1, <1>2, <1>3, <1>6
<1> QED
  BY <1>6, <1>7 DEF l, q, r

LEMMA SharpOfDepth ==
  ASSUME Typed, UNCHANGED <<engine, job, found, best>>, best # None,
         TightensDepth(Errors(best), Nodes(best))
  PROVE  Sharp'
<1>1. /\ phase' = "depth" /\ lo' = 1
      /\ hi' \in IF engine \in SkeletonEngines THEN Depth(best) .. MaxDepth ELSE {Depth(best)}
      /\ cap' = [cap EXCEPT !.err = Errors(best), !.nodes = Nodes(best)]
      /\ cap = [err |-> cap.err, nodes |-> cap.nodes, depth |-> cap.depth]
  BY DEF TightensDepth, Typed, CapsOfPhase
<1>2. cap' = [err |-> Errors(best), nodes |-> Nodes(best), depth |-> cap.depth]
  BY <1>1
<1>3. cap'.err = Errors(best) /\ cap'.nodes = Nodes(best)
  BY <1>2
<1>4. Depth(best) \in Nat /\ Depth(best) >= 1
  BY IncumbentFacts
<1>5. lo' <= hi'
  BY <1>1, <1>4
<1> HIDE DEF TightensDepth
<1> QED
  BY <1>1, <1>3, <1>5, SharpMeans

\* An interval of scores, node counts or depths closes on the incumbent.
LEMMA ClosedRealizes ==
  ASSUME Typed, LowerBound, UpperBound, Sharp, Kept, lo >= hi,
         phase \in {"score", "nodes", "depth"}
  PROVE  /\ phase = "score" => lo \div Weight = Errors(best) /\ lo % Weight = Nodes(best)
         /\ phase = "nodes" => Errors(best) = cap.err /\ Nodes(best) = lo
         /\ phase = "depth" => /\ Errors(best) = cap.err /\ Nodes(best) = cap.nodes
                               /\ Depth(best) = lo
<1>1. Bases /\ best # None /\ lo \in Nat /\ hi \in Nat /\ lo = hi
  BY DEF Typed, Bases, Incumbents, Sharp
<1>2. CASE phase = "score"
  <2>1. lo = Total(Errors(best), Nodes(best))
    BY <1>1, <1>2, IncumbentFacts DEF UpperBound
  <2> DEFINE W == Weight
             e == Errors(best)
             n == Nodes(best)
  <2>2. e \in Nat /\ n \in Nat /\ W \in Nat /\ n < W /\ lo = e * W + n
    <3>1. Errors(best) \in Nat /\ Nodes(best) \in Nat /\ Nodes(best) \in 1 .. MaxNodes
      BY <1>1, IncumbentFacts
    <3>2. Weight \in Nat /\ MaxNodes \in Nat /\ Weight = MaxNodes + 1
      BY <1>1, JobType
    <3> QED
      BY <2>1, <3>1, <3>2 DEF Total
  <2> HIDE DEF W, e, n
  <2>3. lo \div W = e /\ lo % W = n
    BY <2>2, DivideTotal, Zenon
  <2> QED
    BY <1>2, <2>3 DEF W, e, n
<1>3. CASE phase = "nodes"
  <2>1. Errors(best) = cap.err
    BY <1>3 DEF Sharp
  <2> QED
    BY <1>1, <1>3, <2>1 DEF UpperBound
<1>4. CASE phase = "depth"
  <2>1. Errors(best) = cap.err /\ Nodes(best) = cap.nodes
    BY <1>4 DEF Sharp
  <2>2. Depth(best) <= hi /\ (engine \in CegisEngines => Depth(best) = hi)
    BY <1>1, <1>4, <2>1, IncumbentFacts DEF UpperBound
  <2>3. Depth(best) = lo
    <3>1. CASE engine \in CegisEngines
      BY <1>1, <2>2, <3>1
    <3>2. CASE engine \in SkeletonEngines
      <4>1. best \in Rivals /\ best \in SpaceOf(engine, job, work)
        BY <1>1, <1>4, <3>2 DEF Kept, Rivals
      <4>2. Allows(WorkErrors(best), Nodes(best), Depth(best)) /\ WorkErrors(best) = Errors(best)
        BY <3>2, <4>1, SkeletonErrors DEF LowerBound
      <4>3. Depth(best) >= lo
        BY <1>4, <2>1, <4>2 DEF Allows
      <4> QED
        BY <1>1, <2>2, <4>3, IncumbentFacts
    <3> QED
      BY <1>1, <3>1, <3>2, EngineIs
  <2> QED
    BY <1>4, <2>1, <2>3
<1> QED
  BY <1>2, <1>3, <1>4

LEMMA SharpClosed ==
  ASSUME Typed, LowerBound, UpperBound, Sharp, Kept,
         ErrorsClosed \/ ScoreClosed \/ NodesClosed \/ DepthClosed
  PROVE  Sharp'
<1>1. /\ UNCHANGED <<engine, job, best, found>> /\ Bases /\ lo \in Nat /\ hi \in Nat /\ lo >= hi
      /\ cap = [err |-> cap.err, nodes |-> cap.nodes, depth |-> cap.depth]
  BY DEF ErrorsClosed, ScoreClosed, NodesClosed, DepthClosed, Closed, outcome, Typed, Bases, CapsOfPhase
<1>2. CASE ErrorsClosed
  <2>1. /\ phase = "errors"
        /\ \/ (best = None \/ Errors(best) # lo) /\ phase' = "witness" /\ lo' = lo
           \/ best # None /\ TightensNodes(best, Errors(best))
    BY <1>2 DEF ErrorsClosed, Closed, interval
  <2>2. CASE phase' = "witness" /\ lo' = lo /\ (best = None \/ Errors(best) # lo)
    <3>1. ASSUME Bounded PROVE best' = None /\ lo' = Len(obs)
      <4>1. lo = hi
        BY <1>1, <2>1, <3>1 DEF Sharp
      <4>2. IF best = None THEN lo = Len(obs) ELSE Errors(best) = lo
        BY <2>1, <4>1 DEF UpperBound
      <4> QED
        BY <1>1, <2>2, <4>2
    <3> QED
      BY <1>1, <2>2, <3>1, SharpMeans
  <2>3. CASE best # None /\ TightensNodes(best, Errors(best))
    BY <1>1, <2>3, IncumbentFacts, SharpOfNodes
  <2> QED
    BY <2>1, <2>2, <2>3
<1>3. CASE ScoreClosed \/ NodesClosed
  <2>1. best # None
    BY <1>3 DEF ScoreClosed, NodesClosed, Closed, Typed, Incumbents
  <2>2. ASSUME ScoreClosed PROVE TightensDepth(Errors(best), Nodes(best))
    <3>1. lo \div Weight = Errors(best) /\ lo % Weight = Nodes(best)
      BY <1>1, <2>2, ClosedRealizes DEF ScoreClosed, Closed
    <3> QED
      BY <2>2, <3>1 DEF ScoreClosed, Realized
  <2>3. ASSUME NodesClosed PROVE TightensDepth(Errors(best), Nodes(best))
    <3>1. Errors(best) = cap.err /\ Nodes(best) = lo
      BY <1>1, <2>3, ClosedRealizes DEF NodesClosed, Closed
    <3> QED
      BY <2>3, <3>1 DEF NodesClosed, Realized
  <2> QED
    BY <1>1, <1>3, <2>1, <2>2, <2>3, SharpOfDepth
<1>4. CASE DepthClosed
  <2>1. phase = "depth" /\ cap' = [cap EXCEPT !.depth = lo]
    BY <1>4 DEF DepthClosed, Closed
  <2>2. Errors(best) = cap.err /\ Nodes(best) = cap.nodes /\ Depth(best) = lo
    BY <1>1, <2>1, ClosedRealizes
  <2>3. phase' = "canon"
    BY <1>4, <2>2 DEF DepthClosed, Realized, Tightens
  <2>4. cap'.err = cap.err /\ cap'.nodes = cap.nodes /\ cap'.depth = lo
    BY <1>1, <2>1
  <2> QED
    BY <1>1, <2>2, <2>3, <2>4, SharpMeans
<1> QED
  BY <1>2, <1>3, <1>4

LEMMA SharpReturned ==
  ASSUME Typed, phase' = "done" \/ Restarted
  PROVE  Sharp'
<1>1. engine \in Engines
  BY DEF Typed, Bases
<1> QED
  BY <1>1, FirstPhases, SharpTrivial DEF Restarted

LEMMA SharpStep ==
  ASSUME Typed, LowerBound, UpperBound, Sharp, Kept, [Next]_vars
  PROVE  Sharp'
<1>1. CASE UNCHANGED vars \/ Refute \/ GiveUp
  BY <1>1, SharpKept DEF vars, Refute, GiveUp, SolverCalled, interval, outcome
<1>2. CASE Interrupted \/ NoneLeft
  BY <1>2, StopTypes, SharpReturned
<1>3. CASE DigitClosed
  <2>1. CASE phase' = "done" \/ Restarted
    BY <2>1, SharpReturned
  <2>2. CASE Len(fixed) + 1 # Len(Preorder(best))
    <3>1. phase = "canon" /\ UNCHANGED <<engine, job, phase, cap, best, found>>
      BY <1>3, <2>2 DEF DigitClosed, Closed, outcome
    <3>2. Errors(best) = cap.err /\ Nodes(best) = cap.nodes /\ Depth(best) = cap.depth
      BY <3>1 DEF Sharp
    <3> QED
      BY <3>1, <3>2, SharpMeans
  <2> QED
    BY <1>3, <2>1, <2>2, DigitClosedTypes
<1> QED
  BY <1>1, <1>2, <1>3, SharpPropose, SharpStarted, SharpLowered, SharpRaised, SharpClosed
     DEF Next, Solver, Optimizer

Bounds == Typed /\ LowerBound /\ UpperBound /\ Sharp /\ Kept

LEMMA BoundsInit == Init => Bounds
<1> SUFFICES ASSUME Init PROVE Bounds
  OBVIOUS
<1>1. Typed /\ LowerBound /\ UpperBound
  BY TypedInit, LowerInit, UpperInit
<1>2. phase \in {"any", "exact", "bracket"} /\ best = None
  BY FirstPhases DEF Init
<1> QED
  BY <1>1, <1>2 DEF Bounds, Sharp, Kept

LEMMA BoundsStep == Bounds /\ [Next]_vars => Bounds'
BY TypedStep, LowerStep, UpperStep, SharpStep, KeptStep DEF Bounds

LEMMA AlwaysBounds == Spec => []Bounds
BY BoundsInit, BoundsStep, PTL DEF Spec

\* Where latent and action have different names, no internal assertion of an engine fails
\* before the first candidate, nor ever but in feasible_first; and in every engine, over
\* any names, scores, node counts and depths close on the incumbent: what the refutations
\* allow and what the incumbent achieves never part.
THEOREM AssertionsGuarded == Spec => []NeverRaises
<1>1. ASSUME Bounds PROVE NeverRaises
  <2>1. phase = "raised" => job.same_name \/ (engine = "feasible_first" /\ found # <<>>)
    BY <1>1 DEF Bounds, Sharp, Bounded
  <2>2. ASSUME lo >= hi, phase = "score" PROVE Realized(lo \div Weight, lo % Weight, None)
    BY <1>1, <2>2, ClosedRealizes DEF Bounds, Realized
  <2>3. ASSUME lo >= hi, phase = "nodes" PROVE Realized(cap.err, lo, None)
    BY <1>1, <2>3, ClosedRealizes DEF Bounds, Realized
  <2>4. ASSUME lo >= hi, phase = "depth" PROVE Realized(cap.err, cap.nodes, lo)
    BY <1>1, <2>4, ClosedRealizes DEF Bounds, Realized
  <2>5. ClosesOnIncumbent
    BY <2>2, <2>3, <2>4 DEF ClosesOnIncumbent
  <2> QED
    BY <2>1, <2>5 DEF NeverRaises
<1> QED
  BY <1>1, AlwaysBounds, PTL

-------------------------------------------------------------------------------
(* What is returned.                                                       *)

LEMMA ReturnedAppends ==
  ASSUME NEW p, NEW c, NEW reason, Returned(p, c, reason)
  PROVE  \/ p = None /\ found' = found /\ Stopped(found, reason)
         \/ p # None /\ found' = Append(found, [program |-> p, complete |-> c])
BY Zenon DEF Returned

LEMMA Appended ==
  ASSUME Typed, [Next]_vars
  PROVE  /\ UNCHANGED <<engine, job>> /\ (engine \in SkeletonEngines => work' = work)
         /\ \/ found' = found
            \/ \E p \in Legal :
                 /\ found' = Append(found, [program |-> p, complete |-> FALSE])
                 /\ Quiet /\ (phase' = "done" \/ Restarted)
            \/ \E p \in Legal :
                 /\ found' = Append(found, [program |-> p, complete |-> TRUE])
                 /\ Quiet /\ (phase' = "done" \/ Restarted)
                 /\ phase = "canon" /\ lo >= hi /\ Len(fixed) + 1 = Len(Preorder(best))
                 /\ p = best \/ (p = base /\ engine = "feasible_first")
                 /\ engine = "feasible_first" => p = Better(base, best)
<1>1. CASE UNCHANGED vars
  BY <1>1 DEF vars
<1>2. CASE Solver
  <2>1. CASE Propose
    <3>1. UNCHANGED <<engine, job, found>>
      BY <2>1, Proposals
    <3>2. engine \in SkeletonEngines => work' = work
      BY <2>1, Proposals
    <3> QED
      BY <3>1, <3>2
  <2> QED
    BY <1>2, <2>1 DEF Solver, Refute, GiveUp, SolverCalled, outcome
<1>3. CASE Interrupted \/ NoneLeft
  <2>1. Quiet /\ (phase' = "done" \/ Restarted)
    BY <1>3, AnsweredQuiet, StopTypes DEF Interrupted, NoneLeft
  <2>2. PICK p \in Legal \cup {None} : \E r : Returned(p, FALSE, r)
    <3>1. best \in Legal \cup {None} /\ Better(base, best) \in Legal \cup {None}
      BY BetterIs DEF Typed, Incumbents
    <3>2. CASE Interrupted
      <4> DEFINE q == IF engine = "feasible_first" /\ phase = "canon" THEN Better(base, best) ELSE best
      <4>1. Returned(q, FALSE, "unknown")
        BY <3>2 DEF Interrupted
      <4>2. q \in Legal \cup {None}
        BY <3>1
      <4> HIDE DEF q
      <4> QED
        BY <4>1, <4>2
    <3>3. CASE NoneLeft
      BY <3>1, <3>3 DEF NoneLeft
    <3> QED
      BY <1>3, <3>2, <3>3
  <2>3. found' = found \/ (p # None /\ found' = Append(found, [program |-> p, complete |-> FALSE]))
    BY <2>2, ReturnedAppends
  <2> QED
    BY <2>1, <2>2, <2>3 DEF Quiet
<1>4. CASE DigitClosed
  <2>1. /\ Quiet /\ phase = "canon" /\ lo >= hi /\ best # None /\ base # None
        /\ {best, base} \subseteq Legal \cup {None}
    BY <1>4, ClosedQuiet DEF DigitClosed, Bisected, Typed, Incumbents
  <2>2. CASE Len(fixed) + 1 = Len(Preorder(best))
    <3> DEFINE p == IF engine = "feasible_first" THEN Better(base, best) ELSE best
    <3>1. Returned(p, TRUE, "candidate")
      BY <1>4, <2>2 DEF DigitClosed
    <3>2. /\ p \in Legal /\ p # None
          /\ p = best \/ (p = base /\ engine = "feasible_first")
          /\ engine = "feasible_first" => p = Better(base, best)
      BY <2>1, BetterIs
    <3>3. phase' = "done" \/ Restarted
      BY <1>4, <2>2, DigitClosedTypes
    <3> HIDE DEF p
    <3>4. found' = Append(found, [program |-> p, complete |-> TRUE])
      BY <3>1, <3>2, ReturnedAppends
    <3> QED
      BY <2>1, <2>2, <3>2, <3>3, <3>4 DEF Quiet
  <2>3. CASE Len(fixed) + 1 # Len(Preorder(best))
    BY <1>4, <2>1, <2>3 DEF DigitClosed, outcome, Quiet
  <2> QED
    BY <2>2, <2>3
<1>5. CASE /\ Optimizer /\ ~ Interrupted /\ ~ NoneLeft /\ ~ DigitClosed
  <2>1. UNCHANGED outcome /\ UNCHANGED <<engine, job, work>>
    BY <1>5 DEF Optimizer, AnyFound, ExactFound, NothingExact, Bracketed, NotBracketed, Lowered,
                Raised, Witnessed, ErrorsClosed, ScoreClosed, NodesClosed, DepthClosed, Answered, Closed
  <2> QED
    BY <2>1 DEF outcome
<1> QED
  BY <1>1, <1>2, <1>3, <1>4, <1>5 DEF Next

LEMMA FreshStays ==
  ASSUME Typed, UNCHANGED job, NEW k \in 1 .. Len(found) + 1,
         found' = found \/ \E c : found' = Append(found, c)
  PROVE  Fresh(k)' = Fresh(k)
<1>1. found \in Seq([program : Legal, complete : BOOLEAN]) /\ Len(found) \in Nat
  BY DEF Typed, Candidates
<1>2. \A j \in 1 .. k - 1 : found'[j] = found[j]
  <2>1. ASSUME NEW j \in 1 .. k - 1 PROVE found'[j] = found[j]
    <3>1. j \in 1 .. Len(found)
      BY <1>1
    <3> QED
      BY <1>1, <3>1
  <2> QED
    BY <2>1
<1>3. Legal' = Legal
  BY DEF Legal
<1>4. \A p, q : SameTable(p, q)' = SameTable(p, q)
  BY DEF SameTable
<1> QED
  BY <1>2, <1>3, <1>4 DEF Fresh

\* Of the programs that the bounds allow none is better than what meets them.
LEMMA AllowedIsNoBetter ==
  ASSUME Typed, UpperBound, phase = "canon", NEW p \in Legal, NEW q \in Legal, q \in {best, base},
         Allows(Errors(p), Nodes(p), Depth(p))
  PROVE  ~ KeyLess(Key(p), Key(q))
<1>1. /\ Errors(p) \in Nat /\ Nodes(p) \in Nat /\ Depth(p) \in Nat
      /\ Errors(q) \in Nat /\ Nodes(q) \in Nat /\ Depth(q) \in Nat
  <2>1. Errors(p) \in 0 .. Len(obs) /\ Nodes(p) \in 1 .. MaxNodes /\ Depth(p) \in 1 .. MaxDepth
    BY ProgramFacts DEF Typed
  <2>2. Errors(q) \in 0 .. Len(obs) /\ Nodes(q) \in 1 .. MaxNodes /\ Depth(q) \in 1 .. MaxDepth
    BY ProgramFacts DEF Typed
  <2> QED
    BY <2>1, <2>2
<1>2. Key(p) = <<Errors(p), Nodes(p), Depth(p)>> /\ Key(q) = <<Errors(q), Nodes(q), Depth(q)>>
  BY KeyIs
<1>3. cap.err \in Nat /\ cap.nodes \in Nat /\ cap.depth \in Nat
  BY JobType DEF Typed, CapsOfPhase
<1>4. Errors(q) <= cap.err /\ Nodes(q) <= cap.nodes /\ Depth(q) <= cap.depth
  <2>1. CASE q = best
    BY <2>1 DEF UpperBound
  <2>2. CASE q = base
    <3>1. Key(q) = <<cap.err, cap.nodes, cap.depth>>
      BY <2>2 DEF UpperBound
    <3> QED
      BY <1>2, <1>3, <3>1
  <2> QED
    BY <2>1, <2>2
<1>5. /\ Errors(p) >= cap.err
      /\ Errors(p) = cap.err => Nodes(p) >= cap.nodes
      /\ Errors(p) = cap.err /\ Nodes(p) = cap.nodes => Depth(p) >= cap.depth
  BY DEF Allows
<1>6. ~ \/ Errors(p) < Errors(q)
        \/ Errors(p) = Errors(q) /\ Nodes(p) < Nodes(q)
        \/ Errors(p) = Errors(q) /\ Nodes(p) = Nodes(q) /\ Depth(p) < Depth(q)
  BY <1>1, <1>3, <1>4, <1>5
<1> QED
  BY <1>2, <1>6 DEF KeyLess

LEMMA CompletedIsBest ==
  ASSUME Typed, LowerBound, UpperBound, phase = "canon", ~ job.same_name \/ found = <<>>,
         NEW q \in Legal, q \in {best, base}, NEW p \in Fresh(Len(found) + 1)
  PROVE  ~ KeyLess(Key(p), Key(q))
<1>1. p \in Legal /\ Allows(Errors(p), Nodes(p), Depth(p))
  BY FreshAllowed DEF Fresh
<1> QED
  BY <1>1, AllowedIsNoBetter

LEMMA BestStep ==
  ASSUME Typed, LowerBound, UpperBound, BestOfFresh, [Next]_vars
  PROVE  BestOfFresh'
<1> SUFFICES ASSUME NEW k \in DOMAIN found', found'[k].complete, k = 1 \/ ~ job'.same_name,
                    NEW p \in Fresh(k)', KeyLess(Key(p)', Key(found[k].program)')
             PROVE  FALSE
  BY DEF BestOfFresh
<1>1. UNCHANGED <<engine, job>>
  BY Appended
<1>2. found \in Seq([program : Legal, complete : BOOLEAN]) /\ Len(found) \in Nat
      /\ DOMAIN found = 1 .. Len(found)
  BY DEF Typed, Candidates
<1>3. \A q : Key(q)' = Key(q)
  BY <1>1, SameJob
<1>4. Key(found[k].program)' = Key(found'[k].program)
  BY <1>1 DEF Key
<1>5. KeyLess(Key(p), Key(found'[k].program))
  BY <1>3, <1>4
<1>6. CASE found' = found
  <2>1. Fresh(k)' = Fresh(k)
    BY <1>1, <1>2, <1>6, FreshStays
  <2> QED
    BY <1>1, <1>2, <1>5, <1>6, <2>1 DEF BestOfFresh
<1>7. ASSUME NEW q \in Legal, NEW c \in BOOLEAN,
             found' = Append(found, [program |-> q, complete |-> c]),
             c => phase = "canon" /\ q \in {best, base}
      PROVE  FALSE
  <2>1. k \in 1 .. Len(found) + 1
    BY <1>2, <1>7
  <2>2. Fresh(k)' = Fresh(k)
    BY <1>1, <1>7, <2>1, FreshStays
  <2>3. CASE k \in 1 .. Len(found)
    <3>1. found'[k] = found[k]
      BY <1>2, <1>7, <2>3
    <3> QED
      BY <1>1, <1>2, <1>5, <2>2, <2>3, <3>1 DEF BestOfFresh
  <2>4. CASE k = Len(found) + 1
    <3>1. found'[k] = [program |-> q, complete |-> c]
      BY <1>2, <1>7, <2>4
    <3>2. k = 1 => found = <<>>
      BY <1>2, <2>4, EmptySeq
    <3>3. ~ KeyLess(Key(p), Key(q))
      BY <1>1, <1>7, <2>2, <2>4, <3>1, <3>2, CompletedIsBest
    <3> QED
      BY <1>5, <3>1, <3>3
  <2> QED
    BY <1>2, <2>1, <2>3, <2>4
<1> QED
  BY <1>6, <1>7, Appended

\* A search that was not interrupted has returned a program with the least error, then the
\* fewest nodes, then the least depth, of all that mean something else than the candidates
\* before it, whatever the engine, and however the intervals were halved.
THEOREM CompletedIsOptimal == Spec => []CompleteIsOptimal
<1> DEFINE I == Bounds /\ BestOfFresh
<1>1. Init => I
  BY BoundsInit DEF Init, BestOfFresh
<1>2. I /\ [Next]_vars => I'
  BY BoundsStep, BestStep DEF Bounds
<1>3. I => CompleteIsOptimal
  BY DEF BestOfFresh, CompleteIsOptimal
<1> QED
  BY <1>1, <1>2, <1>3, PTL DEF Spec

\* A search takes steps until it is done or an assertion fails.
LEMMA NextSearches ==
  ASSUME Typed, Next
  PROVE  Searching
<1>1. CASE Solver
  BY <1>1, Proposals DEF Solver, Refute, GiveUp, SolverCalled, Querying, Searching, Bisected
<1>2. CASE Optimizer
  <2>1. CASE ErrorsClosed \/ ScoreClosed \/ NodesClosed \/ DepthClosed \/ DigitClosed
    BY <2>1 DEF ErrorsClosed, ScoreClosed, NodesClosed, DepthClosed, DigitClosed, Closed, Searching
  <2>2. CASE Interrupted \/ NoneLeft \/ AnyFound \/ ExactFound \/ NothingExact \/ Bracketed
             \/ NotBracketed \/ Lowered \/ Raised \/ Witnessed
    <3>1. PICK a \in {"feasible", "infeasible", "unknown"} : Answered(a)
      BY <2>2 DEF Interrupted, NoneLeft, AnyFound, ExactFound, NothingExact, Bracketed, NotBracketed,
                  Lowered, Raised, Witnessed
    <3> QED
      BY <3>1, AnsweredQuiet DEF Quiet
  <2> QED
    BY <1>2, <2>1, <2>2 DEF Optimizer
<1> QED
  BY <1>1, <1>2 DEF Next

\* Before the first candidate the least demanding queries have an answer.
LEMMA NeverEmpty ==
  ASSUME Bounds, found = <<>>, NoneLeft
  PROVE  FALSE
<1>1. /\ Typed /\ Bases /\ CapsOfPhase /\ Querying /\ Feasible = {}
      /\ phase \in {"any", "witness"} \/ (phase = "bracket" /\ hi >= MaxScore)
  BY DEF Bounds, Typed, Answers, NoneLeft, Answered
<1>2. PICK p \in Legal : TRUE
  BY <1>1, JobType
<1>3. PICK m \in Rivals : WorkErrors(m) <= Errors(p)
  BY <1>1, <1>2, AllFresh, FreshRival
<1>4. /\ WorkErrors(m) \in Nat /\ WorkErrors(m) <= Len(obs) /\ Len(obs) \in Nat
      /\ Nodes(m) \in Nat /\ Nodes(m) <= MaxNodes /\ MaxNodes \in Nat
  <2>1. Nodes(m) \in 1 .. MaxNodes /\ MaxNodes \in Nat
    BY <1>1, RivalFacts
  <2> QED
    BY <1>1, <2>1, RivalFacts
<1>5. phase = "witness" => WorkErrors(m) <= lo
  <2>1. phase = "witness" => lo = Len(obs)
    BY DEF Bounds, Sharp, Bounded
  <2> QED
    BY <1>4, <2>1
<1>6. phase = "bracket" => Total(WorkErrors(m), Nodes(m)) <= hi
  <2>1. Total(WorkErrors(m), Nodes(m)) <= Total(Len(obs), Nodes(m))
    BY <1>1, <1>4, TotalGrows
  <2>2. Total(Len(obs), Nodes(m)) <= MaxScore
    <3> DEFINE W == Weight
    <3>1. W \in Nat
      BY <1>1, JobType
    <3>2. Total(Len(obs), Nodes(m)) = Len(obs) * W + Nodes(m) /\ MaxScore = Len(obs) * W + MaxNodes
      BY DEF Total, MaxScore
    <3> HIDE DEF W
    <3>3. Len(obs) * W \in Nat
      BY <1>4, <3>1
    <3> QED
      BY <1>4, <3>2, <3>3
  <2>3. /\ Total(WorkErrors(m), Nodes(m)) \in Nat /\ Total(Len(obs), Nodes(m)) \in Nat
        /\ hi \in Nat /\ MaxScore \in Nat
    BY <1>1, <1>4, TotalType, ScoreType DEF Bases, MaxScore
  <2> QED
    BY <1>1, <2>1, <2>2, <2>3
<1>7. Meets(WorkErrors(m), Nodes(m), Depth(m)) /\ DigitMet(m)
  BY <1>1, <1>5, <1>6 DEF Meets, DigitMet, Total
<1> QED
  BY <1>1, <1>3, <1>7, FeasibleIs

LEMMA SpentStep ==
  ASSUME Bounds, UnsatOnlyWhenSpent, [Next]_vars
  PROVE  UnsatOnlyWhenSpent'
<1>1. CASE UNCHANGED vars
  BY <1>1 DEF vars, UnsatOnlyWhenSpent
<1>2. CASE Next
  <2> SUFFICES ASSUME status' = "unsat", found' = <<>> PROVE budget' = "spent" /\ engine' \in CegisEngines
    BY DEF UnsatOnlyWhenSpent
  <2>1. Typed /\ Searching /\ status = None /\ None # "unsat"
    BY <1>2, NextSearches, SearchConstants DEF Bounds, Typed, Candidates, Searching
  <2>2. found \in Seq([program : Legal, complete : BOOLEAN])
    BY <2>1 DEF Typed, Candidates
  <2>3. found' = found
    <3>1. ASSUME NEW c PROVE Append(found, c) # <<>>
      <4> DEFINE R == [program : Legal, complete : BOOLEAN]
      <4>1. found \in Seq(R)
        BY <2>2
      <4> HIDE DEF R
      <4>3. found \in Seq(R \cup {c})
        BY <4>1
      <4>2. Len(Append(found, c)) = Len(found) + 1 /\ Len(found) \in Nat
        BY <4>3
      <4> QED
        BY <4>2
    <3> QED
      BY <2>1, <1>2, <3>1, Appended
  <2>4. CASE Interrupted
    <3>1. Quiet /\ ans = "unknown"
      BY <2>1, <2>4, AnsweredQuiet DEF Interrupted
    <3>2. PICK p : Returned(p, FALSE, "unknown")
      BY <2>4 DEF Interrupted
    <3>3. Stopped(found, "unknown")
      <4>1. \A c : Append(found, c) # found
        BY <2>2, <2>3
      <4> QED
        BY <2>3, <3>2, <4>1, ReturnedAppends
    <3>4. CASE engine \in CegisEngines
      <4>1. status' = CegisStatus(found, FALSE)
        BY <3>3, <3>4 DEF Stopped
      <4>2. budget # "exhausted"
        BY <2>3, <4>1 DEF CegisStatus
      <4>3. budget = "spent"
        BY <2>1, <3>1, <3>4, <4>2 DEF Typed, Answers
      <4> QED
        BY <3>1, <3>4, <4>3 DEF Quiet
    <3>5. CASE engine \notin CegisEngines
      <4>1. status' = SkeletonStatus(found, "unknown")
        BY <3>3, <3>5 DEF Stopped
      <4>2. SkeletonStatus(found, "unknown") = "unknown"
        BY <2>3 DEF SkeletonStatus
      <4> QED
        BY <4>1, <4>2
    <3> QED
      BY <3>4, <3>5
  <2>5. CASE NoneLeft
    BY <2>3, <2>5, NeverEmpty
  <2>6. CASE DigitClosed
    <3>1. phase = "canon" /\ best # None /\ base # None
      BY <2>1, <2>6 DEF DigitClosed, Closed, Typed, Incumbents
    <3>2. Better(base, best) # None
      BY <3>1, BetterIs
    <3>3. \A c : Append(found, c) # found
      BY <2>2, <2>3
    <3>4. Len(fixed) + 1 # Len(Preorder(best))
      <4> SUFFICES ASSUME Len(fixed) + 1 = Len(Preorder(best)) PROVE FALSE
        OBVIOUS
      <4>1. \E p : p # None /\ Returned(p, TRUE, "candidate")
        BY <2>6, <3>1, <3>2 DEF DigitClosed
      <4> QED
        BY <2>3, <3>3, <4>1, ReturnedAppends
    <3> QED
      BY <2>1, <2>6, <3>4 DEF DigitClosed, outcome
  <2>7. CASE Solver
    BY <2>1, <2>7, Proposals DEF Solver, Refute, GiveUp, SolverCalled, outcome
  <2>8. CASE Optimizer /\ ~ Interrupted /\ ~ NoneLeft /\ ~ DigitClosed
    BY <2>1, <2>8 DEF Optimizer, AnyFound, ExactFound, NothingExact, Bracketed, NotBracketed, Lowered,
                Raised, Witnessed, ErrorsClosed, ScoreClosed, NodesClosed, DepthClosed, outcome
  <2> QED
    BY <1>2, <2>4, <2>5, <2>6, <2>7, <2>8 DEF Next
<1> QED
  BY <1>1, <1>2

\* The grammar always has a program, and the queries with the widest bounds have it: only
\* resources that run out on a definite answer make a search report unsat without a
\* candidate, and only in the CEGIS engines.
THEOREM UnsatMeansSpent == Spec => []UnsatOnlyWhenSpent
<1> DEFINE I == Bounds /\ UnsatOnlyWhenSpent
<1>1. Init => I
  BY BoundsInit, SearchConstants DEF Init, UnsatOnlyWhenSpent
<1>2. I /\ [Next]_vars => I'
  BY BoundsStep, SpentStep
<1> QED
  BY <1>1, <1>2, PTL DEF Spec

-------------------------------------------------------------------------------
(* The least in preorder.                                                  *)

LEMMA LongerStrictly ==
  ASSUME NEW s \in Seq(Nat), NEW t \in Seq(Nat), Agree(s, t, Len(s)), Len(s) + 1 <= Len(t)
  PROVE  IsStrictPrefix(s, t)
<1>1. Len(s) \in Nat /\ Len(t) \in Nat /\ Len(s) <= Len(t) /\ s # t
      /\ \A i \in 1 .. Len(s) : s[i] = t[i]
  BY DEF Agree
<1>2. SubSeq(s, 1, Len(s)) = s
  BY SubSeqFull
<1>3. SubSeq(t, 1, Len(s)) \in Seq(Nat) /\ Len(SubSeq(t, 1, Len(s))) = Len(s)
      /\ \A i \in 1 .. Len(s) : SubSeq(t, 1, Len(s))[i] = t[i]
  BY <1>1
<1>4. SubSeq(t, 1, Len(s)) = s
  BY <1>1, <1>3, SeqEqual
<1> QED
  BY <1>1, <1>2, <1>4 DEF IsStrictPrefix, IsPrefix

\* One digit more.
LEMMA NextDigit ==
  ASSUME fixed \in Seq(Nat), lo \in Nat, hi \in Nat, lo >= hi, fixed' = Append(fixed, hi), lo' = 0,
         NEW s \in Seq(Nat), NoLesser(s)
  PROVE  NoLesser(s)'
<1>1. /\ Len(fixed) \in Nat /\ Len(s) \in Nat /\ Len(fixed') = Len(fixed) + 1 /\ fixed' \in Seq(Nat)
      /\ fixed'[Len(fixed) + 1] = hi /\ \A k \in 1 .. Len(fixed) : fixed'[k] = fixed[k]
  OBVIOUS
<1>2. ASSUME NEW k \in 1 .. Len(fixed'), k <= Len(s), Agree(fixed', s, k - 1)
      PROVE  s[k] >= fixed'[k]
  <2>1. Agree(fixed, s, k - 1)
    BY <1>1, <1>2 DEF Agree
  <2>2. CASE k \in 1 .. Len(fixed)
    BY <1>1, <1>2, <2>1, <2>2 DEF NoLesser
  <2>3. CASE k = Len(fixed) + 1
    <3>1. k - 1 = Len(fixed)
      BY <1>1, <2>3
    <3>2. s[k] >= lo
      BY <1>2, <2>1, <2>3, <3>1 DEF NoLesser
    <3>3. s[k] \in Nat
      BY <1>1, <1>2, ElementOfSeq
    <3> QED
      BY <1>1, <2>3, <3>2, <3>3
  <2> QED
    BY <1>1, <2>2, <2>3
<1>3. ASSUME Len(fixed') + 1 <= Len(s) PROVE s[Len(fixed') + 1] >= lo'
  <2>1. s[Len(fixed') + 1] \in Nat
    BY <1>1, <1>3, ElementOfSeq
  <2> QED
    BY <2>1
<1>4. \A n : Agree(fixed, s, n)' <=> Agree(fixed', s, n)
  BY DEF Agree
<1> QED
  BY <1>2, <1>3, <1>4 DEF NoLesser, Agree

LEMMA LeastLowered ==
  ASSUME Typed, LeastSoFar, Lowered, phase = "canon", engine \in SkeletonEngines
  PROVE  LeastSoFar'
<1>1. /\ UNCHANGED <<engine, job, work, found, phase, lo, fixed, cap>> /\ ans = "feasible"
      /\ best' = Merge(cand) /\ hi' = Smaller(Mid, Preorder(cand)[Len(fixed) + 1])
      /\ lo \in Nat /\ hi \in Nat /\ Mid \in Nat
  BY MidBetween DEF Lowered, Answered, outcome, Measure, Typed, Bases
<1>2. best' = cand
  BY <1>1, MergeIs
<1>3. PICK m \in Rivals : cand = Decoded(m) /\ DigitMet(m)
  BY <1>1, CandidateMeets
<1>4. cand = m /\ Preorder(m) \in Seq(Nat)
  BY <1>3, ModelFacts DEF Rivals, Typed
<1>5. IsStrictPrefix(fixed, Preorder(cand)) /\ Preorder(cand)[Len(fixed) + 1] <= Mid
  BY <1>3, <1>4 DEF DigitMet
<1>6. fixed \in Seq(Nat) /\ Len(fixed) \in Nat /\ Len(Preorder(cand)) \in Nat
  BY <1>4 DEF Typed, Digits
<1>7. Len(fixed) < Len(Preorder(cand)) /\ \A i \in 1 .. Len(fixed) : fixed[i] = Preorder(cand)[i]
  BY <1>4, <1>5, <1>6, StrictlyLonger
<1>8. Agree(fixed, Preorder(cand), Len(fixed))
  BY <1>6, <1>7 DEF Agree
<1>9. Preorder(cand)[Len(fixed) + 1] \in Nat
  BY <1>4, <1>6, <1>7, ElementOfSeq
<1>10. hi' = Preorder(cand)[Len(fixed) + 1]
  BY <1>1, <1>5, <1>9 DEF Smaller
<1>11. \A q \in Rivals' : AsGood(q)' => NoLesser(Preorder(q))'
  <2>1. Rivals' = Rivals /\ \A q : WorkErrors(q)' = WorkErrors(q)
    BY <1>1, SameRivals
  <2>2. \A q : AsGood(q)' = AsGood(q) /\ NoLesser(Preorder(q))' = NoLesser(Preorder(q))
    BY <1>1, <2>1 DEF AsGood, NoLesser, Agree
  <2> QED
    BY <2>1, <2>2 DEF LeastSoFar
<1> QED
  BY <1>1, <1>2, <1>8, <1>10, <1>11 DEF LeastSoFar, Agree

LEMMA LeastRaised ==
  ASSUME Typed, LeastSoFar, Raised, phase = "canon", engine \in SkeletonEngines
  PROVE  LeastSoFar'
<1>1. /\ UNCHANGED <<engine, job, work, found, phase, hi, fixed, cap, best>> /\ ans = "infeasible"
      /\ lo' = Mid + 1 /\ Mid \in Nat
  BY MidBetween DEF Raised, Answered, outcome, Typed, Bases
<1>2. Rivals' = Rivals /\ \A q : WorkErrors(q)' = WorkErrors(q)
  BY <1>1, SameRivals
<1>3. ASSUME NEW m \in Rivals, AsGood(m) PROVE NoLesser(Preorder(m))'
  <2>1. NoLesser(Preorder(m)) /\ Preorder(m) \in Seq(Nat) /\ fixed \in Seq(Nat)
    BY <1>3, ModelFacts DEF LeastSoFar, Rivals, Typed, Digits
  <2>2. ~ DigitMet(m)
    <3>1. /\ Feasible = {} /\ Querying /\ Bases /\ CapsOfPhase
          /\ cap.err \in Nat /\ cap.nodes \in Nat /\ cap.depth \in Nat
      BY <1>1 DEF Typed, Answers, CapsOfPhase
    <3>2. Meets(WorkErrors(m), Nodes(m), Depth(m))
      BY <1>3, <3>1 DEF Meets, AsGood
    <3> QED
      BY <3>1, <3>2, FeasibleIs
  <2>3. ASSUME Len(fixed) + 1 <= Len(Preorder(m)), Agree(fixed, Preorder(m), Len(fixed))
        PROVE  Preorder(m)[Len(fixed) + 1] >= lo'
    <3>1. IsStrictPrefix(fixed, Preorder(m))
      BY <2>1, <2>3, LongerStrictly
    <3>2. ~ (Preorder(m)[Len(fixed) + 1] <= Mid)
      BY <2>2, <3>1 DEF DigitMet
    <3>3. Preorder(m)[Len(fixed) + 1] \in Nat
      BY <2>1, <2>3, ElementOfSeq
    <3> QED
      BY <1>1, <3>2, <3>3
  <2> QED
    BY <1>1, <2>1, <2>3 DEF NoLesser, Agree
<1>4. \A m \in Rivals' : AsGood(m)' => NoLesser(Preorder(m))'
  BY <1>1, <1>2, <1>3 DEF AsGood
<1> QED
  BY <1>1, <1>4 DEF LeastSoFar, Agree

LEMMA LeastExtended ==
  ASSUME Typed, LeastSoFar, DigitClosed, engine \in SkeletonEngines,
         Len(fixed) + 1 # Len(Preorder(best))
  PROVE  LeastSoFar'
<1>1. /\ UNCHANGED <<engine, job, work, found, phase, cap, best>> /\ phase = "canon"
      /\ fixed' = Append(fixed, hi) /\ lo' = 0 /\ hi' = Preorder(best)[Len(fixed) + 2]
      /\ lo >= hi /\ lo \in Nat /\ hi \in Nat
  BY DEF DigitClosed, Closed, outcome, Typed, Bases
<1>2. /\ fixed \in Seq(Nat) /\ Preorder(best) \in Seq(Nat) /\ Len(fixed) < Len(Preorder(best))
      /\ Agree(fixed, Preorder(best), Len(fixed)) /\ Preorder(best)[Len(fixed) + 1] = hi
  BY <1>1, IncumbentFacts, ProgramFacts DEF Typed, Incumbents, Digits, LeastSoFar
<1>3. /\ Len(fixed) \in Nat /\ Len(Preorder(best)) \in Nat /\ Len(fixed') = Len(fixed) + 1
      /\ fixed'[Len(fixed) + 1] = hi /\ \A k \in 1 .. Len(fixed) : fixed'[k] = fixed[k]
  BY <1>1, <1>2
<1>4. Agree(fixed', Preorder(best), Len(fixed'))
  <2>1. ASSUME NEW i \in 1 .. Len(fixed') PROVE fixed'[i] = Preorder(best)[i]
    <3>1. i = Len(fixed) + 1 \/ i \in 1 .. Len(fixed)
      BY <1>3
    <3>2. \A k \in 1 .. Len(fixed) : fixed[k] = Preorder(best)[k]
      BY <1>2 DEF Agree
    <3> QED
      BY <1>2, <1>3, <3>1, <3>2
  <2>2. Len(fixed') <= Len(Preorder(best))
    BY <1>2, <1>3
  <2>3. Len(fixed') <= Len(fixed')
    BY <1>3
  <2> QED
    BY <2>1, <2>2, <2>3 DEF Agree
<1>5. hi' = Preorder(best)[Len(fixed') + 1]
  <2>1. Len(fixed') + 1 = Len(fixed) + 2
    BY <1>3
  <2> QED
    BY <1>1, <2>1
<1>6. Rivals' = Rivals /\ \A q : WorkErrors(q)' = WorkErrors(q)
  BY <1>1, SameRivals
<1>7. ASSUME NEW m \in Rivals, AsGood(m) PROVE NoLesser(Preorder(m))'
  <2>1. NoLesser(Preorder(m)) /\ Preorder(m) \in Seq(Nat)
    BY <1>1, <1>7, ModelFacts DEF LeastSoFar, Rivals, Typed
  <2> QED
    BY <1>1, <1>2, <2>1, NextDigit
<1>8. \A m \in Rivals' : AsGood(m)' => NoLesser(Preorder(m))'
  BY <1>1, <1>6, <1>7 DEF AsGood
<1> QED
  BY <1>1, <1>4, <1>5, <1>8 DEF LeastSoFar, Agree

LEMMA LeastStarted ==
  ASSUME Typed, DepthClosed, phase' = "canon"
  PROVE  LeastSoFar'
<1>1. /\ phase = "depth" /\ UNCHANGED <<fixed, best>> /\ lo' = 0 /\ hi' = Preorder(best)[1]
      /\ UNCHANGED <<engine, job, work, found>>
  BY DEF DepthClosed, Closed, Tightens, outcome
<1>2. fixed = <<>> /\ best \in Legal /\ Bases
  BY <1>1 DEF Typed, Digits, Searching, Incumbents
<1>3. Preorder(best) \in Seq(Nat) /\ Len(Preorder(best)) >= 1
  BY <1>2, ProgramFacts
<1>4. Len(fixed') = 0 /\ Len(fixed') + 1 = 1
  BY <1>1, <1>2
<1>5. Agree(fixed', Preorder(best), Len(fixed')) /\ Preorder(best)[Len(fixed') + 1] = hi'
  BY <1>1, <1>3, <1>4 DEF Agree
<1>6. ASSUME NEW m \in Rivals' PROVE NoLesser(Preorder(m))'
  <2>1. m \in SpaceOf(engine, job, work)
    BY <1>1, <1>6 DEF Rivals
  <2>2. Preorder(m) \in Seq(Nat)
    BY <1>2, <2>1, ModelFacts
  <2>3. 1 <= Len(Preorder(m)) => Preorder(m)[1] \in Nat
    BY <2>2, ElementOfSeq
  <2> QED
    BY <1>1, <1>4, <2>3 DEF NoLesser
<1> QED
  BY <1>1, <1>5, <1>6 DEF LeastSoFar, Agree

LEMMA LeastKept ==
  ASSUME Typed, LeastSoFar, UNCHANGED <<engine, job, work, found, phase, lo, hi, fixed, cap, best>>
  PROVE  LeastSoFar'
<1>1. Rivals' = Rivals /\ \A q : WorkErrors(q)' = WorkErrors(q)
  BY SameRivals
<1>2. \A q : AsGood(q)' = AsGood(q) /\ NoLesser(Preorder(q))' = NoLesser(Preorder(q))
  BY <1>1 DEF AsGood, NoLesser, Agree
<1> QED
  BY <1>1, <1>2 DEF LeastSoFar, Agree

LEMMA LeastStep ==
  ASSUME Typed, LeastSoFar, [Next]_vars
  PROVE  LeastSoFar'
<1> SUFFICES ASSUME phase' = "canon", engine' \in SkeletonEngines PROVE LeastSoFar'
  BY DEF LeastSoFar
<1>1. engine \in SkeletonEngines /\ work' = work
  BY Appended
<1>2. CASE UNCHANGED vars \/ Solver
  <2>1. CASE Propose
    <3>1. UNCHANGED <<engine, job, found, phase, lo, hi, fixed, cap, best>>
      BY <2>1, Proposals
    <3> QED
      BY <1>1, <3>1, LeastKept
  <2>2. CASE UNCHANGED vars \/ Refute \/ GiveUp
    BY <1>1, <2>2, LeastKept DEF vars, Refute, GiveUp, SolverCalled, interval, outcome
  <2> QED
    BY <1>2, <2>1, <2>2 DEF Solver
<1>3. CASE Lowered \/ Raised
  BY <1>1, <1>3, LeastLowered, LeastRaised DEF Lowered, Raised
<1>4. CASE DepthClosed
  BY <1>4, LeastStarted
<1>5. ASSUME phase' = "done" \/ Restarted PROVE FALSE
  <2>1. engine \in Engines
    BY DEF Typed, Bases
  <2> QED
    BY <1>5, <2>1, FirstPhases DEF Restarted
<1>6. CASE DigitClosed
  BY <1>1, <1>5, <1>6, DigitClosedTypes, LeastExtended
<1>7. CASE Interrupted \/ NoneLeft
  BY <1>5, <1>7, StopTypes
<1>8. CASE AnyFound \/ ExactFound \/ NothingExact \/ Bracketed \/ NotBracketed \/ Witnessed
           \/ ErrorsClosed \/ ScoreClosed \/ NodesClosed
  <2>1. CASE NothingExact
    BY <1>1, <2>1, EngineIs DEF NothingExact, Tightens, Typed, PhasesOfEngine, CegisEngines
  <2>2. CASE AnyFound \/ ExactFound \/ Bracketed \/ NotBracketed \/ Witnessed
           \/ ErrorsClosed \/ ScoreClosed \/ NodesClosed
    BY <2>2 DEF AnyFound, ExactFound, Bracketed, NotBracketed, Witnessed, ErrorsClosed,
                ScoreClosed, NodesClosed, Tightens, TightensNodes, TightensDepth
  <2> QED
    BY <1>8, <2>1, <2>2
<1> QED
  BY <1>2, <1>3, <1>4, <1>6, <1>7, <1>8 DEF Next, Optimizer

\* The incumbent of a closed tie-break is the least in preorder of those as good.
LEMMA CompletedIsLeast ==
  ASSUME Bounds, LeastSoFar, engine \in SkeletonEngines, phase = "canon", lo >= hi,
         Len(fixed) + 1 = Len(Preorder(best)),
         NEW p \in SpaceOf(engine, job, work) \cap Fresh(Len(found) + 1), Key(p) = Key(best)
  PROVE  ~ LexLess(Preorder(p), Preorder(best))
<1>1. Typed /\ Bases /\ best \in Legal /\ lo \in Nat /\ hi \in Nat
  BY DEF Bounds, Typed, Incumbents, Bases
<1>2. p \in Legal /\ WorkErrors(p) = Errors(p)
  BY <1>1, SkeletonErrors
<1>3. p \in Rivals
  <2> SUFFICES ASSUME NEW k \in DOMAIN found, Blocked(p, found[k].program) PROVE FALSE
    BY DEF Rivals
  <2>1. engine \notin CegisEngines
    BY <1>1, EngineIs
  <2>2. SameTable(p, found[k].program)
    BY <2>1 DEF Blocked, SameTable
  <2>3. k \in 1 .. (Len(found) + 1) - 1
    BY <1>1 DEF Typed, Candidates
  <2> QED
    BY <2>2, <2>3 DEF Fresh
<1>4. AsGood(p)
  <2>1. Bounded
    BY <1>1, EngineIs DEF Bounded, Bases, CegisEngines
  <2>2. Errors(best) = cap.err /\ Nodes(best) = cap.nodes /\ Depth(best) = cap.depth
    BY <2>1 DEF Bounds, Sharp
  <2>3. Errors(p) = Errors(best) /\ Nodes(p) = Nodes(best) /\ Depth(p) = Depth(best)
    BY KeyIs
  <2> QED
    BY <1>2, <2>2, <2>3 DEF AsGood
<1> DEFINE s == Preorder(p)
           t == Preorder(best)
<1>5. NoLesser(s) /\ Agree(fixed, t, Len(fixed)) /\ t[Len(fixed) + 1] = hi
  BY <1>3, <1>4 DEF LeastSoFar
<1>6. s \in Seq(Nat) /\ t \in Seq(Nat) /\ fixed \in Seq(Nat) /\ Len(fixed) + 1 = Len(t)
  BY <1>1, <1>2, ProgramFacts DEF Typed, Digits
<1>7. ~ IsStrictPrefix(s, t)
  BY <1>1, <1>2, ProgramsMeasured DEF Bases, Legal
<1> HIDE DEF s, t
<1>8. ASSUME NEW k \in DOMAIN s \cap DOMAIN t, s[k] < t[k], \A j \in 1 .. k - 1 : s[j] = t[j]
      PROVE  FALSE
  <2>1. k \in 1 .. Len(s) /\ k \in 1 .. Len(t) /\ Len(fixed) \in Nat /\ Len(s) \in Nat
        /\ s[k] \in Nat /\ t[k] \in Nat
    BY <1>6
  <2>2. k - 1 <= Len(fixed) /\ k - 1 <= Len(s)
    BY <1>6, <2>1
  <2>3. Agree(fixed, s, k - 1)
    <3>1. \A j \in 1 .. k - 1 : fixed[j] = t[j]
      BY <1>5, <2>1, <2>2 DEF Agree
    <3> QED
      BY <1>8, <2>2, <3>1 DEF Agree
  <2>4. CASE k \in 1 .. Len(fixed)
    <3>1. s[k] >= fixed[k]
      BY <1>5, <2>1, <2>3, <2>4 DEF NoLesser
    <3>2. fixed[k] = t[k]
      BY <1>5, <2>4 DEF Agree
    <3> QED
      BY <1>8, <2>1, <3>1, <3>2
  <2>5. CASE k = Len(fixed) + 1
    <3>1. k - 1 = Len(fixed)
      BY <2>1, <2>5
    <3>2. s[k] >= lo
      BY <1>5, <2>1, <2>3, <2>5, <3>1 DEF NoLesser
    <3> QED
      BY <1>1, <1>5, <1>8, <2>1, <2>5, <3>2
  <2> QED
    BY <1>6, <2>1, <2>4, <2>5
<1> QED
  BY <1>7, <1>8 DEF LexLess, s, t

LEMMA LeastFreshStep ==
  ASSUME Bounds, LeastSoFar, LeastOfFresh, [Next]_vars
  PROVE  LeastOfFresh'
<1> SUFFICES ASSUME NEW k \in DOMAIN found', found'[k].complete, engine' \in SkeletonEngines,
                    NEW p \in (SpaceOf(engine, job, work) \cap Fresh(k))',
                    Key(p)' = Key(found[k].program)',
                    LexLess(Preorder(p), Preorder(found'[k].program))
             PROVE  FALSE
  BY DEF LeastOfFresh
<1>1. Typed /\ UNCHANGED <<engine, job, work>> /\ engine \in SkeletonEngines
  BY Appended DEF Bounds
<1>2. found \in Seq([program : Legal, complete : BOOLEAN]) /\ Len(found) \in Nat
      /\ DOMAIN found = 1 .. Len(found)
  BY <1>1 DEF Typed, Candidates
<1>3. p \in SpaceOf(engine, job, work) /\ p \in Fresh(k)'
  BY <1>1
<1>4. Key(p) = Key(found'[k].program)
  <2>1. \A q : Key(q)' = Key(q)
    BY <1>1, SameJob
  <2>2. Key(found[k].program)' = Key(found'[k].program)
    BY <1>1 DEF Key
  <2> QED
    BY <2>1, <2>2
<1>5. CASE found' = found
  <2>1. Fresh(k)' = Fresh(k)
    BY <1>1, <1>2, <1>5, FreshStays
  <2> QED
    BY <1>1, <1>2, <1>3, <1>4, <1>5, <2>1 DEF LeastOfFresh
<1>6. ASSUME NEW q \in Legal, NEW c \in BOOLEAN,
             found' = Append(found, [program |-> q, complete |-> c]),
             c => phase = "canon" /\ lo >= hi /\ Len(fixed) + 1 = Len(Preorder(best)) /\ q = best
      PROVE  FALSE
  <2>1. k \in 1 .. Len(found) + 1
    BY <1>2, <1>6
  <2>2. Fresh(k)' = Fresh(k)
    BY <1>1, <1>6, <2>1, FreshStays
  <2>3. CASE k \in 1 .. Len(found)
    <3>1. found'[k] = found[k]
      BY <1>2, <1>6, <2>3
    <3> QED
      BY <1>1, <1>2, <1>3, <1>4, <2>2, <2>3, <3>1 DEF LeastOfFresh
  <2>4. CASE k = Len(found) + 1
    <3>1. found'[k] = [program |-> q, complete |-> c]
      BY <1>2, <1>6, <2>4
    <3>2. c /\ q = best /\ p \in Fresh(Len(found) + 1)
      BY <1>3, <1>6, <2>2, <2>4, <3>1
    <3>3. ~ LexLess(Preorder(p), Preorder(best))
      BY <1>1, <1>3, <1>4, <1>6, <3>1, <3>2, CompletedIsLeast
    <3> QED
      BY <3>1, <3>2, <3>3
  <2> QED
    BY <1>2, <2>1, <2>3, <2>4
<1>7. engine # "feasible_first"
  BY <1>1 DEF SkeletonEngines
<1> QED
  BY <1>1, <1>5, <1>6, <1>7, Appended

\* Of the expressions that are as good, the engines that encode all points return the least
\* in preorder, however often a digit's interval was halved.
THEOREM CompletedIsLeastInPreorder == Spec => []PreorderMinimal
<1> DEFINE I == Bounds /\ LeastSoFar /\ LeastOfFresh
<1>1. Init => I
  <2>1. Init => phase # "canon" /\ found = <<>>
    BY FirstPhases DEF Init
  <2> QED
    BY <2>1, BoundsInit DEF LeastSoFar, LeastOfFresh
<1>2. I /\ [Next]_vars => I'
  BY BoundsStep, LeastStep, LeastFreshStep DEF Bounds
<1>3. I => PreorderMinimal
  BY DEF LeastOfFresh, PreorderMinimal, SpaceOf, MaxDepth, WorkPoints
<1> QED
  BY <1>1, <1>2, <1>3, PTL DEF Spec

-------------------------------------------------------------------------------
(* The contract.                                                           *)

LEMMA ContractInit == Init => Contract!Init
<1> SUFFICES ASSUME Init PROVE Contract!Init
  OBVIOUS
<1>1. engine \in Engines /\ job \in Jobs /\ found = <<>> /\ best = None /\ phase # "done"
  BY FirstPhases DEF Init
<1> QED
  BY <1>1 DEF Contract!Init, Incumbent, Promise

\* What may follow an incumbent: a program that is no worse.
LEMMA NoWorseFollows ==
  ASSUME Bases, NEW p \in Legal, NEW q \in Legal,
         Errors(p) <= Errors(q),
         Errors(p) = Errors(q) =>
           /\ Nodes(p) <= Nodes(q)
           /\ Nodes(p) = Nodes(q) /\ engine \notin SkeletonEngines => Depth(p) <= Depth(q)
  PROVE  MayFollow(<<engine, job>>, p, q)
<1>1. /\ Errors(p) \in Nat /\ Nodes(p) \in Nat /\ Depth(p) \in Nat
      /\ Errors(q) \in Nat /\ Nodes(q) \in Nat /\ Depth(q) \in Nat
  <2>1. Errors(p) \in 0 .. Len(obs) /\ Nodes(p) \in 1 .. MaxNodes /\ Depth(p) \in 1 .. MaxDepth
    BY ProgramFacts
  <2>2. Errors(q) \in 0 .. Len(obs) /\ Nodes(q) \in 1 .. MaxNodes /\ Depth(q) \in 1 .. MaxDepth
    BY ProgramFacts
  <2> QED
    BY <2>1, <2>2
<1> DEFINE v == <<engine, job>>
<1>2. v[1] = engine /\ v[2] = job
  OBVIOUS
<1> HIDE DEF v
<1>3. Errors(p) = ErrorsIn(v[2], p) /\ Errors(q) = ErrorsIn(v[2], q)
  BY <1>2 DEF Errors
<1>4. CASE engine \in SkeletonEngines
  <2>1. ~ KeyLess(<<Errors(q), Nodes(q), 0>>, <<Errors(p), Nodes(p), 0>>)
    BY <1>1 DEF KeyLess
  <2> QED
    BY <1>2, <1>3, <1>4, <2>1 DEF MayFollow, v
<1>5. CASE engine \notin SkeletonEngines
  <2>1. ~ KeyLess(<<Errors(q), Nodes(q), Depth(q)>>, <<Errors(p), Nodes(p), Depth(p)>>)
    BY <1>1, <1>5 DEF KeyLess
  <2> QED
    BY <1>2, <1>3, <1>5, <2>1 DEF MayFollow, Beats, KeyIn, v
<1> QED
  BY <1>4, <1>5

\* The better of two may follow either.
LEMMA BetterFollows ==
  ASSUME Bases, NEW p \in Legal, NEW q \in Legal
  PROVE  /\ MayFollow(<<engine, job>>, Better(p, q), q)
         /\ MayFollow(<<engine, job>>, Better(p, q), p)
         /\ Better(p, q) \in {p, q}
<1>1. ASSUME NEW r \in Legal PROVE MayFollow(<<engine, job>>, r, r)
  <2>1. Errors(r) \in Nat /\ Nodes(r) \in Nat /\ Depth(r) \in Nat
    <3>1. Errors(r) \in 0 .. Len(obs) /\ Nodes(r) \in 1 .. MaxNodes /\ Depth(r) \in 1 .. MaxDepth
      BY ProgramFacts
    <3> QED
      BY <3>1
  <2> QED
    BY <2>1, NoWorseFollows
<1>2. ASSUME ~ ScoreLess(q, p) PROVE MayFollow(<<engine, job>>, p, q)
  <2>1. ~ KeyLess(Key(q), Key(p))
    BY <1>2 DEF ScoreLess
  <2> QED
    BY <2>1, NotBetter, NoWorseFollows
<1>3. ASSUME ScoreLess(q, p) PROVE MayFollow(<<engine, job>>, q, p)
  <2>1. /\ Errors(p) \in Nat /\ Nodes(p) \in Nat /\ Depth(p) \in Nat
        /\ Errors(q) \in Nat /\ Nodes(q) \in Nat /\ Depth(q) \in Nat
    <3>1. Errors(p) \in 0 .. Len(obs) /\ Nodes(p) \in 1 .. MaxNodes /\ Depth(p) \in 1 .. MaxDepth
      BY ProgramFacts
    <3>2. Errors(q) \in 0 .. Len(obs) /\ Nodes(q) \in 1 .. MaxNodes /\ Depth(q) \in 1 .. MaxDepth
      BY ProgramFacts
    <3> QED
      BY <3>1, <3>2
  <2>2. Key(p) = <<Errors(p), Nodes(p), Depth(p)>> /\ Key(q) = <<Errors(q), Nodes(q), Depth(q)>>
    BY KeyIs
  <2>3. KeyLess(Key(q), Key(p)) \/ Key(p) = Key(q)
    BY <1>3 DEF ScoreLess
  <2>4. /\ Errors(q) <= Errors(p)
        /\ Errors(p) = Errors(q) => /\ Nodes(q) <= Nodes(p)
                                    /\ Nodes(q) = Nodes(p) => Depth(q) <= Depth(p)
    BY <2>1, <2>2, <2>3 DEF KeyLess
  <2> QED
    BY <2>4, NoWorseFollows
<1>4. \/ Better(p, q) = p /\ ~ ScoreLess(q, p)
      \/ Better(p, q) = q /\ (p = None \/ ScoreLess(q, p))
  BY BetterIs
<1>5. MayFollow(<<engine, job>>, p, p) /\ MayFollow(<<engine, job>>, q, q) /\ p # None
  BY <1>1, ProgramFacts
<1>6. CASE Better(p, q) = p /\ ~ ScoreLess(q, p)
  BY <1>2, <1>5, <1>6
<1>7. CASE Better(p, q) = q /\ ScoreLess(q, p)
  BY <1>3, <1>5, <1>7
<1> QED
  BY <1>4, <1>5, <1>6, <1>7

\* In a bisection before the first candidate, what is found is no worse than the incumbent.
LEMMA LoweredFollows ==
  ASSUME Bounds, found = <<>>, Lowered, best # None
  PROVE  MayFollow(<<engine, job>>, best', best) /\ best' \in Legal
<1>1. /\ Typed /\ UpperBound /\ Sharp /\ Bounded /\ Bases
      /\ ans = "feasible" /\ phase \in Bisected /\ best' = Merge(cand)
      /\ lo < hi /\ lo \in Nat /\ hi \in Nat /\ best \in Legal
  BY AnsweredQuiet, IncumbentFacts DEF Bounds, Bounded, Lowered, Answered, Typed, Bases, Answers,
                                       Querying, Bisected
<1>2. Mid \in Nat /\ Mid < hi
  BY <1>1, MidBetween
<1>3. cand \in Legal
  BY <1>1, CandidateFacts
<1>4. CASE Merge(cand) = best
  <2>1. Better(best, best) = best
    BY DEF Better
  <2> QED
    BY <1>1, <1>4, <2>1, BetterFollows
<1>5. CASE Merge(cand) = cand
  <2>1. /\ Errors(cand) \in Nat /\ Nodes(cand) \in Nat /\ Depth(cand) \in Nat
        /\ Errors(best) \in Nat /\ Nodes(best) \in Nat /\ Depth(best) \in Nat
    BY <1>1, CandidateFacts, IncumbentFacts
  <2>2. CASE phase = "errors"
    <3>1. Errors(cand) < Errors(best)
      BY <1>1, <1>2, <2>1, <2>2, CandidateFacts DEF UpperBound
    <3> QED
      BY <1>1, <1>3, <1>5, <2>1, <3>1, NoWorseFollows
  <2>3. CASE phase = "score"
    <3>1. /\ Score(cand) = Total(Errors(cand), Nodes(cand)) /\ Score(cand) \in Nat
          /\ Score(best) = Total(Errors(best), Nodes(best)) /\ Score(best) \in Nat
          /\ Nodes(cand) \in 1 .. MaxNodes /\ Nodes(best) \in 1 .. MaxNodes
          /\ Score(cand) <= Mid /\ Score(best) = hi
      BY <1>1, <2>3, CandidateFacts, IncumbentFacts DEF UpperBound
    <3>2. ~ (Total(Errors(cand), Nodes(cand)) >= Total(Errors(best), Nodes(best)))
      BY <1>1, <1>2, <3>1
    <3>3. ~ (Errors(cand) > Errors(best) \/ (Errors(cand) = Errors(best) /\ Nodes(cand) >= Nodes(best)))
      BY <1>1, <2>1, <3>1, <3>2, TotalOrder
    <3> QED
      BY <1>1, <1>3, <1>5, <2>1, <3>3, NoWorseFollows
  <2>4. CASE phase = "nodes"
    <3>1. Errors(best) = cap.err /\ Nodes(best) = hi
      BY <1>1, <2>4 DEF Sharp, UpperBound
    <3>2. Errors(cand) <= Errors(best) /\ Nodes(cand) < Nodes(best)
      BY <1>1, <1>2, <2>1, <2>4, <3>1, CandidateFacts
    <3> QED
      BY <1>1, <1>3, <1>5, <2>1, <3>2, NoWorseFollows
  <2>5. CASE phase = "depth"
    <3>1. Errors(best) = cap.err /\ Nodes(best) = cap.nodes
      BY <1>1, <2>5 DEF Sharp
    <3>2. Errors(cand) <= Errors(best) /\ Nodes(cand) <= Nodes(best)
      BY <1>1, <2>5, <3>1, CandidateFacts
    <3>3. engine \notin SkeletonEngines => Depth(cand) <= Depth(best)
      <4>1. engine \notin SkeletonEngines => Depth(best) = hi
        BY <1>1, <2>1, <2>5, <3>1, EngineIs DEF UpperBound
      <4> QED
        BY <1>1, <1>2, <2>1, <2>5, <4>1, CandidateFacts
    <3> QED
      BY <1>1, <1>3, <1>5, <2>1, <3>2, <3>3, NoWorseFollows
  <2>6. CASE phase = "canon"
    <3>1. Errors(best) = cap.err /\ Nodes(best) = cap.nodes /\ Depth(best) = cap.depth
      BY <1>1, <2>6 DEF Sharp
    <3>2. Errors(cand) <= Errors(best) /\ Nodes(cand) <= Nodes(best) /\ Depth(cand) <= Depth(best)
      BY <1>1, <2>6, <3>1, CandidateFacts
    <3> QED
      BY <1>1, <1>3, <1>5, <2>1, <3>2, NoWorseFollows
  <2> QED
    BY <1>1, <2>2, <2>3, <2>4, <2>5, <2>6 DEF Bisected
<1> QED
  BY <1>4, <1>5, MergeIs

\* Before the first candidate every new incumbent is a program no worse than the last.
LEMMA ImprovedFollows ==
  ASSUME Bounds, found = <<>>, AnyFound \/ ExactFound \/ Bracketed \/ Lowered \/ Witnessed
  PROVE  best' \in Legal /\ (best = None \/ MayFollow(<<engine, job>>, best', best))
<1>1. Typed /\ Bases /\ ans = "feasible" /\ (best' = cand \/ best' = Merge(cand))
  BY DEF Bounds, Typed, AnyFound, ExactFound, Bracketed, Lowered, Witnessed, Answered
<1>2. cand \in Legal /\ (best = None \/ best \in Legal)
  BY <1>1, CandidateFacts DEF Typed, Incumbents
<1>3. best' \in Legal
  BY <1>1, <1>2, MergeIs
<1> SUFFICES ASSUME best # None PROVE MayFollow(<<engine, job>>, best', best)
  BY <1>3
<1>4. CASE AnyFound \/ Bracketed
  <2>1. best = None
    BY <1>1, <1>4 DEF AnyFound, Bracketed, Typed, Incumbents
  <2> QED
    BY <2>1
<1>5. CASE ExactFound
  <2>1. engine = "feasible_first" /\ phase = "exact" /\ best' = Merge(cand)
    BY <1>1, <1>5 DEF ExactFound, Typed, Incumbents
  <2>2. Merge(cand) = Better(best, cand)
    BY <2>1 DEF Merge
  <2> QED
    BY <1>1, <1>2, <2>1, <2>2, BetterFollows
<1>6. CASE Witnessed
  <2>1. best = None
    BY <1>6 DEF Witnessed, Bounds, Sharp, Bounded
  <2> QED
    BY <2>1
<1>7. CASE Lowered
  BY <1>7, LoweredFollows
<1> QED
  BY <1>4, <1>5, <1>6, <1>7

\* What an optimization returns is no worse than its incumbent.
LEMMA StopsWith ==
  ASSUME Typed, NEW p, NEW c, NEW reason, Returned(p, c, reason),
         p = best \/ (p = Better(base, best) /\ phase = "canon")
  PROVE  \/ best = None /\ found' = found /\ phase' = "done" /\ best' = best
         \/ /\ best \in Legal /\ p \in Legal /\ MayFollow(<<engine, job>>, p, best)
            /\ found' = Append(found, [program |-> p, complete |-> c])
<1>1. /\ Bases /\ {best, base} \subseteq Legal \cup {None}
      /\ phase = "canon" => best \in Legal /\ base \in Legal
  BY DEF Typed, Incumbents
<1>2. CASE p = None
  <2>1. best = None
    BY <1>1, <1>2, BetterFollows, ProgramFacts
  <2>2. found' = found /\ Stopped(found, reason)
    BY <1>2, ReturnedAppends
  <2> QED
    BY <2>1, <2>2 DEF Stopped
<1>3. CASE p # None
  <2>1. found' = Append(found, [program |-> p, complete |-> c])
    BY <1>3, ReturnedAppends
  <2>2. CASE p = best
    <3>1. best \in Legal /\ Better(best, best) = best
      BY <1>1, <1>3, <2>2 DEF Better
    <3> QED
      BY <1>1, <2>1, <2>2, <3>1, BetterFollows
  <2>3. CASE p = Better(base, best) /\ phase = "canon"
    BY <1>1, <2>1, <2>3, BetterFollows
  <2> QED
    BY <2>2, <2>3
<1> QED
  BY <1>2, <1>3

\* Before the first candidate a step improves the incumbent or keeps it, ends the search
\* without one, or returns a program as good, and the best there is if it was not interrupted.
LEMMA FirstStep ==
  ASSUME Bounds, found = <<>>, Next
  PROVE  \/ found' = <<>> /\ phase' # "done" /\ best' = best
         \/ /\ found' = <<>> /\ phase' # "done" /\ best' \in Legal
            /\ best = None \/ MayFollow(<<engine, job>>, best', best)
         \/ found' = <<>> /\ phase' = "done" /\ best = None /\ best' = None
         \/ \E p \in Legal, c \in BOOLEAN :
              /\ found' = Append(found, [program |-> p, complete |-> c])
              /\ best # None /\ MayFollow(<<engine, job>>, p, best)
              /\ c => \A q \in Legal : ~ KeyLess(Key(q), Key(p))
<1>1. Typed /\ Searching
  BY NextSearches DEF Bounds
<1>2. \A q \in Legal : q # None
  BY <1>1, ProgramFacts DEF Typed
<1>3. CASE Solver
  <2>1. CASE Propose
    <3>1. found' = found /\ best' = best
      BY <1>1, <2>1, Proposals
    <3>2. phase' # "done"
      BY <1>1, <2>1, Zenon DEF Propose, Searching
    <3> QED
      BY <3>1, <3>2
  <2> QED
    BY <1>1, <1>3, <2>1 DEF Solver, Refute, GiveUp, SolverCalled, outcome, Searching
<1>4. CASE AnyFound \/ ExactFound \/ Bracketed \/ Lowered \/ Witnessed
  <2>1. found' = <<>> /\ phase' # "done"
    <3>1. found' = found
      BY <1>4 DEF AnyFound, ExactFound, Bracketed, Lowered, Witnessed, outcome
    <3>2. phase' # "done"
      BY <1>1, <1>4 DEF AnyFound, ExactFound, Bracketed, Lowered, Witnessed, Tightens, TightensNodes,
                        Searching
    <3> QED
      BY <3>1, <3>2
  <2> QED
    BY <1>4, <2>1, ImprovedFollows
<1>5. CASE NothingExact \/ NotBracketed \/ Raised
           \/ ErrorsClosed \/ ScoreClosed \/ NodesClosed \/ DepthClosed
  <2>1. found' = <<>> /\ best' = best
    BY <1>5 DEF NothingExact, NotBracketed, Raised, ErrorsClosed, ScoreClosed, NodesClosed, DepthClosed,
                outcome
  <2>2. phase' # "done"
    <3>1. CASE NothingExact
      <4>1. Bases /\ PhasesOfEngine /\ phase = "exact"
        BY <1>1, <3>1 DEF Typed, NothingExact
      <4>2. engine \in SkeletonEngines \/ engine = "cegis" \/ engine = "feasible_first"
        BY <4>1, EngineIs DEF PhasesOfEngine, SkeletonEngines
      <4> QED
        BY <3>1, <4>2 DEF NothingExact, Tightens, SkeletonEngines
    <3>2. CASE NotBracketed \/ Raised
      BY <1>1, <3>2 DEF NotBracketed, Raised, Searching
    <3>3. CASE ErrorsClosed \/ ScoreClosed \/ NodesClosed \/ DepthClosed
      BY <3>3 DEF ErrorsClosed, ScoreClosed, NodesClosed, DepthClosed, Tightens, TightensNodes, TightensDepth
    <3> QED
      BY <1>5, <3>1, <3>2, <3>3
  <2> QED
    BY <2>1, <2>2
<1>6. CASE Interrupted \/ NoneLeft
  <2>1. PICK p, r : Returned(p, FALSE, r) /\ (p = best \/ (p = Better(base, best) /\ phase = "canon"))
    BY <1>6, Zenon DEF Interrupted, NoneLeft
  <2> QED
    BY <1>1, <1>2, <2>1, StopsWith
<1>7. CASE DigitClosed
  <2>1. phase = "canon" /\ best # None /\ base # None /\ {best, base} \subseteq Legal \cup {None}
    BY <1>1, <1>7, ClosedQuiet DEF DigitClosed, Bisected, Typed, Incumbents
  <2>2. CASE Len(fixed) + 1 # Len(Preorder(best))
    BY <1>7, <2>1, <2>2 DEF DigitClosed, outcome
  <2>3. CASE Len(fixed) + 1 = Len(Preorder(best))
    <3> DEFINE p == IF engine = "feasible_first" THEN Better(base, best) ELSE best
    <3>1. Returned(p, TRUE, "candidate")
      BY <1>7, <2>3 DEF DigitClosed
    <3>2. (p = best \/ p = Better(base, best)) /\ p \in {best, base}
      BY BetterIs
    <3> HIDE DEF p
    <3>3. /\ p \in Legal /\ MayFollow(<<engine, job>>, p, best)
          /\ found' = Append(found, [program |-> p, complete |-> TRUE])
      BY <1>1, <2>1, <3>1, <3>2, StopsWith
    <3>4. \A q \in Legal : ~ KeyLess(Key(q), Key(p))
      BY <1>1, <2>1, <3>2, <3>3, AllFresh, CompletedIsBest DEF Bounds
    <3> QED
      BY <2>1, <3>3, <3>4
  <2> QED
    BY <2>2, <2>3
<1> QED
  BY <1>3, <1>4, <1>5, <1>6, <1>7 DEF Next, Optimizer

\* A candidate once returned is the choice for good.
LEMMA ReturnedStays ==
  ASSUME Typed, [Next]_vars, found # <<>>
  PROVE  UNCHANGED <<engine, job, Incumbent, Promise>>
<1>1. UNCHANGED <<engine, job>> /\ (found' = found \/ \E c : found' = Append(found, c))
  BY Appended
<1>2. found \in Seq([program : Legal, complete : BOOLEAN]) /\ Len(found) \in Nat /\ Len(found) >= 1
  BY EmptySeq DEF Typed, Candidates
<1>3. found' # <<>> /\ found'[1] = found[1]
  <2>1. CASE found' = found
    BY <2>1
  <2>2. ASSUME NEW c, found' = Append(found, c) PROVE found' # <<>> /\ found'[1] = found[1]
    <3> DEFINE S == [program : Legal, complete : BOOLEAN]
               R == S \cup {c}
    <3>1. found \in Seq(S)
      BY <1>2
    <3> HIDE DEF S
    <3>2. found \in Seq(R) /\ c \in R
      BY <3>1
    <3> HIDE DEF R
    <3> QED
      BY <1>2, <2>2, <3>2
  <2> QED
    BY <1>1, <2>1, <2>2
<1> QED
  BY <1>1, <1>3 DEF Incumbent, Promise

LEMMA ContractStep ==
  ASSUME Bounds, [Next]_vars
  PROVE  [Contract!Next]_(Contract!vars)
<1> DEFINE v == <<engine, job>>
<1>1. Typed /\ UNCHANGED <<engine, job>> /\ v' = v /\ Allowed(v) = Legal
  BY Appended DEF Bounds, Allowed, Legal
<1>2. CASE UNCHANGED vars
  BY <1>2 DEF vars, Contract!vars, Incumbent, Promise
<1>3. CASE found # <<>>
  BY <1>1, <1>3, ReturnedStays DEF Contract!vars
<1>4. CASE Next /\ found = <<>>
  <2>1. Incumbent = best /\ Promise = "open"
    BY <1>1, <1>4, NextSearches DEF Incumbent, Promise, Searching
  <2>2. CASE found' = <<>> /\ phase' # "done" /\ best' = best
    BY <1>1, <1>4, <2>1, <2>2, NextSearches DEF Contract!vars, Incumbent, Promise
  <2>3. CASE /\ found' = <<>> /\ phase' # "done" /\ best' \in Legal
             /\ best = None \/ MayFollow(v, best', best)
    <3>1. Incumbent' = best' /\ Promise' = "open"
      BY <2>3 DEF Incumbent, Promise
    <3> QED
      BY <1>1, <2>1, <2>3, <3>1 DEF Contract!Next, Contract!Improve, Contract!NotWorse
  <2>4. CASE found' = <<>> /\ phase' = "done" /\ best = None /\ best' = None
    <3>1. Incumbent' = None /\ Promise' = "none"
      BY <2>4 DEF Incumbent, Promise
    <3> QED
      BY <1>1, <2>1, <2>4, <3>1 DEF Contract!Next, Contract!GiveUp
  <2>5. ASSUME NEW p \in Legal, NEW c \in BOOLEAN,
               found' = Append(found, [program |-> p, complete |-> c]),
               best # None, MayFollow(v, p, best),
               c => \A q \in Legal : ~ KeyLess(Key(q), Key(p))
        PROVE  Contract!Next
    <3>1. found' # <<>> /\ found'[1] = [program |-> p, complete |-> c]
      BY <1>4, <2>5
    <3>2. Incumbent' = p /\ Promise' = IF c THEN "best" ELSE "some"
      BY <3>1 DEF Incumbent, Promise
    <3>3. CASE c
      <4>1. \A q \in Allowed(v) : ~ Beats(v, q, p)
        BY <1>1, <2>5, <3>3 DEF Beats, Key
      <4> QED
        BY <1>1, <2>1, <2>5, <3>2, <3>3, <4>1
           DEF Contract!Next, Contract!Finish, Contract!NotWorse, Contract!Optimal
    <3>4. CASE ~ c
      BY <1>1, <2>1, <2>5, <3>2, <3>4 DEF Contract!Next, Contract!GiveUp, Contract!NotWorse
    <3> QED
      BY <3>3, <3>4
  <2> QED
    BY <1>4, <2>2, <2>3, <2>4, <2>5, FirstStep
<1> QED
  BY <1>2, <1>3, <1>4

\* Until its first candidate, whatever the engine, a search only improves its incumbent, may
\* stop with it at any time, and returns an optimum if it was not interrupted; the candidate
\* is never taken back.
THEOREM SearchIsAnytime == Spec => ImplementsContract
<1>1. Bounds /\ [Next]_vars => [Contract!Next]_(Contract!vars)
  BY ContractStep
<1> QED
  BY <1>1, ContractInit, AlwaysBounds, PTL DEF Spec, ImplementsContract, Contract!Spec

===============================================================================
