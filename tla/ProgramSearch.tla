----------------------------- MODULE ProgramSearch -----------------------------
(***************************************************************************)
(* Program synthesis of V0.2: the search() of every engine in              *)
(* archimedes_v0/synthesis*.py.  An engine asks a solver for a program     *)
(* under bounds on the Hamming error, the node count, the depth and the    *)
(* preorder digits, and tightens one bound after the other by bisection.   *)
(*                                                                         *)
(*   skeleton        synthesis.py                    one problem, all      *)
(*   exact_first     synthesis_v02_runtime.py, _fast points encoded,       *)
(*   finite          synthesis_v02_finite.py         truth tables blocked  *)
(*   cegis           synthesis_v02_cegis.py          a working set that    *)
(*   lexscore        .._cegis_hardened, _lexscore    grows by counter-     *)
(*   feasible_first  .._partialperm, _feasiblefirst  examples, ASTs blocked*)
(*                                                                         *)
(* The CEGIS modules rebind one another's functions when they are          *)
(* imported, so which engine runs depends on the imports of the process;   *)
(* the module states what every one of them owes its caller.               *)
(*                                                                         *)
(* A solver call is one step: it refutes, proposes a model or gives up.    *)
(* The resource limit is what matters of it: some left or none, and        *)
(* whether the solver has reported that it ran out.                        *)
(***************************************************************************)
EXTENDS Integers, Sequences, FiniteSets, SequencesExt, FiniteSetsExt, LexOrder

CONSTANTS
  Engines,          \* the engines searched with
  Models,           \* what a solver may assign: selectors and tables
  Programs,         \* the expressions among them
  Space(_, _, _),   \* Space(engine, max_depth, pts): models of its problem on the points
  Decode(_, _, _, _),
                    \* Decode(engine, m, pts, same_name): the expression of a solver model, or
                    \* None if its permutation tables contradict one another over the names
  Root(_, _),       \* value of a model at a point
  Nodes(_),         \* node_count
  Depth(_),         \* depth
  Preorder(_),      \* selectors and table entries in preorder
  Serial(_),        \* canonical_ast, as digits that compare as the strings do
  AllPoints,        \* the points of a truth table
  Jobs,             \* arguments of a search: [obs, max_depth, limit, same_name]; an
                    \* observation is [pt, y], obs is in canonical order, and same_name
                    \* says that the latent has the name of the action
  None

SkeletonEngines == {"skeleton", "exact_first", "finite"}
CegisEngines == {"cegis", "lexscore", "feasible_first"}

ASSUME SearchConstants ==
  /\ Engines \subseteq SkeletonEngines \cup CegisEngines
  /\ Programs \subseteq Models
  /\ None \notin Programs \cup Nat /\ None # "unsat"
  /\ \A j \in Jobs : /\ DOMAIN j.obs = 1 .. Len(j.obs) /\ Len(j.obs) \in Nat \ {0}
                     /\ j.limit \in Nat \ {0} /\ j.max_depth \in Nat \ {0}
                     /\ j.same_name \in BOOLEAN

VARIABLES
  engine,   \* the engine of this invocation
  job,      \* its arguments
  work,     \* working_indices: all of them for the skeleton engines
  phase,    \* what is being asked: see Phases
  lo, hi,   \* the interval being bisected
  cap,      \* bounds established: [err, nodes, depth]
  fixed,    \* preorder digits fixed by the tie-break
  best,     \* the incumbent
  base,     \* the incumbent the tie-break started from
  cand,     \* the last program decoded from a model and checked on all observations
  ans,      \* answer of the solver not yet acted on, or "none"
  budget,   \* resources: "left", "spent" (remaining = 0), or the solver reported that it ran
            \* out of them, with something remaining ("refused") or nothing ("exhausted")
  found,    \* candidates: [program, complete]
  status    \* solver_status, None while searching

vars == <<engine, job, work, phase, lo, hi, cap, fixed, best, base, cand, ans, budget,
          found, status>>
interval == <<lo, hi>>
outcome == <<found, status>>

Bisected == {"errors", "score", "nodes", "depth", "canon"}
Phases == {"any", "exact", "bracket", "witness"} \cup Bisected \cup {"done", "raised"}

-------------------------------------------------------------------------------
(* Measures of a program.                                                  *)

obs == job.obs
MaxDepth == job.max_depth
MaxNodes == 2 ^ MaxDepth - 1          \* nodes of the syntax skeleton

\* evaluate_expr of an expression at a point.  Where the latent has the action's name its
\* environment holds the intervention only, while the solver told the two apart.
Evaluated(j, p, pt) == Root(p, IF j.same_name THEN <<pt[2], pt[2]>> ELSE pt)

Misses(m, i) == Root(m, obs[i].pt) # obs[i].y
WorkErrors(m) == Cardinality({k \in DOMAIN work : Misses(m, work[k])})
ErrorsIn(j, p) == Cardinality({i \in DOMAIN j.obs : Evaluated(j, p, j.obs[i].pt) # j.obs[i].y})
Errors(p) == ErrorsIn(job, p)

\* Lexicographic error and node count as one number.
Weight == MaxNodes + 1
Score(p) == Errors(p) * Weight + Nodes(p)
MaxScore == Len(obs) * Weight + MaxNodes

KeyIn(j, p) == <<ErrorsIn(j, p), Nodes(p), Depth(p)>>
Key(p) == KeyIn(job, p)
KeyLess(k, l) ==
  \/ k[1] < l[1]
  \/ k[1] = l[1] /\ k[2] < l[2]
  \/ k[1] = l[1] /\ k[2] = l[2] /\ k[3] < l[3]

\* _candidate_key, ties decided by the canonical_ast strings.
ScoreLess(p, q) ==
  KeyLess(Key(p), Key(q)) \/ (Key(p) = Key(q) /\ LexLess(Serial(p), Serial(q)))

Smaller(a, b) == IF a <= b THEN a ELSE b

Better(current, p) ==
  IF current = None \/ ScoreLess(p, current) THEN p ELSE current

\* An engine replaces its incumbent; feasible_first keeps the better of the two, but
\* not within the tie-break.
Merge(p) == IF engine = "feasible_first" /\ phase # "canon" THEN Better(best, p) ELSE p

-------------------------------------------------------------------------------
(* What a search relies on, of the grammar and of the encodings.           *)

LegalIn(j) == {p \in Programs : Depth(p) <= j.max_depth}
Legal == LegalIn(job)
SameTable(p, q) == \A k \in DOMAIN AllPoints : Root(p, AllPoints[k]) = Root(q, AllPoints[k])

\* The working sets a search can have, in the order their observations were added.
WorkingSets(e, j) ==
  IF e \in SkeletonEngines
  THEN {[i \in DOMAIN j.obs |-> i]}
  ELSE {w \in UNION {[1 .. n -> DOMAIN j.obs] : n \in DOMAIN j.obs} : w[1] = 1 /\ IsInjective(w)}
PointsOf(j, w) == [k \in DOMAIN w |-> j.obs[w[k]].pt]
SpaceOf(e, j, w) == Space(e, j.max_depth, PointsOf(j, w))

\* The nodes of a program fit the skeleton, its preorder ends where its last leaf does, and
\* the points of the observations are rows of the truth table.
ASSUME ProgramsMeasured ==
  \A j \in Jobs :
    /\ 2 ^ j.max_depth - 1 \in Nat
    /\ LegalIn(j) # {}
    /\ \A p \in LegalIn(j) :
         /\ Nodes(p) \in 1 .. 2 ^ j.max_depth - 1 /\ Depth(p) \in 1 .. j.max_depth
         /\ Preorder(p) \in Seq(Nat) \ {<<>>}
         /\ \A q \in LegalIn(j) : ~ IsStrictPrefix(Preorder(p), Preorder(q))
    /\ \A i \in DOMAIN j.obs : j.obs[i].pt \in Range(AllPoints)

\* A model fits the skeleton.  What it decodes to is a program with its syntax, up to the
\* tables of permute nodes and to the names; where the names differ it has the model's values
\* on the working set.  The skeleton engines take a model as it is.
ASSUME ModelsDecode ==
  \A e \in Engines, j \in Jobs : \A w \in WorkingSets(e, j) : \A m \in SpaceOf(e, j, w) :
    LET p == Decode(e, m, PointsOf(j, w), j.same_name)
    IN  /\ Nodes(m) \in 1 .. 2 ^ j.max_depth - 1 /\ Depth(m) \in 1 .. j.max_depth
        /\ Preorder(m) \in Seq(Nat)
        /\ p # None => /\ p \in LegalIn(j)
                       /\ Nodes(p) = Nodes(m) /\ Depth(p) = Depth(m)
                       /\ Len(Preorder(p)) = Len(Preorder(m))
        /\ ~ j.same_name => /\ p # None
                            /\ \A k \in DOMAIN w :
                                 Root(p, j.obs[w[k]].pt) = Root(m, j.obs[w[k]].pt)
                            /\ e \in SkeletonEngines => p = m

\* The order imposed on the children of commutative nodes loses no meaning.
ASSUME ProgramsEncoded ==
  \A e \in Engines, j \in Jobs : \A w \in WorkingSets(e, j) : \A p \in LegalIn(j) :
    \E m \in SpaceOf(e, j, w) : SameTable(m, p) /\ Nodes(m) = Nodes(p) /\ Depth(m) = Depth(p)

\* One observation more constrains the models further.
ASSUME ObservationsConstrain ==
  \A e \in Engines \ SkeletonEngines, j \in Jobs : \A w \in WorkingSets(e, j) :
    \A i \in DOMAIN j.obs \ Range(w) : SpaceOf(e, j, Append(w, i)) \subseteq SpaceOf(e, j, w)

\* Where both variables have one name, some program over the action alone has the values of
\* an expression.
ASSUME ProgramsShadowed ==
  \A j \in Jobs : j.same_name =>
    \A p \in LegalIn(j) : \E q \in LegalIn(j) :
      /\ Nodes(q) = Nodes(p) /\ Depth(q) = Depth(p)
      /\ \A i \in DOMAIN j.obs : Root(q, j.obs[i].pt) = Evaluated(j, p, j.obs[i].pt)

-------------------------------------------------------------------------------
(* The solver.                                                             *)

Querying == phase \in {"any", "exact", "bracket", "witness"} \/ (phase \in Bisected /\ lo < hi)

Mid == (lo + hi) \div 2
\* Mutant: the structural phases forget the error bound.
ErrorBoundForgotten ==
  CASE phase = "exact" -> 0 [] phase = "errors" -> Mid [] phase = "witness" -> lo
    [] OTHER -> Len(obs)

ErrorBound ==
  CASE phase = "exact" -> 0 [] phase = "errors" -> Mid [] phase = "witness" -> lo
    [] OTHER -> cap.err
ScoreBound == IF phase = "bracket" THEN hi ELSE Mid
Scored == phase \in {"bracket", "score"}

\* A program blocked: its encoded AST, or for the skeleton engines its truth table.
Blocked(m, p) ==
  IF engine \in CegisEngines THEN m = p
  ELSE \A k \in DOMAIN AllPoints : Root(m, AllPoints[k]) = Root(p, AllPoints[k])

Within(value, bound) == bound = None \/ value <= bound

Asked(m) ==
  /\ IF Scored THEN WorkErrors(m) * Weight + Nodes(m) <= ScoreBound
               ELSE WorkErrors(m) <= ErrorBound
  /\ Within(Nodes(m), IF phase = "nodes" THEN Mid ELSE cap.nodes)
  /\ Within(Depth(m), IF phase = "depth" THEN Mid ELSE cap.depth)
  /\ phase = "canon" => /\ IsStrictPrefix(fixed, Preorder(m))
                        /\ Preorder(m)[Len(fixed) + 1] <= Mid
  /\ \A k \in DOMAIN found : ~ Blocked(m, found[k].program)

WorkPoints == PointsOf(job, work)
Feasible == {m \in Space(engine, MaxDepth, WorkPoints) : Asked(m)}

\* The expression of a model, over the names of the job.
Decoded(m) == Decode(engine, m, WorkPoints, job.same_name)

\* assert_model_soundness: the expression has the model's values on the working set.
Sound(m, p) ==
  p # None /\ \A k \in DOMAIN work : Evaluated(job, p, obs[work[k]].pt) = Root(m, obs[work[k]].pt)

\* Mutant: a model of the working set is taken at its word.
AcceptedUnverified(p) == TRUE

\* Verified on all the observations: only the error, or the score, is compared.
Accepted(p) == IF Scored THEN Score(p) <= ScoreBound ELSE Errors(p) <= ErrorBound

Counterexamples(p) ==
  {i \in DOMAIN obs : i \notin Range(work) /\ Evaluated(job, p, obs[i].pt) # obs[i].y}

SolverCalled ==
  /\ Querying /\ ans = "none"
  /\ UNCHANGED <<engine, job, phase, interval, cap, fixed, best, base, outcome>>

Refute ==
  /\ SolverCalled /\ budget = "left"
  /\ Feasible = {}
  /\ ans' = "infeasible"
  /\ budget' \in {"left", "spent"}
  /\ UNCHANGED <<work, cand>>

Propose ==
  /\ Querying /\ ans = "none" /\ budget = "left"
  /\ \E m \in Feasible :
       LET p == Decoded(m)
       IN  /\ cand' = p
           /\ CASE Sound(m, p) /\ Accepted(p) ->
                     ans' = "feasible" /\ UNCHANGED <<work, phase>>
                [] Sound(m, p) /\ ~ Accepted(p) /\ Counterexamples(p) # {} ->
                     /\ work' = Append(work, Min(Counterexamples(p)))
                     /\ UNCHANGED <<ans, phase>>
                [] OTHER -> phase' = "raised" /\ UNCHANGED <<ans, work>>
  /\ budget' \in {"left", "spent"}
  /\ UNCHANGED <<engine, job, interval, cap, fixed, best, base, outcome>>

\* Without resources left the CEGIS oracle answers by itself and reports nothing; the
\* skeleton engines report an unknown as exhausted if it is about resources, also where
\* one query gave up before the limit of the search was reached.
GiveUp ==
  /\ SolverCalled
  /\ ans' = "unknown"
  /\ budget' \in
       IF engine \in CegisEngines
       THEN IF budget = "left" THEN {"exhausted"} ELSE {budget}
       ELSE IF budget = "left" THEN {"left", "refused", "exhausted"} ELSE {"exhausted"}
  /\ UNCHANGED <<work, cand>>

-------------------------------------------------------------------------------
(* Returning a candidate, and starting on the next.                        *)

FirstPhase(e) ==
  CASE e \in {"skeleton", "feasible_first"} -> "any"
    [] e \in {"exact_first", "finite", "cegis"} -> "exact"
    [] e = "lexscore" -> "bracket"

NoCap == [err |-> Len(obs), nodes |-> None, depth |-> None]

Restarted ==
  /\ phase' = FirstPhase(engine)
  /\ lo' = 1 /\ hi' = 1
  /\ cap' = NoCap
  /\ fixed' = <<>> /\ best' = None /\ base' = None

\* The status of a finished search, after reason made the last optimization stop:
\* "unsat", "unknown" or "candidate".
SkeletonStatus(cands, reason) ==
  CASE engine # "finite" /\ budget \in {"spent", "exhausted"} /\ Len(cands) < job.limit ->
         IF cands = <<>> THEN "unknown" ELSE "resource_exhausted_with_candidate"
    [] OTHER ->
         CASE reason = "unknown" -> "unknown"
           [] reason = "unsat" ->
                IF cands = <<>> \/ engine = "finite" THEN "unsat" ELSE "sat"
           [] reason = "candidate" ->
                IF budget \in {"refused", "exhausted"}
                THEN "resource_exhausted_with_candidate" ELSE "sat"

\* Mutant: exhaustion is not looked at.
CegisStatusUnbudgeted(cands, allComplete) ==
  IF cands = <<>> THEN "unsat"
  ELSE IF allComplete THEN "sat" ELSE "sat_incomplete_optimization"

CegisStatus(cands, allComplete) ==
  CASE budget = "exhausted" ->
         IF cands = <<>> THEN "unknown" ELSE "resource_exhausted_with_candidate"
    [] OTHER ->
         IF cands = <<>> THEN "unsat"
         ELSE IF allComplete THEN "sat" ELSE "sat_incomplete_optimization"

Stopped(cands, reason) ==
  /\ phase' = "done"
  /\ status' = IF engine \in CegisEngines
               THEN CegisStatus(cands, /\ reason = "candidate"
                                       /\ \A k \in DOMAIN cands : cands[k].complete)
               ELSE SkeletonStatus(cands, reason)
  /\ UNCHANGED <<interval, cap, fixed, best, base>>

\* Mutant: one candidate more than the limit.
ReturnedPastLimit(p, complete, reason) ==
  IF p = None
  THEN found' = found /\ Stopped(found, reason)
  ELSE LET cands == Append(found, [program |-> p, complete |-> complete])
           goesOn == /\ Len(cands) <= job.limit
                     /\ IF engine \in CegisEngines
                        THEN complete /\ budget # "exhausted"
                        ELSE budget = "left"
       IN  /\ found' = cands
           /\ IF goesOn THEN Restarted /\ UNCHANGED status ELSE Stopped(cands, "candidate")

\* For the skeleton engines complete is not reported; it is kept to say what a search
\* that was not interrupted has found.
Returned(p, complete, reason) ==
  IF p = None
  THEN found' = found /\ Stopped(found, reason)
  ELSE LET cands == Append(found, [program |-> p, complete |-> complete])
           goesOn == /\ Len(cands) < job.limit
                     /\ IF engine \in CegisEngines
                        THEN complete /\ budget # "exhausted"
                        ELSE budget = "left"
       IN  /\ found' = cands
           /\ IF goesOn THEN Restarted /\ UNCHANGED status ELSE Stopped(cands, "candidate")

-------------------------------------------------------------------------------
(* Acting on an answer.                                                    *)

Answered(a) ==
  /\ ans = a /\ ans' = "none"
  /\ UNCHANGED <<engine, job, work, cand, budget>>

Tightens(objective, low, high) ==
  /\ phase' = objective /\ lo' = low /\ hi' = high

TightensNodes(p, err) ==
  /\ Tightens("nodes", 1, Nodes(p))
  /\ cap' = [cap EXCEPT !.err = err]

\* Mutant: an unknown passes for a refutation of anything better.
InterruptedComplete ==
  /\ Answered("unknown")
  /\ Returned(IF engine = "feasible_first" /\ phase = "canon" THEN Better(base, best) ELSE best,
              TRUE, "unknown")

\* Any unknown ends the optimization with the incumbent it has.
Interrupted ==
  /\ Answered("unknown")
  /\ Returned(IF engine = "feasible_first" /\ phase = "canon" THEN Better(base, best) ELSE best,
              FALSE, "unknown")

AnyFound ==
  /\ phase = "any" /\ Answered("feasible")
  /\ best' = cand
  /\ IF engine = "feasible_first"
     THEN phase' = "exact" /\ UNCHANGED interval
     ELSE Tightens("errors", 0, Errors(cand))
  /\ UNCHANGED <<cap, fixed, base, outcome>>

\* The blocked programs leave none.
NoneLeft ==
  /\ phase \in {"any", "witness"} \/ (phase = "bracket" /\ hi >= MaxScore)
  /\ Answered("infeasible")
  /\ Returned(best, FALSE, "unsat")

ExactFound ==
  /\ phase = "exact" /\ Answered("feasible")
  /\ best' = Merge(cand)
  /\ IF Errors(Merge(cand)) = 0
     THEN TightensNodes(Merge(cand), 0)
     ELSE phase' = "raised" /\ UNCHANGED <<interval, cap>>
  /\ UNCHANGED <<fixed, base, outcome>>

NothingExact ==
  /\ phase = "exact" /\ Answered("infeasible")
  /\ CASE engine \in SkeletonEngines -> phase' = "any" /\ UNCHANGED interval
       [] engine = "cegis" -> Tightens("errors", 1, Len(obs))
       [] engine = "feasible_first" -> Tightens("errors", 1, Errors(best))
  /\ UNCHANGED <<cap, fixed, best, base, outcome>>

\* lexscore: double the score until it is feasible.
Bracketed ==
  /\ phase = "bracket" /\ Answered("feasible")
  /\ best' = cand
  /\ Tightens("score", lo, Smaller(hi, Score(cand)))
  /\ UNCHANGED <<cap, fixed, base, outcome>>

NotBracketed ==
  /\ phase = "bracket" /\ hi < MaxScore /\ Answered("infeasible")
  /\ lo' = hi + 1 /\ hi' = Smaller(MaxScore, 2 * hi)
  /\ UNCHANGED <<phase, cap, fixed, best, base, outcome>>

Measure(p) ==
  CASE phase = "errors" -> Errors(p) [] phase = "score" -> Score(p)
    [] phase = "nodes" -> Nodes(p) [] phase = "depth" -> Depth(p)
    [] phase = "canon" -> Preorder(p)[Len(fixed) + 1]

\* The solver's effective_depth is bounded below by the depth of the program only.
Lowered ==
  /\ phase \in Bisected /\ Answered("feasible")
  /\ best' = Merge(cand)
  /\ hi' \in IF phase = "depth" /\ engine \in SkeletonEngines THEN Depth(cand) .. Mid
             ELSE {Smaller(Mid, Measure(cand))}
  /\ UNCHANGED <<phase, lo, cap, fixed, base, outcome>>

\* Mutant: a refuted midpoint stays in the interval.
RaisedOffByOne ==
  /\ phase \in Bisected /\ Answered("infeasible")
  /\ lo' = Mid
  /\ UNCHANGED <<phase, hi, cap, fixed, best, base, outcome>>

Raised ==
  /\ phase \in Bisected /\ Answered("infeasible")
  /\ lo' = Mid + 1
  /\ UNCHANGED <<phase, hi, cap, fixed, best, base, outcome>>

\* cegis knows the least error and may have no program with it yet.
Witnessed ==
  /\ phase = "witness" /\ Answered("feasible")
  /\ best' = Merge(cand)
  /\ IF Errors(Merge(cand)) = lo
     THEN TightensNodes(Merge(cand), lo)
     ELSE phase' = "raised" /\ UNCHANGED <<interval, cap>>
  /\ UNCHANGED <<fixed, base, outcome>>

-------------------------------------------------------------------------------
(* An interval that has closed.                                            *)

Closed(objective) ==
  /\ phase = objective /\ lo >= hi /\ ans = "none"
  /\ UNCHANGED <<engine, job, work, cand, ans, budget>>

ErrorsClosed ==
  /\ Closed("errors")
  /\ IF best = None \/ Errors(best) # lo
     THEN phase' = "witness" /\ UNCHANGED <<interval, cap>>
     ELSE TightensNodes(best, lo)
  /\ UNCHANGED <<fixed, best, base, outcome>>

\* Where the incumbent does not realize the bound, the engines that assert it ask for a
\* witness first, and cegis and the skeleton engines go on with the bound: NeverRaises
\* says that it always does.
Realized(err, nodes, depth) ==
  Errors(best) = err /\ Nodes(best) = nodes /\ (depth = None \/ Depth(best) = depth)

TightensDepth(err, nodes) ==
  /\ phase' = "depth" /\ lo' = 1
  /\ hi' \in IF engine \in SkeletonEngines THEN Depth(best) .. MaxDepth ELSE {Depth(best)}
  /\ cap' = [cap EXCEPT !.err = err, !.nodes = nodes]

ScoreClosed ==
  /\ Closed("score")
  /\ IF Realized(lo \div Weight, lo % Weight, None)
     THEN TightensDepth(lo \div Weight, lo % Weight)
     ELSE phase' = "raised" /\ UNCHANGED <<interval, cap>>
  /\ UNCHANGED <<fixed, best, base, outcome>>

NodesClosed ==
  /\ Closed("nodes")
  /\ IF Realized(cap.err, lo, None)
     THEN TightensDepth(cap.err, lo)
     ELSE phase' = "raised" /\ UNCHANGED <<interval, cap>>
  /\ UNCHANGED <<fixed, best, base, outcome>>

DepthClosed ==
  /\ Closed("depth")
  /\ cap' = [cap EXCEPT !.depth = lo]
  /\ IF Realized(cap.err, cap.nodes, lo)
     THEN Tightens("canon", 0, Preorder(best)[1])
     ELSE phase' = "raised" /\ UNCHANGED interval
  /\ base' = best
  /\ UNCHANGED <<fixed, best, outcome>>

\* Mutant: only the root's selector is minimized.
DigitClosedAtRoot ==
  /\ Closed("canon")
  /\ Returned(IF engine = "feasible_first" THEN Better(base, best) ELSE best, TRUE, "candidate")

\* The next digit in preorder, until the expression has no more.
DigitClosed ==
  /\ Closed("canon")
  /\ IF Len(fixed) + 1 = Len(Preorder(best))
     THEN Returned(IF engine = "feasible_first" THEN Better(base, best) ELSE best, TRUE, "candidate")
     ELSE /\ fixed' = Append(fixed, hi)
          /\ lo' = 0 /\ hi' = Preorder(best)[Len(fixed) + 2]
          /\ UNCHANGED <<phase, cap, best, base, outcome>>

-------------------------------------------------------------------------------
(* The specification.                                                      *)

Init ==
  /\ engine \in Engines
  /\ job \in Jobs
  \* Bound: the orchestrators search with the CEGIS engines, and only an orchestrator
  \* passes on the name an agent chose.
  /\ job.same_name => engine \in CegisEngines
  /\ work = IF engine \in SkeletonEngines THEN [i \in DOMAIN obs |-> i] ELSE <<1>>
  /\ phase = FirstPhase(engine)
  /\ lo = 1 /\ hi = 1
  /\ cap = NoCap
  /\ fixed = <<>> /\ best = None /\ base = None
  /\ cand = None /\ ans = "none" /\ budget = "left"
  /\ found = <<>> /\ status = None

Solver == Refute \/ Propose \/ GiveUp
Optimizer ==
  \/ Interrupted \/ NoneLeft \/ AnyFound \/ ExactFound \/ NothingExact
  \/ Bracketed \/ NotBracketed \/ Lowered \/ Raised \/ Witnessed
  \/ ErrorsClosed \/ ScoreClosed \/ NodesClosed \/ DepthClosed \/ DigitClosed

Next == Solver \/ Optimizer

\* search() is one call: it runs until it returns, and every solver call returns.
Spec == Init /\ [][Next]_vars /\ WF_vars(Next)

-------------------------------------------------------------------------------
(* Properties.                                                             *)

\* Legal programs that mean something else than the candidates before the k-th.
Fresh(k) == {p \in Legal : \A j \in 1 .. k - 1 : ~ SameTable(p, found[j].program)}

\* Variables keep their types, and a phase has the state it needs.
TypeOK ==
  /\ engine \in Engines /\ job \in Jobs
  /\ work \in Seq(DOMAIN obs) /\ work # <<>>
  /\ phase \in Phases
  /\ lo \in Nat /\ hi \in Nat
  /\ cap.err \in 0 .. Len(obs) /\ {cap.nodes, cap.depth} \subseteq Nat \cup {None}
  /\ {best, base, cand} \subseteq Legal \cup {None}
  /\ ans \in {"none", "feasible", "infeasible", "unknown"}
  /\ budget \in {"left", "spent", "refused", "exhausted"}
  /\ found \in Seq([program : Legal, complete : BOOLEAN]) /\ Len(found) <= job.limit
  /\ ans = "feasible" => cand # None
  /\ phase \in {"score", "nodes", "depth", "canon"} => best # None
  /\ (engine = "feasible_first" /\ phase \in {"exact", "errors"}) => best # None
  /\ (phase = "errors" /\ engine # "cegis") => best # None
  /\ phase = "canon" => base # None

\* A search that is not interrupted returns a program with the least error, then the
\* fewest nodes, then the least depth, of all programs of the grammar that mean
\* something else than its earlier candidates, however the working set grew, the
\* intervals were halved and the phases were ordered.
CompleteIsOptimal ==
  \A k \in DOMAIN found : (status # None /\ found[k].complete /\ ~ job.same_name) =>
    \A p \in Fresh(k) : ~ KeyLess(Key(p), Key(found[k].program))

\* The incumbent realizes the bound that an interval of scores, node counts or depths
\* closes on, in every engine, over any names and after any number of candidates.
ClosesOnIncumbent ==
  lo >= hi =>
    CASE phase = "score" -> Realized(lo \div Weight, lo % Weight, None)
      [] phase = "nodes" -> Realized(cap.err, lo, None)
      [] phase = "depth" -> Realized(cap.err, cap.nodes, lo)
      [] OTHER -> TRUE

\* Where latent and action have different names, none of the engines' internal assertions
\* fails before the first candidate, nor ever but in feasible_first: a program that
\* violates a bound is refuted by an observation outside the working set.  The assertions
\* at the end of the structural phases fail in no case at all, so that what feasible_first
\* can fail later, or under one name, is the error phase or a solver model.
NeverRaises ==
  /\ phase = "raised" => job.same_name \/ (engine = "feasible_first" /\ found # <<>>)
  /\ ClosesOnIncumbent

\* The engines that encode all points return the least expression in preorder, selector
\* first, of those that are as good.
PreorderMinimal ==
  \A k \in DOMAIN found :
    (status # None /\ found[k].complete /\ engine \in SkeletonEngines) =>
    \A p \in Space(engine, MaxDepth, WorkPoints) \cap Fresh(k) :
      Key(p) = Key(found[k].program) => ~ LexLess(Preorder(p), Preorder(found[k].program))

\* The grammar always has a program: a search that reports unsat without a candidate
\* has run out of resources on a definite answer, and only the CEGIS engines do.
UnsatOnlyWhenSpent ==
  (status = "unsat" /\ found = <<>>) => (budget = "spent" /\ engine \in CegisEngines)

\* The engines assert that an established bound has a verified incumbent that realizes
\* it: no assertion ever fails.
AssertionsHold == phase # "raised"

\* search() returns, or fails an assertion: no bisection repeats itself, and the working
\* set cannot grow for ever.
Terminates == <>(phase \in {"done", "raised"})

-------------------------------------------------------------------------------
(* Until its first candidate a search is an anytime optimizer.             *)

Incumbent == IF found # <<>> THEN found[1].program ELSE best
Promise ==
  CASE found # <<>> -> IF found[1].complete THEN "best" ELSE "some"
    [] found = <<>> -> IF phase = "done" THEN "none" ELSE "open"

\* The problem is an invocation: an engine and its arguments.
Allowed(v) == LegalIn(v[2])
Beats(v, p, q) == KeyLess(KeyIn(v[2], p), KeyIn(v[2], q))

\* A skeleton engine minimizes a variable that the depth only bounds from below: on the
\* way it may take a deeper program for the incumbent.
MayFollow(v, p, q) ==
  IF v[1] \in SkeletonEngines
  THEN LET WithoutDepth(r) == <<ErrorsIn(v[2], r), Nodes(r), 0>>
       IN  ~ KeyLess(WithoutDepth(q), WithoutDepth(p))
  ELSE ~ Beats(v, q, p)

Contract == INSTANCE AnytimeOptimizer
              WITH Problems <- Engines \X Jobs, problem <- <<engine, job>>,
                   incumbent <- Incumbent, promise <- Promise,
                   Choices <- Allowed, Better <- Beats, Replaces <- MayFollow

\* The incumbent only improves, a completed search returns an optimum, and what is
\* returned is never taken back.
ImplementsContract == Contract!Spec

=============================================================================
