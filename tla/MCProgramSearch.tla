---------------------------- MODULE MCProgramSearch ----------------------------
(***************************************************************************)
(* Program search over a sample of the grammar on a domain of three        *)
(* values: leaves, sums, permutations of a leaf, and two expressions of    *)
(* six nodes that mean the same at depths three and four.  Every sample    *)
(* is closed under swapping the children of a sum, and the shallow ones    *)
(* under replacing the latent by the action.                               *)
(***************************************************************************)
EXTENDS ProgramSearch, SynthGrammar, TLC

Q == 0
A == 1
C0 == 2
PERM == 7
ADD == 8
OFF == 17

\* A heap given by its first entries.
Heap(s) == [i \in 0 .. 2 ^ SkeletonDepth - 2 |-> IF i < Len(s) THEN s[i + 1] ELSE OFF]

\* At most one permute node each.
ShapeSeq ==
  <<Heap(<<Q>>), Heap(<<A>>), Heap(<<C0>>), Heap(<<ADD, Q, A>>), Heap(<<ADD, A, Q>>), Heap(<<ADD, Q, Q>>),
    Heap(<<ADD, A, A>>), Heap(<<PERM, Q>>), Heap(<<PERM, A>>),
    \* permute(2q + a), of depth four
    Heap(<<PERM, ADD, OFF, ADD, A, OFF, OFF, Q, Q>>),
    Heap(<<PERM, ADD, OFF, A, ADD, OFF, OFF, OFF, OFF, Q, Q>>),
    \* 2q + permute(a), of depth three
    Heap(<<ADD, ADD, PERM, Q, Q, A>>), Heap(<<ADD, PERM, ADD, A, OFF, Q, Q>>)>>
MCShapes == Range(ShapeSeq)

ASSUME \A s \in MCShapes : WellFormed(s)

\* Models are numbered by their shape and table, and all that is asked of them is
\* tabulated once.
Table(t) == [v \in Domain |-> (t \div 3 ^ v) % 3]
TableNumber(f) == f[0] + 3 * f[1] + 9 * f[2]
MCModels == {27 * k + t : k \in DOMAIN ShapeSeq, t \in 0 .. 26} \ 
  {27 * k + t : k \in {k \in DOMAIN ShapeSeq : PermuteNodes(ShapeSeq[k]) = {}}, t \in 1 .. 26}
Model(n) ==
  LET sel == ShapeSeq[n \div 27]
  IN  [sel |-> sel,
       map |-> [i \in Indices |-> IF i \in PermuteNodes(sel) THEN Table(n % 27) ELSE Identity]]
ASSUME SkeletonModels = {Model(n) : n \in MCModels}
Number(m) ==
  27 * (CHOOSE k \in DOMAIN ShapeSeq : ShapeSeq[k] = m.sel)
     + (IF PermuteNodes(m.sel) = {} THEN 0
        ELSE TableNumber(m.map[CHOOSE i \in PermuteNodes(m.sel) : TRUE]))

Seen(q, a, y) == [pt |-> <<q, a>>, y |-> y]

\* The six-node law, a law a permutation explains, contradictory observations, a search
\* of depth one that asks for more candidates than there are, and one whose latent has
\* the name of the action.
MCJobs ==
  {[obs |-> <<Seen(0, 0, 1), Seen(0, 1, 2), Seen(1, 0, 0), Seen(1, 1, 1)>>, max_depth |-> 4, limit |-> 1, same_name |-> FALSE],
   [obs |-> <<Seen(0, 1, 2), Seen(1, 0, 1), Seen(1, 2, 0)>>, max_depth |-> 2, limit |-> 2, same_name |-> FALSE],
   [obs |-> <<Seen(0, 0, 0), Seen(0, 0, 1), Seen(1, 1, 2)>>, max_depth |-> 2, limit |-> 2, same_name |-> FALSE],
   [obs |-> <<Seen(0, 1, 1), Seen(1, 1, 0)>>, max_depth |-> 1, limit |-> 4, same_name |-> FALSE],
   [obs |-> <<Seen(0, 1, 1), Seen(1, 0, 0), Seen(1, 1, 0)>>, max_depth |-> 2, limit |-> 2,
    same_name |-> TRUE]}

\* Those whose variables have different names.
MCDistinctJobs == {j \in MCJobs : ~ j.same_name}

\* The problems of every engine, tabulated over the working sets of the jobs.
PointsSeen(same_name) ==
  UNION {{PointsOf(j, w) : w \in WorkingSets("cegis", j)} : j \in {j \in MCJobs : j.same_name = same_name}}
AllPts == PointsSeen(TRUE) \cup PointsSeen(FALSE)

Problem(e, m, pts) ==
  CASE e = "skeleton" -> SkeletonProblem(m)
    [] e = "exact_first" -> EfficientSkeletonProblem(m)
    [] e = "finite" -> FiniteDomainSkeletonProblem(m)
    [] e = "cegis" -> WorkingSetProblem(m, pts)
    [] e = "lexscore" -> IsolatedWorkingSetProblem(m, pts)
    [] e = "feasible_first" -> PartialPermutationWorkingSetProblem(m, pts)

\* TLC computes f where it is defined, not at every application.
Tabulated(f) == f @@ <<>>

Tables ==
  LET models == Tabulated([n \in MCModels |-> Model(n)])
      programs == {n \in MCModels : IsExpression(models[n])}
      space == Tabulated([e \in SkeletonEngines \cup CegisEngines |->
                 Tabulated([pts \in AllPts |-> {n \in MCModels : Problem(e, models[n], pts)}])])
      Over(e, DecodedModel(_, _, _)) ==
        Tabulated([same_name \in BOOLEAN |-> Tabulated([pts \in PointsSeen(same_name) |->
          Tabulated([n \in {n \in space[e][pts] : same_name => ExprDepth(models[n]) <= 2} |->
                       DecodedModel(models[n], pts, same_name)])])])
  IN  [programs |-> programs,
       root |-> Tabulated([n \in MCModels |->
                  Tabulated([pt \in Domain \X Domain |-> RootValue(models[n], pt)])]),
       nodes |-> Tabulated([n \in MCModels |-> NodeCount(models[n])]),
       depth |-> Tabulated([n \in MCModels |-> ExprDepth(models[n])]),
       preorder |-> Tabulated([n \in MCModels |-> PreorderDigits(models[n])]),
       serial |-> Tabulated([n \in MCModels |-> SerialDigits(models[n])]),
       space |-> space,
       decoded |->
         [e \in {"cegis", "lexscore", "feasible_first"} |->
            CASE e = "cegis" -> Over(e, LAMBDA m, pts, same_name : Number(Renamed(m, same_name)))
              [] e = "lexscore" ->
                   Over(e, LAMBDA m, pts, same_name : Number(PermutationCompletion(m, pts, same_name)))
              [] e = "feasible_first" ->
                   Over(e, LAMBDA m, pts, same_name :
                             IF Decodable(m, pts, same_name)
                             THEN Number(DecodePartial(m, pts, same_name)) ELSE None)]]

MCPrograms == Tables.programs

\* One column of the tables each; LET keeps TLC's coverage statistics from following every
\* use of a constant operator into the tables.
MCRoot(n, pt) == LET root == Tables.root IN root[n][pt]
MCNodes(n) == LET nodes == Tables.nodes IN nodes[n]
MCDepth(n) == LET depth == Tables.depth IN depth[n]
MCPreorder(n) == LET preorder == Tables.preorder IN preorder[n]
MCSerial(n) == LET serial == Tables.serial IN serial[n]
MCSpace(e, d, pts) ==
  LET depth == Tables.depth IN {n \in Tables.space[e][pts] : depth[n] <= d}
MCDecode(e, n, pts, same_name) ==
  IF e \in SkeletonEngines THEN n
  ELSE LET decoded == Tables.decoded IN decoded[e][same_name][pts][n]

=============================================================================
