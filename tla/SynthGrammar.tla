----------------------------- MODULE SynthGrammar -----------------------------
(***************************************************************************)
(* The bounded expression grammar the synthesizer searches                 *)
(* (archimedes_v0/synthesis.py) and the encodings of it that each search   *)
(* engine hands to the solver.                                             *)
(*                                                                         *)
(* A solver model, and an expression, is the heap of _EncodedAST: node i   *)
(* has its children at 2i+1 and 2i+2, sel[i] is the selector of the node   *)
(* and map[i] the table of a permute node (the identity elsewhere, where   *)
(* the entries decide nothing).  A model whose tables are bijections is an *)
(* expression.                                                             *)
(***************************************************************************)
EXTENDS Integers, Sequences, FiniteSets, FiniteSetsExt, SequencesExt, LexOrder

CONSTANTS
  DomainSize,       \* DOMAIN_SIZE: 8, the three-bit domain
  SkeletonDepth,    \* depth of the syntax skeleton
  QCardinality,     \* q_cardinality of the supplied latent
  LatentFirst,      \* the latent's name sorts before the action's
  Shapes            \* the selector heaps of the instance

ASSUME GrammarConstants ==
  /\ {DomainSize, SkeletonDepth, QCardinality} \subseteq Nat \ {0}
  /\ QCardinality <= DomainSize
  /\ LatentFirst \in BOOLEAN

Domain == 0 .. DomainSize - 1

-------------------------------------------------------------------------------
(* Selectors, in their frozen order.                                       *)

OP_Q == 0
OP_ACTION == 1
OP_CONST(v) == 2 + v
OP_ROTL_1 == 2 + DomainSize
OP_ROTL_2 == 3 + DomainSize
OP_PERMUTE == 4 + DomainSize
OP_ADD_MOD == 5 + DomainSize
OP_MUL_MOD == 6 + DomainSize
OP_XOR == 7 + DomainSize
OP_BIT_AND == 8 + DomainSize
OP_BIT_OR == 9 + DomainSize
OP_MIN_U3 == 10 + DomainSize
OP_MAX_U3 == 11 + DomainSize
OP_ABS_DIFF == 12 + DomainSize
OP_EQ_MASK == 13 + DomainSize
OP_INACTIVE == 14 + DomainSize

LEAF_OPS == OP_Q .. OP_CONST(DomainSize - 1)
UNARY_OPS == {OP_ROTL_1, OP_ROTL_2, OP_PERMUTE}
BINARY_OPS == OP_ADD_MOD .. OP_EQ_MASK          \* all of them commutative

-------------------------------------------------------------------------------
(* Syntax.                                                                 *)

Indices == 0 .. 2 ^ SkeletonDepth - 2
LeftChild(i) == 2 * i + 1
RightChild(i) == 2 * i + 2
Level(i) == CHOOSE l \in 1 .. SkeletonDepth : 2 ^ (l - 1) <= i + 1 /\ i + 1 < 2 ^ l
HasChildren(i) == Level(i) < SkeletonDepth

\* The root is active, a node's children are active as its arity says, and a node of
\* the last level is a leaf.
WellFormed(sel) ==
  /\ sel[0] # OP_INACTIVE
  /\ \A i \in Indices :
       IF HasChildren(i)
       THEN /\ sel[LeftChild(i)] # OP_INACTIVE <=> sel[i] \in UNARY_OPS \cup BINARY_OPS
            /\ sel[RightChild(i)] # OP_INACTIVE <=> sel[i] \in BINARY_OPS
       ELSE sel[i] \in LEAF_OPS \cup {OP_INACTIVE}

Identity == [v \in Domain |-> v]
PermuteNodes(sel) == {i \in Indices : sel[i] = OP_PERMUTE}

\* Permutation tables a solver may assign before anything constrains them.
SkeletonModels ==
  UNION {{[sel |-> s, map |-> [i \in Indices |-> IF i \in PermuteNodes(s) THEN maps[i] ELSE Identity]] :
            maps \in [PermuteNodes(s) -> [Domain -> Domain]]} : s \in Shapes}

Bijective(f) == \A v, w \in Domain : f[v] = f[w] => v = w
IsExpression(m) == \A i \in PermuteNodes(m.sel) : Bijective(m.map[i])

Active(m) == {i \in Indices : m.sel[i] # OP_INACTIVE}
NodeCount(m) == Cardinality(Active(m))
ExprDepth(m) == Max({Level(i) : i \in Active(m)})

\* The digits of an expression in preorder: selector, then the table of a permute
\* node, then the children.  Rank orders the selectors.
Digits(m, rank) ==
  LET pre[i \in Indices] ==
        <<rank[m.sel[i]]>>
          \o (IF m.sel[i] = OP_PERMUTE THEN [k \in 1 .. DomainSize |-> m.map[i][k - 1]] ELSE <<>>)
          \o (IF m.sel[i] \in UNARY_OPS \cup BINARY_OPS THEN pre[LeftChild(i)] ELSE <<>>)
          \o (IF m.sel[i] \in BINARY_OPS THEN pre[RightChild(i)] ELSE <<>>)
  IN  pre[0]

PreorderDigits(m) == Digits(m, [op \in OP_Q .. OP_INACTIVE |-> op])

\* canonical_ast is JSON with sorted keys: "kind" comes first, and the kinds are
\* compared as strings.
KindOrder ==
  <<OP_ABS_DIFF, OP_ADD_MOD, OP_BIT_AND, OP_BIT_OR>>
    \o [k \in 1 .. DomainSize |-> OP_CONST(k - 1)]
    \o <<OP_EQ_MASK, OP_MAX_U3, OP_MIN_U3, OP_MUL_MOD, OP_PERMUTE, OP_ROTL_1, OP_ROTL_2>>
    \o (IF LatentFirst THEN <<OP_Q, OP_ACTION>> ELSE <<OP_ACTION, OP_Q>>)
    \o <<OP_XOR, OP_INACTIVE>>
KindRank == [op \in OP_Q .. OP_INACTIVE |-> CHOOSE k \in DOMAIN KindOrder : KindOrder[k] = op]
SerialDigits(m) == Digits(m, KindRank)

-------------------------------------------------------------------------------
(* Semantics.                                                              *)

Width == CHOOSE w \in 0 .. DomainSize : 2 ^ w <= DomainSize /\ DomainSize < 2 ^ (w + 1)
Bits(a, b, keep(_, _)) ==
  LET from[k \in 0 .. Width] ==
        IF k = Width THEN 0
        ELSE (IF keep((a \div 2 ^ k) % 2, (b \div 2 ^ k) % 2) THEN 2 ^ k ELSE 0) + from[k + 1]
  IN  from[0]
Rotl(v, shift) == ((v * 2 ^ shift) % DomainSize) + (v \div 2 ^ (Width - shift))

Binary(op, l, r) ==
  CASE op = OP_ADD_MOD -> (l + r) % DomainSize
    [] op = OP_MUL_MOD -> (l * r) % DomainSize
    [] op = OP_XOR -> Bits(l, r, LAMBDA a, b : a # b)
    [] op = OP_BIT_AND -> Bits(l, r, LAMBDA a, b : a = 1 /\ b = 1)
    [] op = OP_BIT_OR -> Bits(l, r, LAMBDA a, b : a = 1 \/ b = 1)
    [] op = OP_MIN_U3 -> IF l <= r THEN l ELSE r
    [] op = OP_MAX_U3 -> IF l <= r THEN r ELSE l
    [] op = OP_ABS_DIFF -> IF l <= r THEN r - l ELSE l - r
    [] op = OP_EQ_MASK -> IF l = r THEN DomainSize - 1 ELSE 0

\* The value of every node at a point <<q, action>>, where Permuted gives that of a permute
\* node from its index and its child's value; an inactive node has value 0.
Values(m, pt, Permuted(_, _)) ==
  LET val[i \in Indices] ==
        LET op == m.sel[i]
        IN  CASE op = OP_Q -> pt[1]
              [] op = OP_ACTION -> pt[2]
              [] op \in OP_CONST(0) .. OP_CONST(DomainSize - 1) -> op - OP_CONST(0)
              [] op = OP_ROTL_1 -> Rotl(val[LeftChild(i)], 1)
              [] op = OP_ROTL_2 -> Rotl(val[LeftChild(i)], 2)
              [] op = OP_PERMUTE -> Permuted(i, val[LeftChild(i)])
              [] op \in BINARY_OPS -> Binary(op, val[LeftChild(i)], val[RightChild(i)])
              [] OTHER -> 0
  IN  [i \in Indices |-> val[i]]

NodeValues(m, pt) == Values(m, pt, LAMBDA i, v : m.map[i][v])

Points == (0 .. QCardinality - 1) \X Domain
TruthPoints ==
  [k \in 1 .. QCardinality * DomainSize |-> <<(k - 1) \div DomainSize, (k - 1) % DomainSize>>]

RootValue(m, pt) == NodeValues(m, pt)[0]

-------------------------------------------------------------------------------
(* The constraints of each engine's encoding on a model of the syntax      *)
(* skeleton, with one child order per commutative node.                    *)

Column(m, i, pts) == [k \in DOMAIN pts |-> NodeValues(m, pts[k])[i]]
CommutativeNodes(m) == {i \in Indices : m.sel[i] \in BINARY_OPS}

\* Children in the lexicographic order of their values on the points.
LexOrdered(m, pts) ==
  \A i \in CommutativeNodes(m) : ~ LexLess(Column(m, RightChild(i), pts), Column(m, LeftChild(i), pts))

\* Children in the order of their selectors.
SelectorOrdered(m) == \A i \in CommutativeNodes(m) : m.sel[LeftChild(i)] <= m.sel[RightChild(i)]

SkeletonProblem(m) == IsExpression(m) /\ LexOrdered(m, TruthPoints)
EfficientSkeletonProblem(m) == IsExpression(m) /\ SelectorOrdered(m)
FiniteDomainSkeletonProblem(m) == IsExpression(m) /\ SelectorOrdered(m)

\* The working-set problems know only the points of the working set.
WorkingSetProblem(m, pts) == IsExpression(m) /\ LexOrdered(m, pts)
IsolatedWorkingSetProblem(m, pts) == IsExpression(m) /\ LexOrdered(m, pts)

\* No table has to be a bijection: it has to be injective on the child values seen.
InjectiveOn(m, pts) ==
  \A i \in PermuteNodes(m.sel) : \A k, l \in DOMAIN pts :
    Column(m, LeftChild(i), pts)[k] # Column(m, LeftChild(i), pts)[l]
      => Column(m, i, pts)[k] # Column(m, i, pts)[l]
PartialPermutationWorkingSetProblem(m, pts) == InjectiveOn(m, pts) /\ LexOrdered(m, pts)

-------------------------------------------------------------------------------
(* Decoding.                                                               *)

\* Where both variables have one name, evaluate_expr finds the action under it, and an
\* expression is encoded with the selector of the latent.
SeenAs(pt, same_name) == IF same_name THEN <<pt[2], pt[2]>> ELSE pt
Renamed(m, same_name) ==
  IF same_name
  THEN [m EXCEPT !.sel = [i \in Indices |-> IF @[i] = OP_ACTION THEN OP_Q ELSE @[i]]]
  ELSE m

\* The table that takes every source to its target, its other entries filled with the
\* unused values, in order.
Consistent(source, target) ==
  \A k, l \in DOMAIN source : source[k] = source[l] <=> target[k] = target[l]
CompletedTable(source, target) ==
  LET missing == Domain \ Range(source)
      unused == Domain \ Range(target)
      Below(S, v) == Cardinality({w \in S : w < v})
  IN  [v \in Domain |->
         IF v \in missing THEN CHOOSE w \in unused : Below(unused, w) = Below(missing, v)
         ELSE target[CHOOSE k \in DOMAIN source : source[k] = v]]

Retabled(m, Table(_)) ==
  [m EXCEPT !.map = [i \in Indices |-> IF i \in PermuteNodes(m.sel) THEN Table(i) ELSE Identity]]

\* A model whose tables are bijections is decoded as it is, then its tables keep what they
\* do on the points only.
PermutationCompletion(m, pts, same_name) ==
  LET seen == [k \in DOMAIN pts |-> SeenAs(pts[k], same_name)]
  IN  Retabled(Renamed(m, same_name),
               LAMBDA i : CompletedTable(Column(m, LeftChild(i), seen), Column(m, i, seen)))

\* The partial encoding decodes a table from what its child means over the names of the job
\* and from the model's values of the node; the completion that follows finds nothing left
\* to choose.
DecodedColumn(m, i, pts, same_name) ==
  [k \in DOMAIN pts |->
     LET values == NodeValues(m, pts[k])
     IN  Values(m, SeenAs(pts[k], same_name), LAMBDA n, v : values[n])[i]]
Decodable(m, pts, same_name) ==
  \A i \in PermuteNodes(m.sel) :
    Consistent(DecodedColumn(m, LeftChild(i), pts, same_name), Column(m, i, pts))
DecodePartial(m, pts, same_name) ==
  Retabled(Renamed(m, same_name),
           LAMBDA i : CompletedTable(DecodedColumn(m, LeftChild(i), pts, same_name), Column(m, i, pts)))

=============================================================================
