--------------------------- MODULE AnytimeOptimizer ---------------------------
(***************************************************************************)
(* What a program search promises its caller, whatever its engine: it may  *)
(* stop at any time with its incumbent, an incumbent is never replaced by  *)
(* a worse one, and only an optimum is returned as "best".                 *)
(***************************************************************************)
CONSTANTS
  Problems,
  Choices(_),     \* what may be chosen for a problem
  Better(_, _, _),    \* Better(problem, c, d): choice c is better than d
  Replaces(_, _, _),  \* Replaces(problem, c, d): incumbent d may give way to c
  None

VARIABLES
  problem,
  incumbent,
  promise         \* "open", "none", "some", "best"

vars == <<problem, incumbent, promise>>

Init == problem \in Problems /\ incumbent = None /\ promise = "open"

NotWorse(new, old) == old = None \/ Replaces(problem, new, old)

Improve ==
  /\ promise = "open"
  /\ incumbent' \in {c \in Choices(problem) : NotWorse(c, incumbent)}
  /\ UNCHANGED <<problem, promise>>

Optimal(c) == \A other \in Choices(problem) : ~ Better(problem, other, c)

\* An interrupted search returns the incumbent it has, or one as good.
GiveUp ==
  /\ promise = "open"
  /\ promise' = IF incumbent = None THEN "none" ELSE "some"
  /\ incumbent' \in IF incumbent = None THEN {None}
                    ELSE {c \in Choices(problem) : NotWorse(c, incumbent)}
  /\ UNCHANGED problem

\* The last choice is among the optima.
Finish ==
  /\ promise = "open"
  /\ incumbent' \in {c \in Choices(problem) : NotWorse(c, incumbent) /\ Optimal(c)}
  /\ promise' = "best"
  /\ UNCHANGED problem

Next == Improve \/ GiveUp \/ Finish

Spec == Init /\ [][Next]_vars

=============================================================================
