------------------------------- MODULE LexOrder -------------------------------
(***************************************************************************)
(* The order of Python tuples and strings: by the first difference.        *)
(***************************************************************************)
EXTENDS Integers, Sequences, SequencesExt

LexLess(s, t) ==
  \/ IsStrictPrefix(s, t)
  \/ \E k \in DOMAIN s \cap DOMAIN t :
       s[k] < t[k] /\ \A j \in 1 .. k - 1 : s[j] = t[j]

=============================================================================
