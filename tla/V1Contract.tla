------------------------------ MODULE V1Contract ------------------------------
(***************************************************************************)
(* What a V1 run promises about its budget, without observations, agents   *)
(* or partitions: 60 discovery units, then one prepaid gate of 4, then 32  *)
(* calibration units, then 32 transfer units, in this order and never      *)
(* back; a run that stops early is worth zero and keeps the rest unused.   *)
(* V1Broker is shown to implement it when its runtime always answers.      *)
(***************************************************************************)
EXTENDS Integers

\* The four budgets, positive numbers (V1Broker assumes it of what it substitutes).
CONSTANTS Discovery, Gate, Calibration, Transfer

VARIABLES
  stage,    \* the budget being spent, or "closed"
  spent,    \* units spent so far
  verdict   \* "open", "zero" or "scored"

vars == <<stage, spent, verdict>>

Stages == {"discovery", "gate", "calibration", "transfer", "closed"}

Init == stage = "discovery" /\ spent = 0 /\ verdict = "open"

\* Units spent when a stage is exhausted.
Quota(s) ==
  CASE s = "discovery"   -> Discovery
    [] s = "gate"        -> Discovery + Gate
    [] s = "calibration" -> Discovery + Gate + Calibration
    [] s = "transfer"    -> Discovery + Gate + Calibration + Transfer

SpendUnit ==
  /\ stage \in {"discovery", "calibration", "transfer"}
  /\ spent < Quota(stage)
  /\ spent' = spent + 1
  /\ UNCHANGED <<stage, verdict>>

\* The gate is paid as a whole, and only once discovery is exhausted.
PayGate ==
  /\ stage = "discovery" /\ spent = Quota("discovery")
  /\ spent' = Quota("gate")
  /\ stage' = "gate"
  /\ UNCHANGED verdict

OpenB ==
  /\ stage = "gate"
  /\ stage' = "calibration"
  /\ UNCHANGED <<spent, verdict>>

FreezePredictions ==
  /\ stage = "calibration" /\ spent = Quota("calibration")
  /\ stage' = "transfer"
  /\ UNCHANGED <<spent, verdict>>

Complete ==
  /\ stage = "transfer" /\ spent = Quota("transfer")
  /\ stage' = "closed" /\ verdict' = "scored"
  /\ UNCHANGED spent

GiveUp ==
  /\ stage # "closed"
  /\ stage' = "closed" /\ verdict' = "zero"
  /\ UNCHANGED spent

\* A commit that is paid for and fails before any gate outcome.
PayAndGiveUp ==
  /\ stage = "discovery" /\ spent = Quota("discovery")
  /\ spent' = Quota("gate")
  /\ stage' = "closed" /\ verdict' = "zero"

Next ==
  \/ SpendUnit \/ PayGate \/ OpenB \/ FreezePredictions \/ Complete
  \/ GiveUp \/ PayAndGiveUp

Spec == Init /\ [][Next]_vars
===============================================================================
