---------------------------- MODULE ServerScores ----------------------------
(***************************************************************************)
(* The scores of internal/selector under Defaults(), the only parameters   *)
(* the daemon uses.  The code computes them in floating point; here they   *)
(* are exact: a base score counts 1/600 of a point and a score 1/12000, so *)
(* that the weights 0.55, 0.30 and 0.15, the latency divisor 3000 and the  *)
(* bonus 1.15 of the incumbent all are integers.                           *)
(*                                                                         *)
(* historiesOf hands over at most one sample for each server, so that the  *)
(* stability component always is the neutral 60.                           *)
(***************************************************************************)
EXTENDS Integers

MaxLatencyMs  == 3000
DegradedAbove == 2500   \* Outcome: a slower answer is HealthDegraded
Cap           == 100 * 600

\* What a record knows of its server: the last latency, or -1, and the health.
Health == {"unknown", "healthy", "degraded", "unhealthy"}

Tested(g) == g.latencyMs >= 0

\* Outcome: what a test makes of the record; latency -1 stands for an error.
Outcome(latency) ==
  [latencyMs |-> latency,
   health |-> IF latency < 0 THEN "unhealthy"
              ELSE IF latency > DegradedAbove THEN "degraded" ELSE "healthy"]

\* 0.55 * 100 * (1 - latency/3000)
LatencyComponent(latency) ==
  IF latency < 0 \/ latency >= MaxLatencyMs THEN 0 ELSE 33000 - 11 * latency

\* 0.30 * 100, 50, 0 or 60
HealthComponent(health) ==
  CASE health = "healthy" -> 18000 [] health = "degraded" -> 9000
    [] health = "unhealthy" -> 0   [] OTHER -> 10800

StabilityComponent == 5400   \* 0.15 * 60

UnhealthyCap  == 15 * 600
UntestedScore == 35 * 600

Base(g) ==
  CASE g.health = "unhealthy" -> UnhealthyCap
    [] g.health # "unhealthy" /\ ~Tested(g) -> UntestedScore
    [] OTHER -> LatencyComponent(g.latencyMs) + HealthComponent(g.health)
                  + StabilityComponent

Score(g, incumbent) ==
  LET s == IF incumbent THEN 23 * Base(g) ELSE 20 * Base(g)
  IN  IF s > 20 * Cap THEN 20 * Cap ELSE s

\* ShouldSwitch: best beats current by the hysteresis margin.
ShouldSwitch(current, best) == 20 * best > 23 * current
=============================================================================
