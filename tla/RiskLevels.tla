----------------------------- MODULE RiskLevels -----------------------------
(***************************************************************************)
(* The pure tables every other module is built on: the two information     *)
(* axes (taint and sensitivity, each low < medium < high), their join, the *)
(* 2-D risk matrix and its modulation by the agent's capability.           *)
(* Atoms of the code are represented by their rank in the code's own rank  *)
(* maps, so the order on levels is the order on numbers.                   *)
(***************************************************************************)
EXTENDS Naturals

Low == 0
Medium == 1
High == 2
Level == {Low, Medium, High}

\* :low | :moderate | :high | :critical
Risk == 0 .. 3

\* InformationClassifier.higher_level/2 keeps its first argument on a tie.
HigherLevel(a, b) == IF a >= b THEN a ELSE b

\* A classification: one level per axis (the reason string is dropped).
Label == [taint : Level, sens : Level]
NoRisk == [taint |-> Low, sens |-> Low]

\* Element-wise join of two classifications (higher_levels/2).
Join(k, l) == [taint |-> HigherLevel(k.taint, l.taint),
               sens |-> HigherLevel(k.sens, l.sens)]

\* Every exposure of k is also an exposure of l.
Below(k, l) == k.taint <= l.taint /\ k.sens <= l.sens

\* @risk_matrix, rows taint, columns sensitivity.
RiskMatrix(taint, sens) ==
    CASE taint = Low    -> (IF sens = High THEN 1 ELSE 0)
      [] taint = Medium -> (IF sens = High THEN 2 ELSE IF sens = Medium THEN 1 ELSE 0)
      [] OTHER          -> (IF sens = High THEN 3 ELSE IF sens = Medium THEN 2 ELSE 1)

\* @capability_adjustment: low steps down, high steps up except from :low.
CapabilityAdjustment(capability, risk) ==
    CASE capability = Low  -> (IF risk = 0 THEN 0 ELSE risk - 1)
      [] capability = High -> (IF risk = 0 THEN 0 ELSE IF risk = 3 THEN 3 ELSE risk + 1)
      [] OTHER             -> risk

EffectiveRisk(taint, sens, capability) ==
    CapabilityAdjustment(capability, RiskMatrix(taint, sens))

Exceeds(risk, max) == risk > max

LabelRisk(l, capability) == EffectiveRisk(l.taint, l.sens, capability)
=============================================================================
