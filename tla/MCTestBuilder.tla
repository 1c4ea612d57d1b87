---- MODULE MCTestBuilder ----
(* TestBuilder for TLC: the first build has two steps, the others have one.      *)
EXTENDS TestBuilder
CONSTANT b1
MCNSteps == [b \in Builds |-> IF b = b1 THEN 2 ELSE 1]
====
