---- MODULE MCProcessProxy ----
(* ProcessProxy for TLC: small sets, and symmetric process ids.                  *)
EXTENDS ProcessProxy, TLC
====
