----------------------------- MODULE SharedLock -----------------------------
(***************************************************************************)
(* What a readers-writer lock promises: many may hold it for reading, or   *)
(* one for writing.  A reader may become the writer without letting go in  *)
(* between only while it is the only holder.                               *)
(***************************************************************************)
CONSTANT Holders

VARIABLE holds     \* how each of them holds the lock

Free(S) == \A t \in S : holds[t] = "None"

Init == holds = [t \in Holders |-> "None"]

TakeRead(t) ==
  /\ holds[t] = "None"
  /\ \A u \in Holders : holds[u] # "Write"
  /\ holds' = [holds EXCEPT ![t] = "Read"]

TakeWrite(t) ==
  /\ holds[t] # "Write" /\ Free(Holders \ {t})
  /\ holds' = [holds EXCEPT ![t] = "Write"]

Downgrade(t) ==
  /\ holds[t] = "Write"
  /\ holds' = [holds EXCEPT ![t] = "Read"]

LetGo(t) ==
  /\ holds[t] # "None"
  /\ holds' = [holds EXCEPT ![t] = "None"]

Next ==
  \E t \in Holders : TakeRead(t) \/ TakeWrite(t) \/ Downgrade(t) \/ LetGo(t)

Spec == Init /\ [][Next]_holds
=============================================================================
