----------------------------- MODULE OrderedLog -----------------------------
(***************************************************************************)
(* What a logger promises: each entry that it accepts is written to the    *)
(* channels once, after all that were accepted before it.  An entry is the *)
(* number it got when it was accepted.                                     *)
(***************************************************************************)
EXTENDS Naturals, Sequences

VARIABLES
  accepted,    \* how many entries have been accepted
  written      \* what the channels have been given

Init == accepted = 0 /\ written = <<>>

Accept == accepted' = accepted + 1 /\ UNCHANGED written

Emit ==
  /\ Len(written) < accepted
  /\ written' = Append(written, Len(written) + 1)
  /\ UNCHANGED accepted

Next == Accept \/ Emit

Spec == Init /\ [][Next]_<<accepted, written>>
=============================================================================
