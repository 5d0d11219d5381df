------------------------------ MODULE Channel ------------------------------
(***************************************************************************)
(* What a connection promises its two ends: messages come out whole, once, *)
(* and in the order in which they went in.  Module Framing implements it.  *)
(***************************************************************************)
EXTENDS Naturals, Sequences

CONSTANT Message

VARIABLES in, out

Init == in = <<>> /\ out = <<>>

(* Whatever message it is that now ends in. *)
Put ==
  /\ Len(in') = Len(in) + 1
  /\ in'[Len(in')] \in Message
  /\ in' = Append(in, in'[Len(in')])
  /\ out' = out

Get ==
  /\ Len(out) < Len(in)
  /\ out' = Append(out, in[Len(out) + 1])
  /\ in' = in

Next == Put \/ Get

Spec == Init /\ [][Next]_<<in, out>>
=============================================================================
