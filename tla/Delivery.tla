------------------------------- MODULE Delivery -------------------------------
(***************************************************************************)
(* What a response promises its peer: the message arrives from its first   *)
(* byte on, in order and once, and the connection is closed in good order  *)
(* only behind the last byte; otherwise the peer sees it break off, with a *)
(* notice at its end or without.                                           *)
(***************************************************************************)
EXTENDS Naturals, Sequences

CONSTANTS
  Messages,   \* the messages there may be to deliver: non-empty sequences
  notice

VARIABLES
  message,  \* what is to be delivered
  wire,     \* what the peer has been sent
  outcome   \* "open", then "complete" or "broken"

vars == <<message, wire, outcome>>

Init ==
  /\ message \in Messages
  /\ wire = <<>>
  /\ outcome = "open"

Deliver ==
  /\ outcome = "open"
  /\ \E n \in (Len(wire) + 1)..Len(message) : wire' = SubSeq(message, 1, n)
  /\ UNCHANGED <<message, outcome>>

Complete ==
  /\ outcome = "open" /\ wire = message
  /\ outcome' = "complete"
  /\ UNCHANGED <<message, wire>>

Break ==
  /\ outcome = "open"
  /\ outcome' = "broken"
  /\ wire' \in {wire, wire \o notice}
  /\ UNCHANGED message

Next == Deliver \/ Complete \/ Break

\* A peer that takes what it is sent sees the end of it.
Spec == Init /\ [][Next]_vars /\ WF_vars(Next)
=============================================================================
