------------------------------- MODULE Service -------------------------------
(***************************************************************************)
(* What the server promises the peers that connect to it: each is accepted *)
(* once at most, is sent at most one piece before its request is whole, an *)
(* answer only afterwards, nothing once it has been let go, and is let go  *)
(* for good after a while, as long as the process lives.                   *)
(***************************************************************************)
CONSTANT Conn     \* connections peers make

VARIABLES
  up,        \* the process lives
  phase,     \* how far each connection has got
  sent       \* what it has been sent: an "early" piece, pieces of an "answer"

vars == <<up, phase, sent>>

Phases == {"away", "waiting", "reading", "answering", "gone"}

TypeOK ==
  /\ up \in BOOLEAN
  /\ phase \in [Conn -> Phases]
  /\ sent \in [Conn -> SUBSET {"early", "answer"}]

Init ==
  /\ up = TRUE
  /\ phase = [c \in Conn |-> "away"]
  /\ sent = [c \in Conn |-> {}]

Goes(c, from, to) == phase[c] = from /\ phase'[c] = to
SaysNothing(c) == sent'[c] = sent[c]
Says(c, piece) == sent'[c] = sent[c] \cup {piece}

Stays(c) == phase'[c] = phase[c] /\ SaysNothing(c)
Connects(c) == Goes(c, "away", "waiting") /\ SaysNothing(c)
IsAccepted(c) == Goes(c, "waiting", "reading") /\ SaysNothing(c)
HasAsked(c) == Goes(c, "reading", "answering") /\ SaysNothing(c)
SpokenToEarly(c) ==
  Goes(c, "reading", "reading") /\ "early" \notin sent[c] /\ Says(c, "early")
IsAnswered(c) == Goes(c, "answering", "answering") /\ Says(c, "answer")
IsAnsweredAndLeaves(c) == Goes(c, "answering", "gone") /\ Says(c, "answer")
Leaves(c) == \E from \in {"reading", "answering"} : Goes(c, from, "gone") /\ SaysNothing(c)

\* One step of the server may concern several connections.
Serves ==
  /\ up /\ up' = up
  /\ \A c \in Conn :
       \/ Stays(c) \/ Connects(c) \/ IsAccepted(c) \/ SpokenToEarly(c)
       \/ HasAsked(c) \/ IsAnswered(c) \/ IsAnsweredAndLeaves(c) \/ Leaves(c)

Ends == up /\ ~up' /\ UNCHANGED <<phase, sent>>

Next == Serves \/ Ends

Safety == Init /\ [][Next]_vars

\* Nobody is served for ever.
LetsGo ==
  \A c \in Conn : phase[c] \in {"reading", "answering"} ~> (phase[c] = "gone" \/ ~up)

Spec == Safety /\ LetsGo
=============================================================================
