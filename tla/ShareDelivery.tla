--------------------------- MODULE ShareDelivery ---------------------------
(***************************************************************************)
(* What the share path of btccpu promises, without threads or queues.      *)
(*                                                                         *)
(* Work has a generation.  A share found under the current generation is   *)
(* open until it is delivered to the pool; no share is ever delivered      *)
(* twice and none is delivered once its generation is superseded.  An open *)
(* share may vanish only when new work supersedes it, or, one at a time,   *)
(* when the program is closing down.                                       *)
(***************************************************************************)
EXTENDS Naturals, Sequences

CONSTANT Share         \* records with a field generation

VARIABLES
  generation,          \* of the current work
  open,                \* current shares not delivered yet
  delivered,           \* shares delivered, in order
  closing              \* a stop was requested or a thread failed

vars == <<generation, open, delivered, closing>>

Delivered == {delivered[i] : i \in DOMAIN delivered}

Init ==
  /\ generation = 0
  /\ open = {}
  /\ delivered = <<>>
  /\ closing = FALSE

Supersede ==
  /\ generation' = generation + 1
  /\ open' = {}
  /\ UNCHANGED <<delivered, closing>>

Find(s) ==
  /\ s.generation = generation
  /\ s \notin open \cup Delivered
  /\ open' = open \cup {s}
  /\ UNCHANGED <<generation, delivered, closing>>

Deliver(s) ==
  /\ s \in open
  /\ open' = open \ {s}
  /\ delivered' = Append(delivered, s)
  /\ UNCHANGED <<generation, closing>>

Lose(s) ==
  /\ s \in open
  /\ closing' = TRUE
  /\ open' = open \ {s}
  /\ UNCHANGED <<generation, delivered>>

Close ==
  /\ closing' = TRUE
  /\ UNCHANGED <<generation, open, delivered>>

Next ==
  \/ Supersede
  \/ \E s \in Share : Find(s)
  \/ \E s \in open : Deliver(s) \/ Lose(s)
  \/ Close

Spec == Init /\ [][Next]_vars

=============================================================================
