---------------------------- MODULE AtLeastOnce ----------------------------
(***************************************************************************)
(* What agynd promises of an agent instance's inbox, with none of the      *)
(* machinery that keeps the promise: items are taken oldest first, each is *)
(* put to the agent until a turn on it has ended, the turn's final text is *)
(* delivered, and only then is the item acknowledged.  A turn may run more *)
(* than once for an item (its publish or its ack can fail), and after the  *)
(* item has been acknowledged only if it was in hand before that: an ack   *)
(* nobody waits for any more may reach the inbox at any time.              *)
(***************************************************************************)
EXTENDS Naturals

CONSTANT NumItems

VARIABLES
  accepted,   \* how many items the inbox has taken in: they are 1..accepted
  listed,     \* items in hand
  answered,   \* items on which a turn has ended
  owed,       \* items whose last turn's final text is not delivered yet
  late,       \* items whose ack was given up on and may still arrive
  acked       \* items acknowledged

Oldest(i) == i \in listed /\ 1..(i - 1) \subseteq acked

Init ==
  /\ accepted = 0 /\ listed = {}
  /\ answered = {} /\ owed = {} /\ late = {} /\ acked = {}

Accept ==
  /\ accepted < NumItems
  /\ accepted' = accepted + 1
  /\ UNCHANGED <<listed, answered, owed, late, acked>>

\* Items are taken in hand, or let go, and only those not acknowledged.
List ==
  /\ listed' \subseteq 1..accepted \ acked
  /\ UNCHANGED <<accepted, answered, owed, late, acked>>

\* A turn ends, with a text to deliver or with none.
Answer(i) ==
  /\ Oldest(i)
  /\ answered' = answered \union {i}
  /\ owed' \in {owed \union {i}, owed \ {i}}
  /\ UNCHANGED <<accepted, listed, late, acked>>

\* The text is delivered, and perhaps nobody hears that it was.
Deliver(i) ==
  /\ i \in owed
  /\ owed' = owed \ {i}
  /\ listed' \in {listed, {}}
  /\ UNCHANGED <<accepted, answered, late, acked>>

Acknowledge(i) ==
  /\ Oldest(i)
  /\ i \in answered \ owed
  /\ acked' = acked \union {i}
  /\ listed' = listed \ {i} /\ late' = late \ {i}
  /\ UNCHANGED <<accepted, answered, owed>>

\* An ack is given up on, and everything in hand with it.
GiveUp(i) ==
  /\ Oldest(i)
  /\ i \in answered \ owed
  /\ late' = late \union {i}
  /\ listed' = {}
  /\ UNCHANGED <<accepted, answered, owed, acked>>

Land(i) ==
  /\ i \in late
  /\ acked' = acked \union {i}
  /\ late' = late \ {i}
  /\ UNCHANGED <<accepted, listed, answered, owed>>

Next ==
  \/ Accept \/ List
  \/ \E i \in 1..NumItems :
       Answer(i) \/ Deliver(i) \/ Acknowledge(i) \/ GiveUp(i) \/ Land(i)

vars == <<accepted, listed, answered, owed, late, acked>>

Spec == Init /\ [][Next]_vars
=============================================================================
