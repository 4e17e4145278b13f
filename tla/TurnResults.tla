---------------------------- MODULE TurnResults ----------------------------
(***************************************************************************)
(* What the turn tracker promises whoever waits for a codex turn, with no  *)
(* waiter, channel or lock in sight: results are reported for turns, and   *)
(* each turn's waiter takes at most one, one that was reported for its own *)
(* turn, whichever of the two came first.                                  *)
(***************************************************************************)
CONSTANTS Turns, Results, None

VARIABLES
  reported,   \* the results each turn has been given
  taken       \* the result each turn's waiter has taken, or None

vars == <<reported, taken>>

Init ==
  /\ reported = [t \in Turns |-> {}]
  /\ taken = [t \in Turns |-> None]

\* More results are reported.
Report ==
  /\ reported' \in [Turns -> SUBSET Results]
  /\ \A t \in Turns : reported[t] \subseteq reported'[t]
  /\ UNCHANGED taken

Take(t) ==
  /\ taken[t] = None
  /\ \E r \in reported[t] : taken' = [taken EXCEPT ![t] = r]
  /\ UNCHANGED reported

Next == Report \/ \E t \in Turns : Take(t)

Spec == Init /\ [][Next]_vars
=============================================================================
