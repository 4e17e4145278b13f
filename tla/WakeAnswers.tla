---------------------------- MODULE WakeAnswers ----------------------------
(***************************************************************************)
(* What the keepalive promises the rest of the daemon, with none of the    *)
(* clocks, signals and ticks it works with: a hibernation the process      *)
(* lived through is answered by dropping the stream and asking for an      *)
(* inbox read, once; and the workload may be touched at any time.          *)
(***************************************************************************)
EXTENDS Naturals

CONSTANT MaxSleeps

VARIABLES
  frozen,      \* the guest is hibernated
  due,         \* it is restored, and its clock not set yet
  unanswered,  \* its clock has been set, and nothing answered the sleep
  woken,       \* this process has answered a wake before
  sleeps,      \* budget
  processingWake, wakeSync, dropped, agentState

ownVars == <<frozen, due, unanswered, woken, sleeps>>
sharedVars == <<processingWake, wakeSync, dropped, agentState>>
vars == <<ownVars, sharedVars>>

OwnInit ==
  /\ frozen = FALSE /\ due = FALSE /\ unanswered = FALSE /\ woken = FALSE
  /\ sleeps = 0

Init ==
  /\ OwnInit
  /\ processingWake = FALSE /\ wakeSync = FALSE /\ dropped = FALSE
  /\ agentState \in {"active", "idle"}

Gone == woken' = FALSE /\ unanswered' = FALSE /\ UNCHANGED <<frozen, due, sleeps>>

\* A sign of a wake is answered.  The first a process sees always is; a later
\* one only when there is a sleep behind it that nothing answered.
Answer ==
  /\ ~frozen
  /\ unanswered \/ ~woken
  /\ woken' = TRUE /\ unanswered' = FALSE
  /\ wakeSync' = TRUE /\ dropped' = TRUE
  /\ UNCHANGED <<frozen, due, sleeps, processingWake, agentState>>

Touch ==
  /\ ~frozen
  /\ agentState' = "active"
  /\ UNCHANGED <<ownVars, processingWake, wakeSync, dropped>>

Hear ==
  /\ ~frozen /\ processingWake
  /\ processingWake' = FALSE
  /\ UNCHANGED <<ownVars, wakeSync, dropped, agentState>>

FreezeGuest ==
  /\ ~frozen /\ ~due
  /\ sleeps < MaxSleeps
  /\ frozen' = TRUE /\ sleeps' = sleeps + 1
  /\ UNCHANGED <<due, unanswered, woken>>

Thaw ==
  /\ frozen
  /\ frozen' = FALSE /\ due' = TRUE
  /\ UNCHANGED <<unanswered, woken, sleeps, sharedVars>>

\* A process whose watch is not set up yet does not live through the sleep.
SetClock ==
  /\ ~frozen /\ due
  /\ due' = FALSE
  /\ unanswered' \in BOOLEAN
  /\ UNCHANGED <<frozen, woken, sleeps, sharedVars>>

\* The rest of the daemon takes the read, reopens the stream, works and rests;
\* and the process may end.
Rest ==
  /\ UNCHANGED ownVars
  /\ wakeSync' \in {wakeSync, FALSE} /\ dropped' \in {dropped, FALSE}
  /\ processingWake' \in BOOLEAN
  /\ agentState' \in {"active", "idle"}

End ==
  /\ Gone
  /\ processingWake' = FALSE /\ wakeSync' = FALSE /\ dropped' = FALSE
  /\ UNCHANGED agentState

Next ==
  \/ Answer \/ Touch \/ Hear \/ Thaw \/ SetClock \/ Rest \/ End
  \/ FreezeGuest /\ UNCHANGED sharedVars

Spec == Init /\ [][Next]_vars
=============================================================================
