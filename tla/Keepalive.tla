----------------------------- MODULE Keepalive -----------------------------
(***************************************************************************)
(* The daemon's heartbeat: runKeepalive touching the workload while a turn *)
(* runs, and noticing a wake from hibernation by the runner's SIGCONT or   *)
(* by the clocks (wakeWatch), answering each wake once.  What is outside   *)
(* src/ is the world it watches: the runner freezing and restoring the     *)
(* guest, setting its wall clock after the restore and then signalling     *)
(* twice, either signal possibly missing, and small clock corrections.     *)
(*                                                                         *)
(* The code only ever compares how far the wall clock has run ahead of the *)
(* monotonic one, so a clock reading is that one number, skew.             *)
(***************************************************************************)
EXTENDS Integers

CONSTANTS
  Floor,        \* wakeSleepFloor
  SleepLengths, \* how long a hibernation may last
  Corrections,  \* single corrections of the wall clock
  MaxDrift,     \* bound: what all corrections together come to
  MaxSleeps     \* bound: hibernations

Magnitude(n) == IF n < 0 THEN -n ELSE n

ASSUME FloorAssumption == Floor \in Nat \ {0}
ASSUME CorrectionsAssumption == Corrections \subseteq Int
ASSUME MaxSleepsAssumption == MaxSleeps \in Nat
\* wake.go: the floor clears a clock's ordinary corrections and stays under the
\* shortest sleep there is.
ASSUME DriftAssumption == MaxDrift \in Nat /\ MaxDrift < Floor
ASSUME SleepAssumption ==
  /\ SleepLengths \subseteq Nat
  /\ \A s \in SleepLengths : s >= Floor + MaxDrift

VARIABLES
  (* the keepalive goroutine *)
  kpc,         \* "boot" is its first touch, before the watch is made
  touches,     \* touches it has still to make before it selects again
  calling,     \* TouchWorkload is in flight
  last,        \* w.last: the reading of the last tick
  woken,       \* w.woken
  handled,     \* w.handled: the reading of the last wake answered
  sig,         \* the SIGCONT channel holds a signal
  (* the world *)
  frozen,      \* the guest is hibernated
  unset,       \* length of the sleep the wall clock has not been set for yet
  resend,      \* signals the runner has still to send
  skew,        \* the wall clock less the monotonic one
  drift,       \* what the corrections so far come to
  sleeps,      \* budget
  unanswered,  \* history: the clock has been set after a sleep nobody answered
  (* shared with the rest of the daemon *)
  processing, processingWake, wakeSync, dropped, agentState

watchVars  == <<last, woken, handled>>
worldVars  == <<frozen, unset, resend, skew, drift, sleeps>>
keepVars   == <<kpc, touches, calling, watchVars, sig, worldVars, unanswered>>
sharedVars == <<processing, processingWake, wakeSync, dropped, agentState>>

KeepInit ==
  /\ kpc = "off" /\ touches = 0 /\ calling = FALSE
  /\ last = 0 /\ woken = FALSE /\ handled = 0 /\ sig = FALSE
  /\ frozen = FALSE /\ unset = 0 /\ resend = 0
  /\ skew = 0 /\ drift = 0 /\ sleeps = 0 /\ unanswered = FALSE

\* The goroutine starts with a touch.
KeepStart ==
  /\ kpc = "off"
  /\ kpc' = "boot" /\ touches' = 1
  /\ UNCHANGED <<calling, watchVars, sig, worldVars, unanswered>>

\* The end of the process.
KeepGone ==
  /\ kpc' = "off" /\ touches' = 0 /\ calling' = FALSE
  /\ last' = 0 /\ woken' = FALSE /\ handled' = 0 /\ sig' = FALSE
  /\ unanswered' = FALSE
  /\ UNCHANGED worldVars

-----------------------------------------------------------------------------
(* The goroutine. *)

Selecting == kpc = "loop" /\ touches = 0

\* touchActiveWorkload: the flag is read first, and the call made after it.
TouchCheck ==
  /\ touches > 0 /\ ~calling
  /\ IF processing THEN calling' = TRUE /\ UNCHANGED touches
                   ELSE touches' = touches - 1 /\ UNCHANGED calling
  /\ UNCHANGED <<kpc, watchVars, sig, worldVars, unanswered, sharedVars>>

TouchReturns ==
  /\ calling
  /\ calling' = FALSE /\ touches' = touches - 1
  /\ agentState' \in {agentState, "active"}
  /\ UNCHANGED <<kpc, watchVars, sig, worldVars, unanswered, processing,
                 processingWake, wakeSync, dropped>>

\* newWakeWatch, once the first touch is done.
Watch ==
  /\ kpc = "boot" /\ touches = 0
  /\ kpc' = "loop"
  /\ last' = skew
  /\ UNCHANGED <<touches, calling, woken, handled, sig, worldVars, unanswered,
                 sharedVars>>

\* MUTANT: a wake is told from a repeat of the last by the time between them
\* alone, so no second one is ever admitted.
AdmitsFirst == ~woken
\* MUTANT: every sign of a wake is one.
AdmitsAll == TRUE
\* watch.admit: no sleep since the last wake answered means a repeat of it.
Admits == woken => Magnitude(skew - handled) >= Floor

\* MUTANT: a wake touches once more for the read it asks for.
WokenTwice(n) ==
  IF Admits
  THEN /\ woken' = TRUE /\ handled' = skew /\ unanswered' = FALSE
       /\ dropped' = TRUE
       /\ wakeSync' = TRUE
       /\ touches' = n + 2
  ELSE /\ touches' = n
       /\ UNCHANGED <<woken, handled, unanswered, dropped, wakeSync>>

\* woken(cause), and the touches it leaves the goroutine with: the stream is
\* dropped, an inbox read asked for, and the turn in flight touched at once.
Woken(n) ==
  IF Admits
  THEN /\ woken' = TRUE /\ handled' = skew /\ unanswered' = FALSE
       /\ dropped' = TRUE
       /\ wakeSync' = TRUE
       /\ touches' = n + 1
  ELSE /\ touches' = n
       /\ UNCHANGED <<woken, handled, unanswered, dropped, wakeSync>>

OnProcessing ==
  /\ Selecting /\ processingWake
  /\ processingWake' = FALSE
  /\ touches' = 1
  /\ UNCHANGED <<kpc, calling, watchVars, sig, worldVars, unanswered, processing,
                 wakeSync, dropped, agentState>>

OnSignal ==
  /\ Selecting /\ sig
  /\ sig' = FALSE
  /\ Woken(0)
  /\ UNCHANGED <<kpc, calling, last, worldVars, processing, processingWake,
                 agentState>>

\* MUTANT: the signal is trusted to come, and a tick only touches.
OnTickDeaf ==
  /\ Selecting
  /\ last' = skew
  /\ touches' = 1
  /\ UNCHANGED <<kpc, calling, woken, handled, unanswered, sig, worldVars, sharedVars>>

\* A tick: the clocks since the last one, and a touch in any case.
OnTick ==
  /\ Selecting
  /\ last' = skew
  /\ IF skew - last >= Floor
     THEN Woken(1)
     ELSE touches' = 1 /\ UNCHANGED <<woken, handled, unanswered, dropped, wakeSync>>
  /\ UNCHANGED <<kpc, calling, sig, worldVars, processing, processingWake, agentState>>

KeepaliveStep ==
  /\ ~frozen
  /\ TouchCheck \/ TouchReturns \/ Watch \/ OnProcessing \/ OnSignal \/ OnTick

-----------------------------------------------------------------------------
(* The world. *)

FreezeGuest ==
  /\ ~frozen /\ unset = 0
  /\ sleeps < MaxSleeps
  /\ frozen' = TRUE /\ sleeps' = sleeps + 1
  /\ UNCHANGED <<kpc, touches, calling, watchVars, sig, unset, resend, skew, drift,
                 unanswered>>

\* The guest runs again, its wall clock still where the freeze left it.
Thaw ==
  /\ frozen
  /\ frozen' = FALSE
  /\ unset' \in SleepLengths
  /\ UNCHANGED <<kpc, touches, calling, watchVars, sig, resend, skew, drift, sleeps,
                 unanswered, sharedVars>>

\* The runner sets the wall clock, and has two signals to send.
SetClock ==
  /\ ~frozen /\ unset > 0
  /\ skew' = skew + unset /\ unset' = 0
  /\ resend' = 2
  /\ unanswered' = (kpc = "loop")
  /\ UNCHANGED <<kpc, touches, calling, watchVars, sig, frozen, drift, sleeps,
                 sharedVars>>

\* A signal reaches the process or goes missing; the channel holds one, and main
\* has it listen before the goroutine starts.
SendSignal ==
  /\ ~frozen /\ resend > 0
  /\ resend' = resend - 1
  /\ sig' \in {sig, TRUE}
  /\ UNCHANGED <<kpc, touches, calling, watchVars, frozen, unset, skew, drift, sleeps,
                 unanswered, sharedVars>>

Correct(d) ==
  /\ ~frozen
  /\ drift + Magnitude(d) <= MaxDrift
  /\ skew' = skew + d /\ drift' = drift + Magnitude(d)
  /\ UNCHANGED <<kpc, touches, calling, watchVars, sig, frozen, unset, resend, sleeps,
                 unanswered, sharedVars>>

World == Thaw \/ SetClock \/ SendSignal \/ \E d \in Corrections : Correct(d)

-----------------------------------------------------------------------------
(* The component on its own: turns begin and end, and Run takes the token   *)
(* that asks for a read.                                                    *)

Init ==
  /\ KeepInit
  /\ processing = FALSE /\ processingWake = FALSE /\ wakeSync = FALSE
  /\ dropped = FALSE /\ agentState \in {"active", "idle"}

Start == KeepStart /\ UNCHANGED sharedVars
Freeze == FreezeGuest /\ UNCHANGED sharedVars

Kill ==
  /\ kpc # "off" /\ ~frozen
  /\ KeepGone
  /\ processing' = FALSE /\ processingWake' = FALSE /\ wakeSync' = FALSE
  /\ dropped' = FALSE /\ UNCHANGED agentState

RunReads ==
  /\ kpc # "off" /\ ~frozen
  /\ \/ ~processing /\ processing' = TRUE /\ processingWake' = TRUE
        /\ wakeSync' = FALSE /\ UNCHANGED agentState
     \/ processing /\ processing' = FALSE /\ agentState' \in {agentState, "idle"}
        /\ UNCHANGED <<processingWake, wakeSync>>
  /\ dropped' = FALSE
  /\ UNCHANGED keepVars

Next == Start \/ KeepaliveStep \/ Freeze \/ World \/ Kill \/ RunReads

vars == <<keepVars, sharedVars>>

Spec == Init /\ [][Next]_vars

\* The calls the goroutine makes return (each has a deadline), a frozen guest is
\* woken, and the tick is taken: select chooses at random among what is ready,
\* so a tick that keeps being ready is not passed over for ever.  No signal need
\* ever arrive.
FairSpec ==
  /\ Spec
  /\ WF_vars(~frozen /\ (TouchCheck \/ TouchReturns)) /\ SF_vars(~frozen /\ OnTick)
  /\ WF_vars(Thaw)

-----------------------------------------------------------------------------
(* Properties. *)

RangesOK ==
  /\ kpc \in {"off", "boot", "loop"}
  /\ touches \in 0..2 /\ (calling => touches > 0)
  /\ last \in Int /\ handled \in Int /\ skew \in Int
  /\ unset \in {0} \union SleepLengths
  /\ resend \in 0..2
  /\ drift \in 0..MaxDrift /\ sleeps \in 0..MaxSleeps
  /\ agentState \in {"active", "idle"}

FlagsOK ==
  /\ calling \in BOOLEAN /\ woken \in BOOLEAN
  /\ sig \in BOOLEAN /\ frozen \in BOOLEAN /\ unanswered \in BOOLEAN
  /\ processing \in BOOLEAN /\ processingWake \in BOOLEAN /\ wakeSync \in BOOLEAN
  /\ dropped \in BOOLEAN

\* The type invariant: the goroutine owes at most two touches, one for the tick
\* and one for the wake it showed.
TypeOK == RangesOK /\ FlagsOK

\* The clock makes a wake certain: while a sleep is unanswered the next tick
\* will find the jump and admit it, whatever signals went missing, whatever was
\* answered before and however the clock has been corrected since.
SleepShows == unanswered => skew - last >= Floor /\ Admits

\* What the two clock properties rest on.  Since the last tick, and since the
\* last wake answered, the clocks have only drifted apart, unless there is a
\* sleep nobody answered in between, which shows behind any drift.
WatchInv ==
  /\ unanswered \/ woken => kpc = "loop"
  /\ kpc = "loop" => skew - last >= -drift
  /\ woken => skew - handled >= -drift
  /\ woken /\ ~unanswered => skew - handled <= drift
  /\ unanswered => skew - last >= Floor + MaxDrift - drift
  /\ unanswered /\ woken => skew - handled >= Floor + MaxDrift - drift

\* The signs of one wake are answered once, and nothing else drops the stream or
\* asks for a read: the first sign a process sees is answered, a later one only
\* when there is a sleep behind it that nothing answered before.
Promise == INSTANCE WakeAnswers WITH due <- unset > 0
AnswersWakesOnce == Promise!Spec

\* Every sleep is answered, even when both signals go missing, unless the
\* process ends.
SleepAnswered == unanswered ~> ~unanswered
=============================================================================
