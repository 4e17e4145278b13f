--------------------------- MODULE KeepaliveProofs ---------------------------
(***************************************************************************)
(* What TLAPS proves of Keepalive, for any floor, sleeps, corrections and  *)
(* number of hibernations its assumptions allow.                           *)
(***************************************************************************)
EXTENDS Keepalive, TLAPS

USE FloorAssumption, MaxSleepsAssumption, DriftAssumption
    DEF FloorAssumption, MaxSleepsAssumption, DriftAssumption

-----------------------------------------------------------------------------
(* Types. *)

LEMMA RangesStep == RangesOK /\ [Next]_vars => RangesOK'
<1> SUFFICES ASSUME RangesOK, [Next]_vars PROVE RangesOK'
  OBVIOUS
<1> USE DEF RangesOK, watchVars, worldVars, keepVars, sharedVars
<1>1. CASE Start \/ Kill
  BY <1>1 DEF Start, KeepStart, Kill, KeepGone
<1>2. CASE TouchCheck
  BY <1>2 DEF TouchCheck
<1>3. CASE TouchReturns
  BY <1>3 DEF TouchReturns
<1>4. CASE Watch
  BY <1>4 DEF Watch
<1>5. CASE OnProcessing
  BY <1>5 DEF OnProcessing
<1>6. CASE OnSignal
  BY <1>6 DEF OnSignal, Selecting, Woken
<1>7. CASE OnTick
  BY <1>7 DEF OnTick, Woken
<1>8. CASE Freeze
  BY <1>8 DEF Freeze, FreezeGuest
<1>9. CASE Thaw
  BY <1>9, SleepAssumption DEF SleepAssumption, Thaw
<1>10. CASE SetClock
  BY <1>10 DEF SetClock
<1>11. CASE SendSignal
  BY <1>11 DEF SendSignal
<1>12. ASSUME NEW d \in Corrections, Correct(d) PROVE RangesOK'
  BY <1>12, CorrectionsAssumption DEF CorrectionsAssumption, Correct, Magnitude
<1>13. CASE RunReads
  BY <1>13 DEF RunReads
<1>14. CASE UNCHANGED vars
  BY <1>14 DEF vars
<1>15. QED
  BY <1>1, <1>2, <1>3, <1>4, <1>5, <1>6, <1>7, <1>8, <1>9, <1>10, <1>11, <1>12,
     <1>13, <1>14 DEF Next, KeepaliveStep, World

LEMMA FlagsStep == FlagsOK /\ [Next]_vars => FlagsOK'
<1> SUFFICES ASSUME FlagsOK, [Next]_vars PROVE FlagsOK'
  OBVIOUS
<1> USE DEF FlagsOK, watchVars, worldVars, keepVars, sharedVars
<1>1. CASE Start \/ Kill
  BY <1>1 DEF Start, KeepStart, Kill, KeepGone
<1>2. CASE TouchCheck \/ TouchReturns \/ Watch \/ OnProcessing
  BY <1>2 DEF TouchCheck, TouchReturns, Watch, OnProcessing
<1>3. CASE OnSignal
  BY <1>3 DEF OnSignal, Woken
<1>4. CASE OnTick
  BY <1>4 DEF OnTick, Woken
<1>5. CASE Freeze \/ Thaw \/ SetClock \/ SendSignal
  BY <1>5 DEF Freeze, FreezeGuest, Thaw, SetClock, SendSignal
<1>6. CASE \E d \in Corrections : Correct(d)
  BY <1>6 DEF Correct
<1>7. CASE RunReads
  BY <1>7 DEF RunReads
<1>8. CASE UNCHANGED vars
  BY <1>8 DEF vars
<1>9. QED
  BY <1>1, <1>2, <1>3, <1>4, <1>5, <1>6, <1>7, <1>8 DEF Next, KeepaliveStep, World

LEMMA Types == Spec => []RangesOK /\ []FlagsOK
<1>1. Init => RangesOK
  BY DEF Init, KeepInit, RangesOK
<1>2. Init => FlagsOK
  BY DEF Init, KeepInit, FlagsOK
<1>3. QED
  BY <1>1, <1>2, RangesStep, FlagsStep, PTL DEF Spec

\* The keepalive's variables keep their types, and it never owes more than two
\* touches (TypeOK).
THEOREM TypeCorrect == Spec => []TypeOK
BY Types, PTL DEF TypeOK

-----------------------------------------------------------------------------
(* What the clocks show. *)

LEMMA WatchStep == RangesOK /\ WatchInv /\ [Next]_vars => WatchInv'
<1> SUFFICES ASSUME RangesOK, WatchInv, [Next]_vars PROVE WatchInv'
  OBVIOUS
<1> USE DEF WatchInv, RangesOK, watchVars, worldVars, keepVars, sharedVars
<1>1. CASE UNCHANGED <<kpc, watchVars, skew, drift, unanswered>>
  BY <1>1
<1>2. CASE Start
  BY <1>2 DEF Start, KeepStart
<1>3. CASE Kill
  BY <1>3 DEF Kill, KeepGone
<1>4. CASE Watch
  BY <1>4 DEF Watch
<1>5. ASSUME NEW n \in Nat, Selecting, Woken(n), UNCHANGED <<kpc, skew, drift>>,
             last' = last \/ last' = skew, last' = skew => Admits \/ ~unanswered
      PROVE  WatchInv'
  <2>1. CASE Admits
    <3>1. woken' = TRUE /\ unanswered' = FALSE /\ handled' = skew
      BY <1>5, <2>1 DEF Woken
    <3>2. kpc' = "loop" /\ skew' - last' >= -drift'
      BY <1>5 DEF Selecting
    <3>3. QED
      BY <1>5, <3>1, <3>2
  <2>2. CASE ~Admits
    <3>1. UNCHANGED <<woken, handled, unanswered>>
      BY <1>5, <2>2 DEF Woken
    <3>2. kpc' = "loop" /\ skew' - last' >= -drift'
      BY <1>5 DEF Selecting
    <3>3. QED
      BY <1>5, <2>2, <3>1, <3>2
  <2>3. QED
    BY <2>1, <2>2
<1>6. unanswered => Admits
  BY DEF Admits, Magnitude
<1>7. CASE OnSignal
  BY <1>5, <1>6, <1>7 DEF OnSignal
<1>8. CASE OnTick
  <2>1. CASE skew - last >= Floor
    BY <1>5, <1>6, <1>8, <2>1 DEF OnTick
  <2>2. CASE skew - last < Floor
    BY <1>8, <2>2 DEF OnTick, Selecting
  <2>3. QED
    BY <2>1, <2>2
<1>9. CASE SetClock
  <2>1. unset \in Int /\ unset >= Floor + MaxDrift
    BY <1>9, SleepAssumption DEF SleepAssumption, SetClock
  <2>2. skew' = skew + unset /\ UNCHANGED <<kpc, watchVars, drift>>
    BY <1>9 DEF SetClock
  <2>3. unanswered' <=> kpc = "loop"
    BY <1>9 DEF SetClock
  <2>4. QED
    BY <2>1, <2>2, <2>3
<1>10. ASSUME NEW d \in Corrections, Correct(d) PROVE WatchInv'
  BY <1>10, CorrectionsAssumption DEF CorrectionsAssumption, Correct, Magnitude
<1>11. CASE TouchCheck \/ TouchReturns \/ OnProcessing \/ Freeze \/ Thaw \/ SendSignal
            \/ RunReads \/ UNCHANGED vars
  BY <1>1, <1>11 DEF TouchCheck, TouchReturns, OnProcessing, Freeze, FreezeGuest, Thaw,
                     SendSignal, RunReads, vars
<1>12. QED
  BY <1>2, <1>3, <1>4, <1>7, <1>8, <1>9, <1>10, <1>11 DEF Next, KeepaliveStep, World

LEMMA WatchInvariant == Spec => []WatchInv
<1>1. Init => WatchInv
  BY DEF Init, KeepInit, WatchInv
<1>2. QED
  BY <1>1, WatchStep, Types, PTL DEF Spec

\* While a sleep is unanswered the clocks show it to the next tick, whichever
\* signals went missing and however the clock was corrected (SleepShows).
THEOREM ClocksShowSleep == Spec => []SleepShows
<1>1. RangesOK /\ WatchInv => SleepShows
  BY DEF RangesOK, WatchInv, SleepShows, Admits, Magnitude
<1>2. QED
  BY <1>1, Types, WatchInvariant, PTL

-----------------------------------------------------------------------------
(* The keepalive implements its promise. *)

LEMMA PromiseStep ==
  RangesOK /\ RangesOK' /\ FlagsOK' /\ WatchInv /\ [Next]_vars
    => [Promise!Next]_(Promise!vars)
<1> SUFFICES ASSUME RangesOK, RangesOK', FlagsOK', WatchInv, [Next]_vars
             PROVE  [Promise!Next]_(Promise!vars)
  OBVIOUS
<1> USE DEF watchVars, worldVars, keepVars, sharedVars
<1>1. CASE UNCHANGED <<frozen, unset, unanswered, woken, sleeps, processingWake, wakeSync,
                       dropped, agentState>>
  BY <1>1 DEF Promise!vars, Promise!ownVars, Promise!sharedVars
<1>2. ASSUME NEW n \in Nat, ~frozen, Woken(n),
             UNCHANGED <<frozen, unset, sleeps, processingWake, agentState>>
      PROVE  [Promise!Next]_(Promise!vars)
  <2>1. CASE Admits
    <3>1. unanswered \/ ~woken
      BY <2>1 DEF Admits, Magnitude, WatchInv, RangesOK
    <3>2. Promise!Answer
      BY <1>2, <2>1, <3>1 DEF Woken, Promise!Answer
    <3>3. QED
      BY <3>2 DEF Promise!Next
  <2>2. CASE ~Admits
    BY <1>1, <1>2, <2>2 DEF Woken
  <2>3. QED
    BY <2>1, <2>2
<1>3. CASE KeepaliveStep /\ OnSignal
  BY <1>2, <1>3 DEF KeepaliveStep, OnSignal
<1>4. CASE KeepaliveStep /\ OnTick
  BY <1>1, <1>2, <1>4 DEF KeepaliveStep, OnTick
<1>5. CASE ~frozen /\ TouchReturns
  <2>1. CASE agentState' = "active"
    <3>1. Promise!Touch
      BY <1>5, <2>1 DEF TouchReturns, Promise!Touch, Promise!ownVars
    <3>2. QED
      BY <3>1 DEF Promise!Next
  <2>2. CASE agentState' = agentState
    BY <1>1, <1>5, <2>2 DEF TouchReturns
  <2>3. QED
    BY <1>5, <2>1, <2>2 DEF TouchReturns
<1>6. CASE ~frozen /\ OnProcessing
  BY <1>6 DEF OnProcessing, Promise!Next, Promise!Hear, Promise!ownVars
<1>7. CASE Freeze
  BY <1>7 DEF Freeze, FreezeGuest, Promise!Next, Promise!FreezeGuest, Promise!sharedVars
<1>8. CASE Thaw
  BY <1>8, SleepAssumption DEF SleepAssumption, Thaw, Promise!Next, Promise!Thaw, Promise!sharedVars
<1>9. CASE SetClock
  <2>1. unanswered' \in BOOLEAN
    BY DEF FlagsOK
  <2>2. Promise!SetClock
    BY <1>9, <2>1 DEF SetClock, Promise!SetClock, Promise!sharedVars
  <2>3. QED
    BY <2>2 DEF Promise!Next
<1>10. CASE Kill
  BY <1>10 DEF Kill, KeepGone, Promise!Next, Promise!End, Promise!Gone
<1>11. CASE RunReads
  <2>1. processingWake' \in BOOLEAN /\ agentState' \in {"active", "idle"}
    BY DEF FlagsOK, RangesOK
  <2>2. Promise!Rest
    BY <1>11, <2>1 DEF RunReads, Promise!Rest, Promise!ownVars
  <2>3. QED
    BY <2>2 DEF Promise!Next
<1>12. CASE Start \/ TouchCheck \/ Watch \/ SendSignal \/ UNCHANGED vars
  BY <1>1, <1>12 DEF Start, KeepStart, TouchCheck, Watch, SendSignal, vars
<1>13. CASE \E d \in Corrections : Correct(d)
  BY <1>1, <1>13 DEF Correct
<1>14. QED
  BY <1>3, <1>4, <1>5, <1>6, <1>7, <1>8, <1>9, <1>10, <1>11, <1>12, <1>13
  DEF Next, KeepaliveStep, World

\* One wake, one answer: every behaviour of the keepalive is one WakeAnswers
\* allows (AnswersWakesOnce).
THEOREM Implements == Spec => AnswersWakesOnce
<1>1. Init => Promise!Init
  BY DEF Init, KeepInit, Promise!Init, Promise!OwnInit
<1>2. QED
  BY <1>1, PromiseStep, Types, WatchInvariant, PTL
  DEF Spec, AnswersWakesOnce, Promise!Spec
=============================================================================
