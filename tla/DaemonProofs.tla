---------------------------- MODULE DaemonProofs ----------------------------
(***************************************************************************)
(* What TLAPS proves of Daemon, for any number of items, page size, agent  *)
(* CLI and budget of faults, kills, broken streams and sleeps.             *)
(***************************************************************************)
EXTENDS Daemon, TLAPS

USE LoopConstants, StreamConstants, SleepConstants
    DEF LoopConstants, StreamConstants, SleepConstants

-----------------------------------------------------------------------------
(* Types. *)

LEMMA BackoffsClose ==
  /\ 1 \in Sync!Backoffs /\ 1 \in Stream!SubBackoffs
  /\ \A b \in Sync!Backoffs : Sync!NextBackoff(b) \in Sync!Backoffs
  /\ \A b \in Stream!SubBackoffs : Stream!NextSubBackoff(b) \in Stream!SubBackoffs
BY DEF Sync!Backoffs, Sync!NextBackoff, Stream!SubBackoffs, Stream!NextSubBackoff

\* The goroutine Run is, at each of its steps.
LEMMA RunStepRanges ==
  ASSUME Sync!RangesOK, Sync!Daemon
  PROVE  Sync!RangesOK'
<1> USE DEF Sync!RangesOK, Sync!serviceVars, Sync!historyVars, Sync!readVars,
            Sync!retryVars, Sync!chanVars, Sync!budgetVars, Sync!Phases, Sync!Items
<1>1. CASE Sync!OnWakeSync \/ Sync!OnWake \/ Sync!OnRetry
  BY <1>1 DEF Sync!OnWakeSync, Sync!OnWake, Sync!OnRetry, Sync!BeginSync
<1>2. CASE Sync!FetchPage
  <2>1. PICK last \in {cursor} \union Sync!After(cursor) :
          page' = {i \in Sync!After(cursor) : i <= last} /\ cursor' = last
    BY <1>2 DEF Sync!FetchPage
  <2>2. Sync!After(cursor) \subseteq 1..accepted
    BY DEF Sync!After, Sync!Outstanding
  <2>3. cursor' \in 0..accepted
    BY <2>1, <2>2
  <2>4. page' \subseteq 1..cursor'
    BY <2>1, <2>2
  <2>5. /\ pc' = "next" /\ relisted' \subseteq relisted \union late
        /\ UNCHANGED <<accepted, acked, late, agentState, answered, owed, backoff, faults,
                       crashes>>
    BY <1>2 DEF Sync!FetchPage
  <2>6. QED
    BY <2>3, <2>4, <2>5
<1>3. CASE Sync!FetchFails \/ Sync!McpNotReady
  <2>1. Sync!Fault /\ Sync!FailSync
        /\ UNCHANGED <<accepted, acked, late, agentState, answered, owed, relisted, crashes>>
    BY <1>3 DEF Sync!FetchFails, Sync!McpNotReady
  <2>2. QED
    BY <2>1, BackoffsClose DEF Sync!Fault, Sync!FailSync, Sync!EndRead
<1>4. CASE Sync!NextPage \/ Sync!TakeItem \/ Sync!Report
  BY <1>4 DEF Sync!NextPage, Sync!TakeItem, Sync!Report
<1>5. CASE Sync!ReadDone
  BY <1>5 DEF Sync!ReadDone, Sync!EndRead, Sync!Backoffs
<1>6. ASSUME NEW i \in Sync!Items, Sync!Handle(i) PROVE Sync!RangesOK'
  <2>1. CASE Sync!TurnEnds(i)
    BY <2>1 DEF Sync!TurnEnds, Sync!Head
  <2>2. CASE Sync!TurnFails(i)
    BY <2>2, BackoffsClose
       DEF Sync!TurnFails, Sync!Fault, Sync!NoFault, Sync!FailSync, Sync!EndRead
  <2>3. CASE Sync!TurnTerminal(i)
    BY <2>3 DEF Sync!TurnTerminal, Sync!Fault, Sync!Gone, Sync!Backoffs
  <2>4. CASE Sync!NothingToPublish(i) \/ Sync!Publish(i)
    BY <2>4 DEF Sync!NothingToPublish, Sync!Publish
  <2>5. CASE Sync!PublishFails(i)
    BY <2>5, BackoffsClose DEF Sync!PublishFails, Sync!Fault, Sync!FailSync, Sync!EndRead
  <2>6. CASE Sync!Ack(i)
    BY <2>6 DEF Sync!Ack, Sync!Head
  <2>7. CASE Sync!AckFails(i)
    BY <2>7, BackoffsClose
       DEF Sync!AckFails, Sync!Fault, Sync!FailSync, Sync!EndRead, Sync!Head
  <2>8. QED
    BY <1>6, <2>1, <2>2, <2>3, <2>4, <2>5, <2>6, <2>7 DEF Sync!Handle
<1>7. QED
  BY <1>1, <1>2, <1>3, <1>4, <1>5, <1>6 DEF Sync!Daemon

LEMMA RunStepFlags ==
  ASSUME Sync!FlagsOK, Sync!Daemon
  PROVE  Sync!FlagsOK'
<1> USE DEF Sync!FlagsOK, Sync!serviceVars, Sync!historyVars, Sync!readVars,
            Sync!retryVars, Sync!chanVars, Sync!budgetVars
<1>1. CASE Sync!OnWakeSync \/ Sync!OnWake \/ Sync!OnRetry
  BY <1>1 DEF Sync!OnWakeSync, Sync!OnWake, Sync!OnRetry, Sync!BeginSync
<1>2. CASE Sync!FetchPage
  BY <1>2 DEF Sync!FetchPage
<1>3. CASE Sync!FetchFails \/ Sync!McpNotReady \/ Sync!ReadDone
  BY <1>3 DEF Sync!FetchFails, Sync!McpNotReady, Sync!ReadDone, Sync!FailSync, Sync!EndRead
<1>4. CASE Sync!NextPage \/ Sync!TakeItem \/ Sync!Report
  BY <1>4 DEF Sync!NextPage, Sync!TakeItem, Sync!Report
<1>5. CASE \E i \in Sync!Items : Sync!Handle(i)
  BY <1>5 DEF Sync!Handle, Sync!TurnEnds, Sync!TurnFails, Sync!TurnTerminal,
              Sync!NothingToPublish, Sync!Publish, Sync!PublishFails, Sync!Ack,
              Sync!AckFails, Sync!FailSync, Sync!EndRead, Sync!Gone
<1>6. QED
  BY <1>1, <1>2, <1>3, <1>4, <1>5 DEF Sync!Daemon

\* The stream's goroutine and the service.
LEMMA StreamStepTypes ==
  ASSUME Stream!SubTypeOK, Stream!SubscriberStep \/ Stream!Service
  PROVE  Stream!SubTypeOK'
<1> USE DEF Stream!SubTypeOK, Stream!SubPhases, Stream!Links
<1>1. CASE Stream!NewAttempt \/ Stream!Subscribed \/ Stream!SubscribeFails
  <2>1. CASE Stream!NewAttempt
    BY <2>1 DEF Stream!NewAttempt
  <2>2. CASE Stream!Subscribed
    BY <2>2, BackoffsClose DEF Stream!Subscribed
  <2>3. CASE Stream!SubscribeFails
    <3>1. breaks' \in 0..MaxBreaks
      BY <2>3 DEF Stream!SubscribeFails, Stream!Break
    <3>2. QED
      BY <2>3, <3>1 DEF Stream!SubscribeFails
  <2>4. QED
    BY <1>1, <2>1, <2>2, <2>3
<1>2. CASE (\E i \in 1..NumItems : Stream!RecvCreated(i)) \/ Stream!RecvDropped
           \/ Stream!RecvFails
  BY <1>2 DEF Stream!RecvCreated, Stream!RecvDropped, Stream!RecvFails
<1>3. CASE Stream!WaitOver
  <2>1. subBackoff' \in Stream!SubBackoffs
    BY <1>3, BackoffsClose DEF Stream!WaitOver
  <2>2. QED
    BY <1>3, <2>1 DEF Stream!WaitOver
<1>4. CASE Stream!Register \/ Stream!LinkBreaks
  <2>1. breaks' \in 0..MaxBreaks
    BY <1>4 DEF Stream!Register, Stream!LinkBreaks, Stream!Break
  <2>2. link' \in {"open", "dead"} /\ link # "none"
        /\ UNCHANGED <<sub, reopened, dropped, subBackoff, news>>
    BY <1>4 DEF Stream!Register, Stream!LinkBreaks
  <2>3. QED
    BY <2>1, <2>2
<1>5. QED
  BY <1>1, <1>2, <1>3, <1>4 DEF Stream!SubscriberStep, Stream!Service

\* An ack that lands late.
LEMMA LateAckTypes ==
  ASSUME Sync!RangesOK, LateAck
  PROVE  Sync!RangesOK'
<1>1. acked' \subseteq acked \union late /\ late' \subseteq late
  BY DEF LateAck, Sync!AckLands
<1>2. UNCHANGED <<accepted, agentState, answered, owed, relisted, pc, page, cursor, backoff,
                  faults, crashes>>
  BY DEF LateAck, Sync!AckLands, Sync!historyVars, Sync!readVars, Sync!retryVars,
         Sync!budgetVars
<1>3. QED
  BY <1>1, <1>2 DEF Sync!RangesOK

\* What is outside the loop and the stream.
OthersOK ==
  /\ frozen \in BOOLEAN /\ due \in BOOLEAN /\ unanswered \in BOOLEAN
  /\ woken \in BOOLEAN /\ sleeps \in 0..MaxSleeps
  /\ beforeFirst \subseteq 1..accepted /\ unregistered \subseteq 1..accepted

LEMMA AcceptedGrows ==
  ASSUME Sync!RangesOK, Sync!Daemon
  PROVE  accepted' = accepted
BY DEF Sync!Daemon, Sync!OnWakeSync, Sync!OnWake, Sync!OnRetry, Sync!FetchPage,
       Sync!FetchFails, Sync!NextPage, Sync!ReadDone, Sync!TakeItem, Sync!McpNotReady,
       Sync!Handle, Sync!TurnEnds, Sync!TurnFails, Sync!TurnTerminal, Sync!NothingToPublish,
       Sync!Publish, Sync!PublishFails, Sync!Ack, Sync!AckFails, Sync!Report,
       Sync!serviceVars

LEMMA TypeStep == TypeOK /\ [Next]_vars => TypeOK'
<1> SUFFICES ASSUME TypeOK, [Next]_vars PROVE TypeOK'
  OBVIOUS
<1>0. Sync!RangesOK /\ Sync!FlagsOK /\ Stream!SubTypeOK /\ OthersOK
  BY DEF TypeOK, Sync!TypeOK, OthersOK
<1> SUFFICES Sync!RangesOK' /\ Sync!FlagsOK' /\ Stream!SubTypeOK' /\ OthersOK'
  BY DEF TypeOK, Sync!TypeOK, OthersOK
<1>1. CASE Boot
  <2> USE DEF Boot, Sync!Boot, Sync!BeginSync, Stream!SubStart, Sync!serviceVars,
              Sync!historyVars, Sync!readVars, Sync!retryVars, Sync!budgetVars, keepOwn, gapVars
  <2>1. Sync!RangesOK'
    BY <1>0, <1>1 DEF Sync!RangesOK, Sync!Phases
  <2>2. Sync!FlagsOK'
    BY <1>0, <1>1 DEF Sync!FlagsOK
  <2>3. Stream!SubTypeOK' /\ OthersOK'
    BY <1>0, <1>1 DEF Stream!SubTypeOK, Stream!SubPhases, OthersOK
  <2>4. QED
    BY <2>1, <2>2, <2>3
<1>2. CASE Crash
  <2> USE DEF Crash, Sync!Crash, Sync!Gone, Stream!SubGone, Keep!Gone, Sync!serviceVars,
              Sync!historyVars
  <2>1. Sync!RangesOK'
    <3>1. late' \subseteq late \union page /\ page \subseteq 1..accepted
      BY <1>0, <1>2 DEF Sync!RangesOK
    <3>2. /\ UNCHANGED <<accepted, acked, agentState, answered, owed, relisted, faults>>
          /\ pc' = "down" /\ page' = {} /\ cursor' = 0 /\ backoff' = 1
          /\ crashes' \in 0..MaxCrashes
      BY <1>0, <1>2 DEF Sync!RangesOK
    <3>3. QED
      BY <1>0, <3>1, <3>2, BackoffsClose DEF Sync!RangesOK, Sync!Phases
  <2>2. Sync!FlagsOK'
    BY <1>2 DEF Sync!FlagsOK
  <2>3. Stream!SubTypeOK'
    BY <1>0, <1>2, BackoffsClose DEF Stream!SubTypeOK, Stream!SubPhases, Stream!Links
  <2>4. OthersOK'
    BY <1>0, <1>2 DEF OthersOK
  <2>5. QED
    BY <2>1, <2>2, <2>3, <2>4
<1>3. CASE RunStep
  <2>1. Sync!RangesOK' /\ Sync!FlagsOK' /\ accepted' = accepted
    BY <1>0, <1>3, RunStepRanges, RunStepFlags, AcceptedGrows DEF RunStep
  <2>2. CASE pc' = "down"
    <3>1. Stream!SubGone /\ Keep!Gone /\ beforeFirst' = {} /\ unregistered' = {}
      BY <1>3, <2>2 DEF RunStep
    <3>2. Stream!SubTypeOK'
      BY <1>0, <3>1, BackoffsClose
         DEF Stream!SubGone, Stream!SubTypeOK, Stream!SubPhases, Stream!Links
    <3>3. OthersOK'
      BY <1>0, <3>1 DEF Keep!Gone, OthersOK
    <3>4. QED
      BY <2>1, <3>2, <3>3
  <2>3. CASE pc' # "down"
    <3>1. UNCHANGED <<subOwn, dropped, keepOwn, gapVars>>
      BY <1>3, <2>3 DEF RunStep
    <3>2. QED
      BY <1>0, <2>1, <3>1
         DEF Stream!SubTypeOK, OthersOK, subOwn, keepOwn, gapVars
  <2>4. QED
    BY <2>2, <2>3
<1>4. CASE SubscriberStep \/ ServiceStep
  <2>1. Stream!SubTypeOK'
    BY <1>0, <1>4, StreamStepTypes DEF SubscriberStep, ServiceStep
  <2>2. wake' \in BOOLEAN
    BY <1>0, <1>4
       DEF SubscriberStep, ServiceStep, Stream!SubscriberStep, Stream!Service,
           Stream!NewAttempt, Stream!Subscribed, Stream!SubscribeFails, Stream!RecvCreated,
           Stream!RecvDropped, Stream!RecvFails, Stream!WaitOver, Stream!Register,
           Stream!LinkBreaks, Sync!FlagsOK, Stream!SubTypeOK
  <2>3. UNCHANGED <<syncOwn, keepOwn, agentState, processing, wakeSync, processingWake, gapVars>>
    BY <1>4 DEF SubscriberStep, ServiceStep
  <2>4. Sync!RangesOK' /\ Sync!FlagsOK'
    BY <1>0, <2>2, <2>3 DEF Sync!RangesOK, Sync!FlagsOK, syncOwn
  <2>5. OthersOK'
    BY <1>0, <2>3 DEF OthersOK, keepOwn, gapVars, syncOwn
  <2>6. QED
    BY <2>1, <2>4, <2>5
<1>5. CASE KeepaliveStep \/ RunnerStep
  <2>1. UNCHANGED <<syncOwn, subOwn, processing, wake, gapVars>>
    BY <1>5 DEF KeepaliveStep, RunnerStep
  <2>2. /\ agentState' \in {agentState, "active"} /\ dropped' \in {dropped, TRUE}
        /\ wakeSync' \in {wakeSync, TRUE} /\ processingWake' \in {processingWake, FALSE}
    BY <1>5 DEF KeepaliveStep, RunnerStep, Keep!Answer, Keep!Touch, Keep!Hear, Keep!Thaw,
                Keep!SetClock, Keep!ownVars, Keep!sharedVars
  <2>3. frozen' \in BOOLEAN /\ due' \in BOOLEAN /\ unanswered' \in BOOLEAN
        /\ woken' \in BOOLEAN /\ sleeps' = sleeps
    BY <1>0, <1>5
       DEF OthersOK, KeepaliveStep, RunnerStep, Keep!Answer, Keep!Touch, Keep!Hear, Keep!Thaw,
           Keep!SetClock, Keep!ownVars, Keep!sharedVars
  <2>4. Sync!RangesOK' /\ Sync!FlagsOK'
    BY <1>0, <2>1, <2>2 DEF Sync!RangesOK, Sync!FlagsOK, syncOwn
  <2>5. Stream!SubTypeOK' /\ OthersOK'
    BY <1>0, <2>1, <2>2, <2>3 DEF Stream!SubTypeOK, OthersOK, subOwn, syncOwn, gapVars
  <2>6. QED
    BY <2>4, <2>5
<1>6. CASE Freeze
  <2> USE DEF Freeze, Keep!FreezeGuest, Stream!FreezeLink, syncOwn, gapVars
  <2>1. Sync!RangesOK' /\ Sync!FlagsOK'
    BY <1>0, <1>6 DEF Sync!RangesOK, Sync!FlagsOK
  <2>2. Stream!SubTypeOK' /\ OthersOK'
    BY <1>0, <1>6 DEF Stream!SubTypeOK, Stream!Links, OthersOK
  <2>3. QED
    BY <2>1, <2>2
<1>7. CASE Accept
  <2> USE DEF Accept, Sync!AcceptItem, Stream!Announce, keepOwn
  <2>1. Sync!RangesOK' /\ Sync!FlagsOK'
    BY <1>0, <1>7 DEF Sync!RangesOK, Sync!FlagsOK
  <2>2. Stream!SubTypeOK'
    BY <1>0, <1>7 DEF Stream!SubTypeOK
  <2>3. OthersOK'
    <3>1. accepted' \in 1..accepted' /\ 1..accepted \subseteq 1..accepted'
      BY <1>0, <1>7 DEF Sync!RangesOK
    <3>2. beforeFirst' \subseteq beforeFirst \union {accepted'}
          /\ unregistered' \subseteq unregistered \union {accepted'}
      BY <1>7
    <3>3. UNCHANGED keepOwn
      BY <1>7
    <3>4. QED
      BY <1>0, <3>1, <3>2, <3>3 DEF OthersOK
  <2>4. QED
    BY <2>1, <2>2, <2>3
<1>8. CASE LateAck
  <2>1. Sync!RangesOK'
    BY <1>0, <1>8, LateAckTypes
  <2>2. UNCHANGED <<subOwn, dropped, keepOwn, gapVars, accepted, more, text, mcpReady,
                    processing, retry, wake, wakeSync, processingWake>>
    BY <1>8 DEF LateAck, Sync!AckLands, Sync!readVars, Sync!retryVars, Sync!chanVars
  <2>3. Sync!FlagsOK' /\ Stream!SubTypeOK' /\ OthersOK'
    BY <1>0, <2>2 DEF Sync!FlagsOK, Stream!SubTypeOK, OthersOK, subOwn, keepOwn, gapVars
  <2>4. QED
    BY <2>1, <2>3
<1>9. CASE UNCHANGED vars
  BY <1>0, <1>9
     DEF vars, syncOwn, subOwn, keepOwn, gapVars, Sync!RangesOK, Sync!FlagsOK,
         Stream!SubTypeOK, OthersOK
<1>10. QED
  BY <1>1, <1>2, <1>3, <1>4, <1>5, <1>6, <1>7, <1>8, <1>9 DEF Next

LEMMA InitTypes == Init => TypeOK
<1> SUFFICES ASSUME Init PROVE TypeOK
  OBVIOUS
<1>1. Sync!RangesOK
  <2>1. accepted = 0 /\ acked = {} /\ late = {} /\ agentState \in {"active", "idle"}
        /\ answered = {} /\ owed = {} /\ relisted = {} /\ pc = "down" /\ page = {} /\ cursor = 0
        /\ backoff = 1 /\ faults = 0 /\ crashes = 0
    BY DEF Init, Sync!Init
  <2>2. QED
    BY <2>1, BackoffsClose DEF Sync!RangesOK, Sync!Phases
<1>2. Sync!FlagsOK
  BY DEF Init, Sync!Init, Sync!FlagsOK
<1>3. Stream!SubTypeOK
  <2>1. sub = "off" /\ reopened = FALSE /\ dropped = FALSE /\ subBackoff = 1
        /\ link = "none" /\ news = {} /\ breaks = 0
    BY DEF Init, Stream!SubInit
  <2>2. breaks \in 0..MaxBreaks
    BY <2>1
  <2>3. news \subseteq Announced
    BY <2>1
  <2>4. QED
    BY <2>1, <2>2, <2>3, BackoffsClose DEF Stream!SubTypeOK, Stream!SubPhases, Stream!Links
<1>4. OthersOK
  <2>1. frozen \in BOOLEAN /\ due \in BOOLEAN /\ unanswered \in BOOLEAN /\ woken \in BOOLEAN
    BY DEF Init, Keep!OwnInit
  <2>2. sleeps \in 0..MaxSleeps
    BY DEF Init, Keep!OwnInit
  <2>3. beforeFirst \subseteq 1..accepted /\ unregistered \subseteq 1..accepted
    BY DEF Init
  <2>4. QED
    BY <2>1, <2>2, <2>3 DEF OthersOK
<1>5. QED
  BY <1>1, <1>2, <1>3, <1>4 DEF TypeOK, Sync!TypeOK, OthersOK

\* The variables of the daemon as a whole keep their types.
THEOREM TypeCorrect == Spec => []TypeOK
BY InitTypes, TypeStep, PTL DEF Spec

-----------------------------------------------------------------------------
(* What a read holds, and why no turn is frozen. *)

\* Where Run's goroutine is says what it holds; what it holds is unacknowledged,
\* but for what a late ack has acknowledged since the read.
LoopOK ==
  /\ pc \in {"down", "idle"} => cursor = 0
  /\ pc \in {"down", "idle", "fetch"} => page = {}
  /\ page \intersect (acked \union late) \subseteq relisted
  /\ pc \in {"turn", "publish", "ack"} => page # {}

\* Where Run's goroutine is between two calls, and what the end of the read or
\* of the process leaves of the rest.
LEMMA ReadsKeepLoopOK ==
  ASSUME Sync!RangesOK, LoopOK, Sync!Daemon
  PROVE  LoopOK'
<1> USE DEF LoopOK, Sync!serviceVars, Sync!historyVars, Sync!readVars, Sync!retryVars,
            Sync!chanVars, Sync!budgetVars
<1>1. CASE Sync!OnWakeSync \/ Sync!OnWake \/ Sync!OnRetry
  BY <1>1 DEF Sync!OnWakeSync, Sync!OnWake, Sync!OnRetry, Sync!BeginSync
<1>2. CASE Sync!FetchPage
  <2>1. /\ page' \subseteq Sync!After(cursor) /\ pc' = "next"
        /\ UNCHANGED <<acked, late>> /\ relisted' = relisted \union (page' \intersect late)
    BY <1>2 DEF Sync!FetchPage
  <2>2. QED
    BY <2>1 DEF Sync!After, Sync!Outstanding
<1>3. CASE Sync!FetchFails \/ Sync!McpNotReady \/ Sync!ReadDone
  BY <1>3 DEF Sync!FetchFails, Sync!McpNotReady, Sync!ReadDone, Sync!FailSync, Sync!EndRead
<1>4. CASE Sync!NextPage \/ Sync!TakeItem \/ Sync!Report
  BY <1>4 DEF Sync!NextPage, Sync!TakeItem, Sync!Report
<1>5. ASSUME NEW i \in Sync!Items, Sync!Handle(i) PROVE LoopOK'
  <2>1. CASE Sync!TurnEnds(i) \/ Sync!NothingToPublish(i) \/ Sync!Publish(i)
    BY <2>1 DEF Sync!TurnEnds, Sync!NothingToPublish, Sync!Publish
  <2>2. CASE Sync!TurnFails(i) \/ Sync!PublishFails(i) \/ Sync!AckFails(i)
    BY <2>2 DEF Sync!TurnFails, Sync!PublishFails, Sync!AckFails, Sync!FailSync, Sync!EndRead
  <2>3. CASE Sync!TurnTerminal(i)
    BY <2>3 DEF Sync!TurnTerminal, Sync!Gone
  <2>4. CASE Sync!Ack(i)
    BY <2>4 DEF Sync!Ack
  <2>5. QED
    BY <1>5, <2>1, <2>2, <2>3, <2>4 DEF Sync!Handle
<1>6. QED
  BY <1>1, <1>2, <1>3, <1>4, <1>5 DEF Sync!Daemon

LEMMA LoopStep == TypeOK /\ LoopOK /\ [Next]_vars => LoopOK'
<1> SUFFICES ASSUME TypeOK, LoopOK, [Next]_vars PROVE LoopOK'
  OBVIOUS
<1>1. CASE Boot
  BY <1>1 DEF Boot, Sync!Boot, Sync!BeginSync, Sync!readVars, Sync!serviceVars, LoopOK
<1>2. CASE Crash
  BY <1>2 DEF Crash, Sync!Crash, Sync!Gone, LoopOK
<1>3. CASE RunStep
  BY <1>3, ReadsKeepLoopOK DEF RunStep, TypeOK, Sync!TypeOK
<1>4. CASE Accept
  BY <1>4 DEF Accept, LoopOK
<1>5. CASE SubscriberStep \/ ServiceStep \/ KeepaliveStep \/ RunnerStep \/ Freeze
           \/ UNCHANGED vars
  <2>1. UNCHANGED syncOwn
    BY <1>5 DEF SubscriberStep, ServiceStep, KeepaliveStep, RunnerStep, Freeze, vars
  <2>2. QED
    BY <2>1 DEF syncOwn, LoopOK
<1>6. CASE LateAck
  <2>1. acked' \union late' \subseteq acked \union late
    BY <1>6 DEF LateAck, Sync!AckLands
  <2>2. UNCHANGED <<pc, page, cursor, relisted>>
    BY <1>6 DEF LateAck, Sync!AckLands, Sync!historyVars, Sync!readVars
  <2>3. QED
    BY <2>1, <2>2 DEF LoopOK
<1>7. QED
  BY <1>1, <1>2, <1>3, <1>4, <1>5, <1>6 DEF Next

\* A freeze finds the inbox empty, so no turn is under way but one on an item a
\* late ack has acknowledged.
LEMMA FrozenStep ==
  TypeOK /\ LoopOK /\ NeverFrozenMidTurn /\ [Next]_vars => NeverFrozenMidTurn'
<1> SUFFICES ASSUME TypeOK, LoopOK, NeverFrozenMidTurn, [Next]_vars
             PROVE  NeverFrozenMidTurn'
  OBVIOUS
<1>1. CASE Boot \/ Crash \/ RunStep
  <2>1. ~frozen /\ frozen' = frozen
    BY <1>1 DEF Boot, Crash, RunStep, Keep!Gone, keepOwn
  <2>2. QED
    BY <2>1 DEF NeverFrozenMidTurn
<1>2. CASE Freeze
  <2>1. UNCHANGED <<pc, page, relisted>> /\ Sync!Outstanding = {}
    BY <1>2 DEF Freeze, syncOwn
  <2>2. page \subseteq acked
    BY <2>1 DEF TypeOK, Sync!TypeOK, Sync!RangesOK, Sync!Outstanding
  <2>3. QED
    BY <2>1, <2>2 DEF LoopOK, NeverFrozenMidTurn
<1>3. CASE SubscriberStep \/ ServiceStep \/ Accept \/ LateAck \/ UNCHANGED vars
  <2>1. UNCHANGED <<pc, page, relisted, frozen>>
    BY <1>3 DEF SubscriberStep, ServiceStep, Accept, LateAck, Sync!AckLands,
                Sync!historyVars, Sync!readVars, vars, syncOwn, keepOwn
  <2>2. QED
    BY <2>1 DEF NeverFrozenMidTurn
<1>4. CASE KeepaliveStep \/ RunnerStep
  <2>1. UNCHANGED <<pc, page, relisted>> /\ (frozen' = frozen \/ ~frozen')
    BY <1>4 DEF KeepaliveStep, RunnerStep, Keep!Answer, Keep!Touch, Keep!Hear, Keep!Thaw,
                Keep!SetClock, Keep!ownVars, syncOwn
  <2>2. QED
    BY <2>1 DEF NeverFrozenMidTurn
<1>5. QED
  BY <1>1, <1>2, <1>3, <1>4 DEF Next

\* The workload is never frozen between putting an item to the agent and
\* acknowledging it, but in the turn a late ack has made one too many
\* (reportWorkloadIdle in the turn loop).
THEOREM NoTurnIsFrozen == Spec => []NeverFrozenMidTurn
<1>1. Init => TypeOK /\ LoopOK /\ NeverFrozenMidTurn
  <2>1. Init => TypeOK
    BY InitTypes
  <2>2. Init => LoopOK /\ NeverFrozenMidTurn
    BY DEF Init, Sync!Init, LoopOK, NeverFrozenMidTurn
  <2>3. QED
    BY <2>1, <2>2
<1>2. QED
  BY <1>1, TypeStep, LoopStep, FrozenStep, PTL DEF Spec

-----------------------------------------------------------------------------
(* Nothing is stranded. *)

\* The goroutine that holds a stream is the one that receives from it.
StreamOK ==
  /\ sub = "recv" <=> link # "none"
  /\ sub = "recv" => reopened

\* While a read is under way, the retry timer it may clear answers for nothing.
HeardNow(i) ==
  \/ pc = "down" \/ wake \/ wakeSync
  \/ sub # "recv" /\ reopened
  \/ sub = "recv" /\ link = "dead"
  \/ Sync!ReadWillList(i) \/ i \in news

Covered(i) == HeardNow(i) \/ (retry /\ pc = "idle")

\* What a step of Run's goroutine can do to the read it is making: begin one at
\* the first page, give it up with the timer armed, or go on with it, and then
\* nothing it was still to list is left out but what it acknowledges.
LEMMA ReadGoesOn ==
  ASSUME Sync!RangesOK, LoopOK, Sync!Daemon, pc' # "down"
  PROVE  /\ Sync!Outstanding' \subseteq Sync!Outstanding
         /\ \/ pc' = "fetch" /\ cursor' = 0
            \/ pc' = "idle" /\ retry'
            \/ /\ pc \notin {"down", "idle"} /\ UNCHANGED <<wake, wakeSync>>
               /\ \A i \in Sync!Outstanding' :
                    Sync!ReadWillList(i) => Sync!ReadWillList(i)'
<1> DEFINE Goal == /\ Sync!Outstanding' \subseteq Sync!Outstanding
                   /\ \/ pc' = "fetch" /\ cursor' = 0
                      \/ pc' = "idle" /\ retry'
                      \/ /\ pc \notin {"down", "idle"} /\ UNCHANGED <<wake, wakeSync>>
                         /\ \A i \in Sync!Outstanding' :
                              Sync!ReadWillList(i) => Sync!ReadWillList(i)'
<1> USE DEF Sync!serviceVars, Sync!historyVars, Sync!readVars, Sync!retryVars,
            Sync!chanVars, Sync!budgetVars, Sync!Outstanding
<1>1. CASE Sync!OnWakeSync \/ Sync!OnWake \/ Sync!OnRetry
  BY <1>1 DEF Sync!OnWakeSync, Sync!OnWake, Sync!OnRetry, Sync!BeginSync, LoopOK
<1>2. CASE Sync!FetchPage
  <2>1. PICK last \in {cursor} \union Sync!After(cursor), token \in BOOLEAN :
          /\ Sync!After(last) # {} => token
          /\ page' = {i \in Sync!After(cursor) : i <= last}
          /\ cursor' = last /\ more' = token
    BY <1>2 DEF Sync!FetchPage
  <2>2. pc = "fetch" /\ pc' = "next" /\ UNCHANGED <<accepted, acked, wake, wakeSync>>
    BY <1>2 DEF Sync!FetchPage
  <2>3. page = {}
    BY <2>2 DEF LoopOK
  <2>4. cursor \in Int /\ last \in Int
    BY DEF Sync!After, Sync!RangesOK
  <2>5. ASSUME NEW i \in Sync!Outstanding, Sync!ReadWillList(i) PROVE Sync!ReadWillList(i)'
    <3>1. i \in Sync!After(cursor) /\ i \in Int
      BY <2>3, <2>5 DEF Sync!ReadWillList, Sync!After
    <3>2. CASE i <= last
      BY <2>1, <3>1, <3>2 DEF Sync!ReadWillList
    <3>3. CASE i > last
      <4>1. i \in Sync!After(last)
        BY <3>3 DEF Sync!After
      <4>2. QED
        BY <2>1, <3>3, <4>1 DEF Sync!ReadWillList
    <3>4. QED
      BY <2>4, <3>1, <3>2, <3>3
  <2>6. QED
    BY <2>2, <2>5
<1>3. CASE Sync!FetchFails \/ Sync!McpNotReady
  BY <1>3 DEF Sync!FetchFails, Sync!McpNotReady, Sync!FailSync, Sync!EndRead
<1>4. CASE Sync!ReadDone
  BY <1>4 DEF Sync!ReadDone, Sync!EndRead, Sync!ReadWillList
<1>5. CASE Sync!NextPage \/ Sync!TakeItem \/ Sync!Report
  BY <1>5 DEF Sync!NextPage, Sync!TakeItem, Sync!Report, Sync!ReadWillList
<1>6. ASSUME NEW i \in Sync!Items, Sync!Handle(i) PROVE Goal
  <2>1. CASE Sync!TurnEnds(i) \/ Sync!NothingToPublish(i) \/ Sync!Publish(i)
    <3>1. /\ pc \in {"turn", "publish"} /\ pc' \in {"publish", "ack"}
          /\ UNCHANGED <<accepted, acked, page, cursor, more, wake, wakeSync>>
      BY <2>1 DEF Sync!TurnEnds, Sync!NothingToPublish, Sync!Publish
    <3>2. QED
      BY <3>1 DEF Sync!ReadWillList
  <2>2. CASE Sync!TurnFails(i) \/ Sync!PublishFails(i) \/ Sync!AckFails(i)
    BY <2>2 DEF Sync!TurnFails, Sync!PublishFails, Sync!AckFails, Sync!FailSync, Sync!EndRead
  <2>3. CASE Sync!TurnTerminal(i)
    BY <2>3 DEF Sync!TurnTerminal, Sync!Gone
  <2>4. CASE Sync!Ack(i)
    BY <2>4 DEF Sync!Ack, Sync!ReadWillList
  <2>5. QED
    BY <1>6, <2>1, <2>2, <2>3, <2>4 DEF Sync!Handle
<1>7. QED
  BY <1>1, <1>2, <1>3, <1>4, <1>5, <1>6 DEF Sync!Daemon

LEMMA StreamOKStep == TypeOK /\ StreamOK /\ [Next]_vars => StreamOK'
<1> SUFFICES ASSUME TypeOK, StreamOK, [Next]_vars PROVE StreamOK'
  OBVIOUS
<1> USE DEF StreamOK
<1>1. CASE Boot
  BY <1>1 DEF Boot, Stream!SubStart
<1>2. CASE Crash
  BY <1>2 DEF Crash, Stream!SubGone
<1>3. CASE RunStep
  BY <1>3 DEF RunStep, Stream!SubGone, subOwn
<1>4. CASE SubscriberStep
  BY <1>4 DEF SubscriberStep, Stream!SubscriberStep, Stream!NewAttempt, Stream!Subscribed,
              Stream!SubscribeFails, Stream!RecvCreated, Stream!RecvDropped,
              Stream!RecvFails, Stream!WaitOver
<1>5. CASE ServiceStep
  BY <1>5 DEF ServiceStep, Stream!Service, Stream!Register, Stream!LinkBreaks
<1>6. CASE KeepaliveStep \/ RunnerStep \/ LateAck \/ UNCHANGED vars
  BY <1>6 DEF KeepaliveStep, RunnerStep, LateAck, vars, subOwn
<1>7. CASE Freeze
  BY <1>7 DEF Freeze, Stream!FreezeLink
<1>8. CASE Accept
  BY <1>8 DEF Accept
<1>9. QED
  BY <1>1, <1>2, <1>3, <1>4, <1>5, <1>6, <1>7, <1>8 DEF Next

\* A stream is opened, received from, broken, waited for and opened again; the
\* items that only it answered for are answered for by the reopening.
LEMMA StreamStrandsNothing ==
  ASSUME TypeOK, StreamOK, SubscriberStep \/ ServiceStep,
         NEW i \in Sync!Outstanding, Covered(i)
  PROVE  Covered(i)'
<1>1. UNCHANGED syncOwn /\ UNCHANGED wakeSync
  BY DEF SubscriberStep, ServiceStep
<1>2. Sync!ReadWillList(i)' = Sync!ReadWillList(i)
  BY <1>1 DEF syncOwn, Sync!ReadWillList
<1>3. pc' = pc /\ retry' = retry /\ wakeSync' = wakeSync
  BY <1>1 DEF syncOwn
<1>4. wake \in BOOLEAN /\ (link = "none" => news = {})
  BY DEF TypeOK, Sync!TypeOK, Sync!FlagsOK, Stream!SubTypeOK
<1> USE <1>2, <1>3, <1>4 DEF Covered, HeardNow, StreamOK
<1>5. CASE SubscriberStep
  <2>1. CASE Stream!NewAttempt \/ Stream!SubscribeFails \/ Stream!WaitOver
    BY <2>1 DEF Stream!NewAttempt, Stream!SubscribeFails, Stream!WaitOver
  <2>2. CASE Stream!Subscribed
    BY <2>2 DEF Stream!Subscribed
  <2>3. CASE \E j \in 1..NumItems : Stream!RecvCreated(j)
    BY <2>3 DEF Stream!RecvCreated
  <2>4. CASE Stream!RecvDropped \/ Stream!RecvFails
    BY <2>4 DEF Stream!RecvDropped, Stream!RecvFails
  <2>5. QED
    BY <1>5, <2>1, <2>2, <2>3, <2>4 DEF SubscriberStep, Stream!SubscriberStep
<1>6. CASE ServiceStep
  BY <1>6 DEF ServiceStep, Stream!Service, Stream!Register, Stream!LinkBreaks
<1>7. QED
  BY <1>5, <1>6

AllCovered == \A i \in Sync!Outstanding \ (beforeFirst \union unregistered) : Covered(i)

LEMMA AcceptStrandsNothing ==
  ASSUME Announced = 1..NumItems, TypeOK, StreamOK, AllCovered, Accept
  PROVE  AllCovered'
<1>1. /\ accepted' = accepted + 1 /\ accepted \in Nat /\ accepted' \in 1..NumItems
      /\ UNCHANGED <<acked, pc, page, cursor, more, retry, wake, wakeSync, sub, reopened, link>>
  BY DEF Accept, Sync!AcceptItem, TypeOK, Sync!TypeOK, Sync!RangesOK
<1>2. /\ news \subseteq news'
      /\ link = "open" => accepted' \in news'
  BY <1>1 DEF Accept, Stream!Announce
<1>3. beforeFirst \subseteq beforeFirst' /\ unregistered \subseteq unregistered'
  BY DEF Accept
<1>4. Sync!Outstanding' \subseteq Sync!Outstanding \union {accepted'}
  BY <1>1 DEF Sync!Outstanding
<1>5. ASSUME NEW i \in Sync!Outstanding, Covered(i) PROVE Covered(i)'
  BY <1>1, <1>2, <1>5 DEF Covered, HeardNow, Sync!ReadWillList
<1>6. \/ accepted' \in beforeFirst' \union unregistered'
      \/ Covered(accepted)'
  <2>1. CASE link = "open" \/ pc = "down"
    BY <1>1, <1>2, <2>1 DEF Covered, HeardNow
  <2>2. CASE Sync!ReadWillList(accepted')
    <3>1. Sync!ReadWillList(accepted)'
      BY <1>1, <2>2 DEF Sync!ReadWillList
    <3>2. QED
      BY <3>1 DEF Covered, HeardNow
  <2>3. CASE link = "dead"
    BY <1>1, <2>3 DEF Covered, HeardNow, StreamOK
  <2>4. CASE link \in {"none", "opening"} /\ pc # "down" /\ ~Sync!ReadWillList(accepted')
    <3>1. /\ ~reopened => accepted' \in beforeFirst'
          /\ link = "opening" => accepted' \in unregistered'
      BY <2>4 DEF Accept
    <3>2. link = "none" /\ reopened => Covered(accepted)'
      BY <1>1 DEF Covered, HeardNow, StreamOK
    <3>3. QED
      BY <2>4, <3>1, <3>2
  <2>5. QED
    BY <2>1, <2>2, <2>3, <2>4 DEF TypeOK, Stream!SubTypeOK, Stream!Links
<1>7. QED
  BY <1>3, <1>4, <1>5, <1>6 DEF AllCovered

LEMMA CoveredStep ==
  ASSUME Announced = 1..NumItems
  PROVE  TypeOK /\ LoopOK /\ StreamOK /\ AllCovered /\ [Next]_vars => AllCovered'
<1> SUFFICES ASSUME TypeOK, LoopOK, StreamOK, AllCovered, [Next]_vars PROVE AllCovered'
  OBVIOUS
<1>0. Sync!RangesOK
  BY DEF TypeOK, Sync!TypeOK
<1>1. ASSUME pc' = "down" PROVE AllCovered'
  BY <1>1 DEF AllCovered, Covered, HeardNow
<1>2. ASSUME pc' = "fetch", cursor' = 0 PROVE AllCovered'
  BY <1>2 DEF AllCovered, Covered, HeardNow, Sync!ReadWillList, Sync!Outstanding
<1>3. CASE Boot
  BY <1>2, <1>3 DEF Boot, Sync!Boot, Sync!BeginSync, Sync!readVars, LoopOK
<1>4. CASE Crash
  BY <1>1, <1>4 DEF Crash, Sync!Crash, Sync!Gone
<1>5. CASE RunStep /\ pc' # "down"
  <2>1. UNCHANGED <<subOwn, gapVars>>
    BY <1>5 DEF RunStep
  <2>2. /\ Sync!Outstanding' \subseteq Sync!Outstanding
        /\ \/ pc' = "fetch" /\ cursor' = 0
           \/ pc' = "idle" /\ retry'
           \/ /\ pc \notin {"down", "idle"} /\ UNCHANGED <<wake, wakeSync>>
              /\ \A i \in Sync!Outstanding' :
                   Sync!ReadWillList(i) => Sync!ReadWillList(i)'
    BY <1>0, <1>5, ReadGoesOn DEF RunStep
  <2>3. CASE pc' = "idle" /\ retry'
    BY <2>3 DEF AllCovered, Covered
  <2>4. CASE /\ pc \notin {"down", "idle"} /\ UNCHANGED <<wake, wakeSync>>
             /\ \A i \in Sync!Outstanding' :
                  Sync!ReadWillList(i) => Sync!ReadWillList(i)'
    <3>1. ASSUME NEW i \in Sync!Outstanding', Covered(i) PROVE Covered(i)'
      BY <2>1, <2>4, <3>1 DEF Covered, HeardNow, subOwn
    <3>2. QED
      BY <2>1, <2>2, <3>1 DEF AllCovered, gapVars
  <2>5. QED
    BY <1>2, <2>2, <2>3, <2>4
<1>6. CASE SubscriberStep \/ ServiceStep
  <2>1. UNCHANGED <<syncOwn, gapVars>>
    BY <1>6 DEF SubscriberStep, ServiceStep
  <2>2. Sync!Outstanding' = Sync!Outstanding
    BY <2>1 DEF Sync!Outstanding, syncOwn
  <2>3. QED
    BY <1>6, <2>1, <2>2, StreamStrandsNothing DEF AllCovered, gapVars
<1>7. CASE KeepaliveStep \/ RunnerStep
  <2>1. UNCHANGED <<syncOwn, subOwn, wake, gapVars>> /\ (wakeSync => wakeSync')
    BY <1>7 DEF KeepaliveStep, RunnerStep, Keep!Answer, Keep!Touch, Keep!Hear, Keep!Thaw,
                Keep!SetClock, Keep!sharedVars
  <2>2. Sync!Outstanding' = Sync!Outstanding
    BY <2>1 DEF Sync!Outstanding, syncOwn
  <2>3. ASSUME NEW i \in Sync!Outstanding, Covered(i) PROVE Covered(i)'
    BY <2>1, <2>3 DEF Covered, HeardNow, Sync!ReadWillList, syncOwn, subOwn
  <2>4. QED
    BY <2>1, <2>2, <2>3 DEF AllCovered, gapVars
<1>8. CASE Freeze
  <2>1. Sync!Outstanding' = {}
    BY <1>8 DEF Freeze, Sync!Outstanding, syncOwn
  <2>2. QED
    BY <2>1 DEF AllCovered
<1>9. CASE Accept
  BY <1>9, AcceptStrandsNothing
<1>10. CASE UNCHANGED vars
  BY <1>10 DEF vars, syncOwn, subOwn, gapVars, AllCovered, Covered, HeardNow,
               Sync!ReadWillList, Sync!Outstanding
<1>11. CASE LateAck
  <2>1. UNCHANGED <<subOwn, gapVars, accepted, pc, page, cursor, more, retry, wake, wakeSync>>
    BY <1>11 DEF LateAck, Sync!AckLands, Sync!readVars, Sync!retryVars, Sync!chanVars
  <2>2. Sync!Outstanding' \subseteq Sync!Outstanding
    BY <1>11, <2>1 DEF LateAck, Sync!AckLands, Sync!Outstanding
  <2>3. ASSUME NEW i \in Sync!Outstanding, Covered(i) PROVE Covered(i)'
    BY <2>1, <2>3 DEF Covered, HeardNow, Sync!ReadWillList, subOwn
  <2>4. QED
    BY <2>1, <2>2, <2>3 DEF AllCovered, gapVars
<1>12. QED
  <2>1. CASE RunStep /\ pc' = "down"
    BY <1>1, <2>1
  <2>2. QED
    BY <2>1, <1>3, <1>4, <1>5, <1>6, <1>7, <1>8, <1>9, <1>10, <1>11 DEF Next

\* When no filter keeps an announcement out, no outstanding item is stranded,
\* whatever streams broke, reads failed, processes died or hibernations came
\* between: announced on the stream, or listed by a read that is under way or
\* promised (the subscriber's Wake, wakeSync and the retry timer of Run).
THEOREM NothingIsStranded ==
  ASSUME Announced = 1..NumItems
  PROVE  Spec => []NothingStranded
<1>1. Init => TypeOK /\ LoopOK /\ StreamOK /\ AllCovered
  <2>1. Init => TypeOK
    BY InitTypes
  <2>2. Init => LoopOK /\ StreamOK
    BY DEF Init, Sync!Init, Stream!SubInit, LoopOK, StreamOK
  <2>3. Init => AllCovered
    BY DEF Init, Sync!Init, AllCovered, Covered, HeardNow
  <2>4. QED
    BY <2>1, <2>2, <2>3
<1>2. TypeOK /\ LoopOK /\ StreamOK /\ AllCovered /\ [Next]_vars => AllCovered'
  BY CoveredStep
<1>3. AllCovered => NothingStranded
  BY DEF AllCovered, NothingStranded, Covered, HeardNow, Heard, ReadPromised
<1>4. QED
  BY <1>1, <1>2, <1>3, TypeStep, LoopStep, StreamOKStep, PTL DEF Spec

=============================================================================
