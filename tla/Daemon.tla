------------------------------- MODULE Daemon -------------------------------
(***************************************************************************)
(* The whole daemon serving an inbox: the goroutine Run is (InboxSync) and *)
(* the two it starts (Subscriber, and the keepalive by the promise         *)
(* Keepalive keeps, WakeAnswers), the channels between them, and           *)
(* the platform around them, which accepts items, announces them on the    *)
(* stream if there is one, freezes the workload when Runners holds it idle *)
(* and its inbox is empty, and restores it.                                *)
(***************************************************************************)
EXTENDS Integers, FiniteSets

CONSTANTS
  NumItems, PageSize, Sdk, DirectItems, EmptyItems, PostsFinal, MaxFaults, MaxCrashes,
  Announced, MaxBreaks, MaxSleeps

ASSUME LoopConstants ==
  /\ NumItems \in Nat /\ MaxFaults \in Nat /\ MaxCrashes \in Nat
  /\ PostsFinal \in BOOLEAN
ASSUME StreamConstants == Announced \subseteq 1..NumItems /\ MaxBreaks \in Nat
ASSUME SleepConstants == MaxSleeps \in Nat

VARIABLES
  accepted, acked, late, agentState, answered, owed, relisted, pc, page, cursor, more,
  text, mcpReady, processing, retry, backoff, wake, wakeSync, processingWake, faults,
  crashes,
  sub, reopened, dropped, subBackoff, link, news, breaks,
  frozen, due, unanswered, woken, sleeps,
  (* history: items accepted when no stream could announce them and no read *)
  (* under way was still to list them                                       *)
  beforeFirst,  \* ... because the first stream was not open yet
  unregistered  \* ... because the service had not registered the stream yet

Sync == INSTANCE InboxSync
Stream == INSTANCE Subscriber
Keep == INSTANCE WakeAnswers

gapVars == <<beforeFirst, unregistered>>
\* What belongs to one component alone.
syncOwn == <<accepted, acked, late, answered, owed, relisted, pc, page, cursor, more,
             text, mcpReady, retry, backoff, faults, crashes>>
subOwn  == <<sub, reopened, subBackoff, link, news, breaks>>
keepOwn == <<frozen, due, unanswered, woken, sleeps>>
vars == <<syncOwn, subOwn, keepOwn, agentState, processing, wake, wakeSync,
          processingWake, dropped, gapVars>>

Init == Sync!Init /\ Stream!SubInit /\ Keep!OwnInit /\ beforeFirst = {} /\ unregistered = {}

-----------------------------------------------------------------------------

\* Run starts the keepalive and the subscriber, and waits for the subscriber to
\* have started, not for its stream, before the initial read.
Boot ==
  /\ ~frozen
  /\ Sync!Boot /\ Stream!SubStart
  /\ UNCHANGED <<keepOwn, gapVars>>

Crash ==
  /\ ~frozen
  /\ Sync!Crash /\ Stream!SubGone /\ Keep!Gone
  /\ beforeFirst' = {} /\ unregistered' = {}

\* A step of Run's goroutine; the terminal one takes the process with it.
RunStep ==
  /\ ~frozen
  /\ Sync!Daemon
  /\ IF pc' = "down"
     THEN Stream!SubGone /\ Keep!Gone /\ beforeFirst' = {} /\ unregistered' = {}
     ELSE UNCHANGED <<subOwn, dropped, keepOwn, gapVars>>

\* An ack nobody waits for any more needs no guest to arrive.
LateAck ==
  /\ Sync!AckLands
  /\ UNCHANGED <<subOwn, dropped, keepOwn, gapVars>>

SubscriberStep ==
  /\ ~frozen
  /\ Stream!SubscriberStep
  /\ UNCHANGED <<syncOwn, keepOwn, agentState, processing, wakeSync, processingWake,
                 gapVars>>

ServiceStep ==
  /\ Stream!Service
  /\ UNCHANGED <<syncOwn, keepOwn, agentState, processing, wakeSync, processingWake,
                 gapVars>>

KeepaliveStep ==
  /\ pc # "down"
  /\ Keep!Answer \/ Keep!Touch \/ Keep!Hear
  /\ UNCHANGED <<syncOwn, subOwn, processing, wake, gapVars>>

RunnerStep ==
  /\ Keep!Thaw \/ Keep!SetClock
  /\ UNCHANGED <<syncOwn, subOwn, processing, wake, gapVars>>

\* The Orchestrator hibernates a workload Runners holds idle, if its inbox is
\* empty when it looks.
Freeze ==
  /\ agentState = "idle" /\ Sync!Outstanding = {}
  /\ Keep!FreezeGuest
  /\ Stream!FreezeLink
  /\ UNCHANGED <<syncOwn, sub, reopened, subBackoff, breaks, agentState, processing,
                 wake, wakeSync, processingWake, dropped, gapVars>>

\* The inbox accepts an item and the service announces it to whoever listens.
Accept ==
  /\ Sync!AcceptItem
  /\ Stream!Announce(accepted')
  /\ LET missed == link # "open" /\ pc # "down" /\ ~Sync!ReadWillList(accepted')
     IN /\ beforeFirst' = IF missed /\ ~reopened THEN beforeFirst \union {accepted'}
                                                  ELSE beforeFirst
        /\ unregistered' = IF missed /\ link = "opening"
                           THEN unregistered \union {accepted'} ELSE unregistered
  /\ UNCHANGED <<acked, late, answered, owed, relisted, pc, page, cursor, more, text,
                 mcpReady, retry, backoff, faults, crashes, sub, reopened, subBackoff,
                 link, breaks, keepOwn, agentState, processing, wake, wakeSync,
                 processingWake, dropped>>

Next ==
  \/ Boot \/ Crash \/ RunStep \/ LateAck \/ SubscriberStep \/ ServiceStep
  \/ KeepaliveStep \/ RunnerStep \/ Freeze \/ Accept

Spec == Init /\ [][Next]_vars

\* Each goroutine keeps running while the guest does; the service registers a
\* stream it was asked for; a restart follows the end of the process and a
\* restore a freeze.
FairSpec ==
  /\ Spec
  /\ WF_vars(RunStep) /\ WF_vars(Boot)
  /\ WF_vars(SubscriberStep) /\ WF_vars(Stream!Register /\ ServiceStep)
  /\ WF_vars(KeepaliveStep /\ Keep!Answer) /\ WF_vars(RunnerStep)

-----------------------------------------------------------------------------
(* Properties. *)

\* The type invariant of the whole.
TypeOK ==
  /\ Sync!TypeOK /\ Stream!SubTypeOK
  /\ frozen \in BOOLEAN /\ due \in BOOLEAN /\ unanswered \in BOOLEAN
  /\ woken \in BOOLEAN /\ sleeps \in 0..MaxSleeps
  /\ beforeFirst \subseteq 1..accepted /\ unregistered \subseteq 1..accepted

\* Something will make the daemon read the inbox after now.
ReadPromised ==
  \/ pc = "down"
  \/ wake \/ wakeSync \/ retry
  \/ sub # "recv" /\ reopened      \* reopening the stream asks for a read
  \/ sub = "recv" /\ link = "dead" \* ... and a dead stream will be reopened

Heard(i) == ReadPromised \/ Sync!ReadWillList(i) \/ i \in news

\* No outstanding item is stranded.  Whatever streams broke, reads failed,
\* processes died or hibernations came between, either it is announced on the
\* stream and not received yet, or a read that will list it is under way, or
\* one is promised.  The items that fell into the two gaps around the opening
\* of a stream are set apart.
NothingStranded ==
  \A i \in Sync!Outstanding \ (beforeFirst \union unregistered) : Heard(i)

\* The first stream has nothing before it: the daemon's initial read covers
\* what was accepted before that stream was open (subscriber.go).
InitialReadCovers == \A i \in beforeFirst \intersect Sync!Outstanding : Heard(i)

\* The workload is never frozen between putting an item to the agent and
\* acknowledging it, although Runners may still hold it idle from the item
\* before (reportWorkloadIdle, turnboundary_test.go).  Only the turn a late ack
\* has made one too many can be.
NeverFrozenMidTurn ==
  frozen /\ pc \in {"turn", "publish", "ack"} => page \subseteq relisted

\* An item that is not in a gap is acknowledged in the end.
HeardItemsAcked ==
  \A i \in 1..NumItems :
    (i <= accepted) ~> (i \in acked \union beforeFirst \union unregistered)
=============================================================================
