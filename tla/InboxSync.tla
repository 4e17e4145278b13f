----------------------------- MODULE InboxSync -----------------------------
(***************************************************************************)
(* The daemon's main loop and everything it calls to serve an inbox: Run's *)
(* select, syncMessages, Consumer.Sync reading the inbox page by page, the *)
(* handler of each agent CLI (turn, publish, ack), the idle report, and    *)
(* the retry backoff.  The inbox itself, the agent CLI and Runners are     *)
(* outside src/ and appear as the outcomes their calls can have: success,  *)
(* failure, and failure although the call takes effect, for an             *)
(* acknowledgement as late as the inbox likes.  The process may be killed  *)
(* at any step and restarted.                                              *)
(*                                                                         *)
(* Items are numbered in the order the inbox accepted them, which is the   *)
(* order Consumer.Sync sorts a page into and the order the inbox pages in. *)
(***************************************************************************)
EXTENDS Integers, FiniteSets

CONSTANTS
  NumItems,     \* bound: items the inbox ever accepts
  PageSize,     \* the page size the daemon asks for
  Sdk,          \* the agent CLI the class runs
  DirectItems,  \* items sent to the instance directly: they carry no thread
  EmptyItems,   \* items with neither a body nor files
  PostsFinal,   \* the class delivers a turn's final text to a default thread
  MaxFaults,    \* bound: calls that fail
  MaxCrashes    \* bound: times the process is killed

Items == 1..NumItems
Sdks == {"codex", "claude", "agn"}
Backoffs == {1, 2, 4, 8, 16, 30}
Phases == {"down", "idle", "fetch", "next", "turn", "publish", "ack", "report"}

ASSUME NumItemsAssumption == NumItems \in Nat
ASSUME PageSizeAssumption == PageSize \in Nat \ {0}
ASSUME InboxConstants ==
  /\ Sdk \in Sdks
  /\ DirectItems \subseteq Items
  /\ EmptyItems \subseteq Items
  /\ PostsFinal \in BOOLEAN
  /\ MaxFaults \in Nat
  /\ MaxCrashes \in Nat

VARIABLES
  (* the inbox service *)
  accepted,       \* items 1..accepted have been accepted
  acked,          \* items acknowledged
  late,           \* items whose ack was given up on and may still arrive
  agentState,     \* what Runners believes of the workload
  (* what has become of the items: history *)
  answered,       \* items on which a turn has ended
  owed,           \* items whose last turn's final text is not delivered yet
  relisted,       \* items a read listed while an ack of theirs was on its way
  (* the daemon *)
  pc,             \* where Run's goroutine is; "down" when there is no process
  page,           \* items of the fetched page still to acknowledge
  cursor,         \* the page token: the last item listed by this read
  more,           \* the last page came with a token for another
  text,           \* the turn that ended left a final text to deliver
  mcpReady,       \* d.mcpReady
  processing,     \* d.processing
  retry,          \* the retry timer is armed, or has fired unread
  backoff,        \* seconds before the next retry
  (* channels of capacity one: TRUE when they hold a token *)
  wake,           \* subscriber.Wake()
  wakeSync,       \* d.wakeSync
  processingWake, \* d.processingWake
  (* budgets *)
  faults, crashes

serviceVars == <<accepted, acked, late, agentState>>
historyVars == <<answered, owed, relisted>>
readVars    == <<page, cursor, more>>
retryVars   == <<retry, backoff>>
chanVars    == <<wake, wakeSync, processingWake>>
budgetVars  == <<faults, crashes>>
vars == <<serviceVars, historyVars, pc, readVars, text, mcpReady, processing,
          retryVars, chanVars, budgetVars>>

Outstanding == {i \in 1..accepted : i \notin acked}
After(c) == {i \in Outstanding : i > c}

-----------------------------------------------------------------------------
(* The process starts and stops. *)

Init ==
  /\ accepted = 0 /\ acked = {} /\ late = {} /\ agentState \in {"active", "idle"}
  /\ answered = {} /\ owed = {} /\ relisted = {}
  /\ pc = "down" /\ page = {} /\ cursor = 0 /\ more = FALSE /\ text = FALSE
  /\ mcpReady = FALSE /\ processing = FALSE
  /\ retry = FALSE /\ backoff = 1
  /\ wake = FALSE /\ wakeSync = FALSE /\ processingWake = FALSE
  /\ faults = 0 /\ crashes = 0

\* syncMessages' prologue: the read starts at the first page, and the keepalive
\* is told once that processing began.
BeginSync ==
  /\ pc' = "fetch"
  /\ processing' = TRUE
  /\ processingWake' = TRUE

\* The process comes up and Run makes its initial read.  Only the agn daemon
\* has waited for the MCP servers by then.
Boot ==
  /\ pc = "down"
  /\ BeginSync
  /\ mcpReady' = (Sdk = "agn")
  /\ UNCHANGED <<serviceVars, historyVars, readVars, text, retryVars, wake,
                 wakeSync, budgetVars>>

\* What the end of the process leaves: everything in memory is gone.
Gone ==
  /\ pc' = "down"
  /\ page' = {} /\ cursor' = 0 /\ more' = FALSE /\ text' = FALSE
  /\ mcpReady' = FALSE /\ processing' = FALSE
  /\ retry' = FALSE /\ backoff' = 1
  /\ wake' = FALSE /\ wakeSync' = FALSE /\ processingWake' = FALSE

\* MUTANT: the page is handled in whatever order it came.
HeadUnsorted(i) == i \in page

\* The item being handled: the oldest of what the page has left.
Head(i) == i \in page /\ \A j \in page : i <= j

\* A kill leaves an ack that was being made on its way.
Crash ==
  /\ pc # "down"
  /\ crashes < MaxCrashes
  /\ crashes' = crashes + 1
  /\ Gone
  /\ late' = late \union {i \in page : pc = "ack" /\ Head(i)}
  /\ UNCHANGED <<accepted, acked, agentState, historyVars, faults>>

-----------------------------------------------------------------------------
(* Run's select, and how a read ends. *)

\* MUTANT: the backoff grows by a second instead of doubling.
LinearBackoff(b) == IF b + 1 > 30 THEN 30 ELSE b + 1
NextBackoff(b) == IF 2 * b > 30 THEN 30 ELSE 2 * b

OnWakeSync ==
  /\ pc = "idle" /\ wakeSync
  /\ wakeSync' = FALSE
  /\ BeginSync
  /\ UNCHANGED <<serviceVars, historyVars, readVars, text, mcpReady, retryVars,
                 wake, budgetVars>>

OnWake ==
  /\ pc = "idle" /\ wake
  /\ wake' = FALSE
  /\ BeginSync
  /\ UNCHANGED <<serviceVars, historyVars, readVars, text, mcpReady, retryVars,
                 wakeSync, budgetVars>>

OnRetry ==
  /\ pc = "idle" /\ retry
  /\ retry' = FALSE
  /\ BeginSync
  /\ UNCHANGED <<serviceVars, historyVars, readVars, text, mcpReady, backoff,
                 wake, wakeSync, budgetVars>>

EndRead ==
  /\ pc' = "idle"
  /\ page' = {} /\ cursor' = 0 /\ more' = FALSE /\ text' = FALSE
  /\ processing' = FALSE

\* MUTANT: a failed read waits for the next notification.
FailSyncUnarmed == EndRead /\ UNCHANGED retryVars

\* syncMessages returned an error that is not terminal: the rest of the page is
\* dropped, the lock released, and the next attempt scheduled.
FailSync ==
  /\ EndRead
  /\ retry' = TRUE
  /\ backoff' = NextBackoff(backoff)

\* MUTANT: what was announced while the read ran is taken as read.
ReadDoneDrains ==
  /\ pc = "next" /\ page = {} /\ ~more
  /\ EndRead
  /\ retry' = FALSE /\ backoff' = 1
  /\ wake' = FALSE
  /\ UNCHANGED <<serviceVars, historyVars, mcpReady, wakeSync, processingWake,
                 budgetVars>>

\* The last page is done: Sync returns nil and Run clears its retry.
ReadDone ==
  /\ pc = "next" /\ page = {} /\ ~more
  /\ EndRead
  /\ retry' = FALSE /\ backoff' = 1
  /\ UNCHANGED <<serviceVars, historyVars, mcpReady, chanVars, budgetVars>>

Fault == faults < MaxFaults /\ faults' = faults + 1
NoFault == UNCHANGED faults

-----------------------------------------------------------------------------
(* Consumer.Sync: one page at a time, each sorted oldest first. *)

\* The inbox lists what is outstanding past the token, at most PageSize items,
\* and may hand back a token that turns out to lead to nothing.
FetchPage ==
  /\ pc = "fetch"
  /\ \E last \in {cursor} \union After(cursor), token \in BOOLEAN :
       LET listed == {i \in After(cursor) : i <= last} IN
       /\ Cardinality(listed) <= PageSize
       /\ After(last) # {} => token
       /\ token => listed # {}
       /\ page' = listed /\ cursor' = last /\ more' = token
       /\ relisted' = relisted \union (listed \intersect late)
  /\ pc' = "next"
  /\ UNCHANGED <<serviceVars, answered, owed, text, mcpReady, processing, retryVars,
                 chanVars, budgetVars>>

FetchFails ==
  /\ pc = "fetch"
  /\ Fault /\ FailSync
  /\ UNCHANGED <<serviceVars, historyVars, mcpReady, chanVars, crashes>>

NextPage ==
  /\ pc = "next" /\ page = {} /\ more
  /\ pc' = "fetch"
  /\ UNCHANGED <<serviceVars, historyVars, readVars, text, mcpReady, processing,
                 retryVars, chanVars, budgetVars>>

\* MUTANT: an item is acknowledged when it is taken up.
TakeItemAcks ==
  /\ pc = "next" /\ page # {}
  /\ pc' = "turn"
  /\ mcpReady' = TRUE
  /\ acked' = acked \union {i \in page : Head(i)}
  /\ UNCHANGED <<accepted, late, agentState, historyVars, readVars, text, processing,
                 retryVars, chanVars, budgetVars>>

\* The handler is called for the head: ensureMCPReady waits for the servers the
\* first time and remembers that they answered.
TakeItem ==
  /\ pc = "next" /\ page # {}
  /\ pc' = "turn"
  /\ mcpReady' = TRUE
  /\ UNCHANGED <<serviceVars, historyVars, readVars, text, processing, retryVars,
                 chanVars, budgetVars>>

McpNotReady ==
  /\ pc = "next" /\ page # {} /\ ~mcpReady
  /\ Fault /\ FailSync
  /\ UNCHANGED <<serviceVars, historyVars, mcpReady, chanVars, crashes>>

-----------------------------------------------------------------------------
(* handleMessage: the turn, its final text, its ack.  All three steps are   *)
(* taken for the page's head.                                               *)

\* Every handler refuses an item with nothing to put to the agent, the codex and
\* claude handlers an item without a thread.
Handles(i) == i \notin EmptyItems /\ (Sdk = "agn" \/ i \notin DirectItems)

\* The turn ends: with a text the class delivers, or with nothing to deliver (no
\* text, a class that discards it, or a codex error codex is not retrying).
TurnEnds(i) ==
  /\ pc = "turn" /\ Head(i) /\ Handles(i)
  /\ pc' = "publish"
  /\ text' \in {FALSE, PostsFinal}
  /\ answered' = answered \union {i}
  /\ owed' = IF text' THEN owed \union {i} ELSE owed \ {i}
  /\ UNCHANGED <<serviceVars, relisted, readVars, mcpReady, processing, retryVars, chanVars,
                 budgetVars>>

\* MUTANT: an item whose turn failed is acknowledged rather than retried.
TurnFailsDropped(i) ==
  /\ pc = "turn" /\ Head(i)
  /\ Fault
  /\ pc' = "ack"
  /\ UNCHANGED <<serviceVars, historyVars, readVars, text, mcpReady, processing,
                 retryVars, chanVars, crashes>>

\* The turn could not be started or did not come to an end: an error the next
\* read retries.  An item the handler refuses fails every time.
TurnFails(i) ==
  /\ pc = "turn" /\ Head(i)
  /\ IF Handles(i) THEN Fault ELSE NoFault
  /\ FailSync
  /\ UNCHANGED <<serviceVars, historyVars, mcpReady, chanVars, crashes>>

\* A codex turn that fails for good ends Run, and main exits.
TurnTerminal(i) ==
  /\ pc = "turn" /\ Head(i) /\ Handles(i) /\ Sdk = "codex"
  /\ Fault
  /\ Gone
  /\ UNCHANGED <<serviceVars, historyVars, crashes>>

NothingToPublish(i) ==
  /\ pc = "publish" /\ Head(i)
  /\ ~text
  /\ pc' = "ack"
  /\ UNCHANGED <<serviceVars, historyVars, readVars, text, mcpReady, processing,
                 retryVars, chanVars, budgetVars>>

\* SendMessage succeeds, or there is no default thread to send to, which is
\* no failure: the text is dealt with.
Publish(i) ==
  /\ pc = "publish" /\ Head(i)
  /\ text
  /\ owed' = owed \ {i}
  /\ pc' = "ack"
  /\ UNCHANGED <<serviceVars, answered, relisted, readVars, text, mcpReady,
                 processing, retryVars, chanVars, budgetVars>>

\* MUTANT: a publish that failed is logged, and the item acknowledged.
PublishFailsLogged(i) ==
  /\ pc = "publish" /\ Head(i)
  /\ text
  /\ Fault
  /\ pc' = "ack"
  /\ UNCHANGED <<serviceVars, historyVars, readVars, text, mcpReady, processing,
                 retryVars, chanVars, crashes>>

\* SendMessage fails, before or after the thread took the message.
PublishFails(i) ==
  /\ pc = "publish" /\ Head(i)
  /\ text
  /\ Fault /\ FailSync
  /\ owed' \in {owed, owed \ {i}}
  /\ UNCHANGED <<serviceVars, answered, relisted, mcpReady, chanVars, crashes>>

Ack(i) ==
  /\ pc = "ack" /\ Head(i)
  /\ acked' = acked \union {i} /\ late' = late \ {i}
  /\ page' = page \ {i}
  /\ pc' = "report"
  /\ UNCHANGED <<accepted, agentState, historyVars, cursor, more, text, mcpReady,
                 processing, retryVars, chanVars, budgetVars>>

\* MUTANT: an ack that failed is made again by handling the item again.
AckFailsInPlace(i) ==
  /\ pc = "ack" /\ Head(i)
  /\ Fault
  /\ late' = late \union {i}
  /\ pc' = "turn"
  /\ UNCHANGED <<accepted, acked, agentState, historyVars, readVars, text, mcpReady,
                 processing, retryVars, chanVars, crashes>>

\* The ack fails or runs out of its deadline: the inbox takes it when it arrives
\* (AckLands), at once, after the next read has listed the item again, or never.
AckFails(i) ==
  /\ pc = "ack" /\ Head(i)
  /\ Fault /\ FailSync
  /\ late' = late \union {i}
  /\ UNCHANGED <<accepted, acked, agentState, historyVars, mcpReady, chanVars,
                 crashes>>

\* reportWorkloadIdle, whose failure is logged and nothing more.
Report ==
  /\ pc = "report"
  /\ agentState' \in {agentState, "idle"}
  /\ pc' = "next" /\ text' = FALSE
  /\ UNCHANGED <<accepted, acked, late, historyVars, readVars, mcpReady, processing,
                 retryVars, chanVars, budgetVars>>

-----------------------------------------------------------------------------
(* The steps of Run's goroutine, and of what surrounds it. *)

Handle(i) ==
  \/ TurnEnds(i) \/ TurnFails(i) \/ TurnTerminal(i)
  \/ NothingToPublish(i) \/ Publish(i) \/ PublishFails(i)
  \/ Ack(i) \/ AckFails(i)

Daemon ==
  \/ OnWakeSync \/ OnWake \/ OnRetry
  \/ FetchPage \/ FetchFails \/ NextPage \/ ReadDone
  \/ TakeItem \/ McpNotReady
  \/ \E i \in Items : Handle(i)
  \/ Report

\* The inbox accepts an item.
AcceptItem ==
  /\ accepted < NumItems
  /\ accepted' = accepted + 1

\* On its own, the component is given a stream that announces every item the
\* moment it is accepted to the process that is up.
Accept ==
  /\ AcceptItem
  /\ wake' = (pc # "down")
  /\ UNCHANGED <<acked, late, agentState, historyVars, pc, readVars, text, mcpReady,
                 processing, retryVars, wakeSync, processingWake, budgetVars>>

\* An ack nobody waits for any more reaches the inbox.
AckLands ==
  /\ \E i \in late : acked' = acked \union {i} /\ late' = late \ {i}
  /\ UNCHANGED <<accepted, agentState, historyVars, pc, readVars, text, mcpReady,
                 processing, retryVars, chanVars, budgetVars>>

\* The keepalive: it asks for a read when it has noticed a wake, and takes the
\* token that says processing began to touch the workload.
Woken ==
  /\ pc # "down"
  /\ wakeSync' = TRUE
  /\ UNCHANGED <<serviceVars, historyVars, pc, readVars, text, mcpReady, processing,
                 retryVars, wake, processingWake, budgetVars>>

Touch ==
  /\ processingWake
  /\ processingWake' = FALSE
  /\ agentState' = IF processing THEN "active" ELSE agentState
  /\ UNCHANGED <<accepted, acked, late, historyVars, pc, readVars, text, mcpReady,
                 processing, retryVars, wake, wakeSync, budgetVars>>

Next == Boot \/ Crash \/ Daemon \/ Accept \/ AckLands \/ Woken \/ Touch

Spec == Init /\ [][Next]_vars

\* Run's goroutine keeps running: every call it makes returns (each has a
\* deadline, except the wait for a codex turn, which the CLI ends), and the
\* container is restarted when the process is gone.
FairSpec == Spec /\ WF_vars(Daemon) /\ WF_vars(Boot)

-----------------------------------------------------------------------------
(* Properties. *)

RangesOK ==
  /\ accepted \in 0..NumItems
  /\ acked \subseteq 1..accepted /\ late \subseteq 1..accepted
  /\ agentState \in {"active", "idle"}
  /\ answered \subseteq 1..accepted
  /\ owed \subseteq answered /\ relisted \subseteq 1..accepted
  /\ pc \in Phases
  /\ cursor \in 0..accepted
  /\ page \subseteq 1..cursor
  /\ backoff \in Backoffs
  /\ faults \in 0..MaxFaults /\ crashes \in 0..MaxCrashes

FlagsOK ==
  /\ more \in BOOLEAN /\ text \in BOOLEAN
  /\ mcpReady \in BOOLEAN /\ processing \in BOOLEAN
  /\ retry \in BOOLEAN
  /\ wake \in BOOLEAN /\ wakeSync \in BOOLEAN /\ processingWake \in BOOLEAN

\* The type invariant: what every variable of the loop ranges over.
TypeOK == RangesOK /\ FlagsOK

\* No item overtakes an older one: whatever pages, failures, lost replies and
\* restarts came between, the acknowledged items are a prefix of the inbox
\* (Consumer.Sync returning at the first error is what keeps this).
AcksInOrder == \A i \in acked : 1..i \subseteq acked

\* The agent is never given an item the inbox has already seen acknowledged,
\* even when the reply to the ack was lost, unless a read listed the item while
\* that ack was still on its way.
NoTurnAfterAck ==
  pc \in {"turn", "publish", "ack"} => \A i \in Items : Head(i) => i \notin acked \ relisted

\* An item is never acknowledged while the final text of its last turn is still
\* to be delivered (publishFinalMessage before ackMessage), but for the turn a
\* late ack has made one too many.
NoAnswerLost == acked \intersect owed \subseteq relisted

\* The read under way will still list or handle the item.
ReadWillList(i) ==
  \/ i \in page
  \/ i > cursor /\ (pc = "fetch" \/ more)

\* No outstanding item is forgotten: until it is acknowledged, a read that will
\* list it is under way, or a token or the retry timer promises one (the loop
\* consumes a token before it reads, never after).
NothingForgotten ==
  \A i \in Outstanding : pc = "down" \/ wake \/ wakeSync \/ retry \/ ReadWillList(i)

-----------------------------------------------------------------------------
(* What the properties above rest on, true in every state between two steps. *)

\* A read leaves nothing behind it: what it has listed is acknowledged or on the
\* page, and both only when an ack landed after the item was listed.
ReadCovers ==
  /\ \A i \in 1..cursor : i \in acked \union page
  /\ page \intersect acked \subseteq relisted

\* An ack on its way was made in order and behind its answer, and a page that
\* lists its item was fetched after it was given up on.
LateInOrder ==
  /\ \A i \in late : 1..(i - 1) \subseteq acked
  /\ late \intersect (page \union owed) \subseteq relisted

\* Where the goroutine is says what it holds.
PhaseHolds ==
  /\ pc \in {"down", "idle"} => cursor = 0
  /\ pc \in {"down", "idle", "fetch"} => page = {}
  /\ pc \in {"publish", "ack"} =>
       \A i \in Items : Head(i) =>
         /\ i \in answered
         /\ i \in owed => pc = "publish" /\ text

LoopInv == ReadCovers /\ LateInOrder /\ PhaseHolds /\ AcksInOrder /\ NoAnswerLost

\* While a read is under way a token, not the retry timer it may clear, answers
\* for what it will not list.
ReadingForgetsNothing ==
  pc \notin {"down", "idle"} =>
    \A i \in Outstanding : wake \/ wakeSync \/ ReadWillList(i)

-----------------------------------------------------------------------------

\* The loop keeps the promise AtLeastOnce states.
Promise == INSTANCE AtLeastOnce WITH listed <- page
KeepsPromise == Promise!Spec

\* Every accepted item is acknowledged in the end, once the calls the loop makes
\* stop failing: no notification, retry or restart loses the loop's interest.
EveryItemAcked == \A i \in Items : (i <= accepted) ~> (i \in acked)
=============================================================================
