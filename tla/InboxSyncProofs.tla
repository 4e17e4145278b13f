--------------------------- MODULE InboxSyncProofs ---------------------------
(***************************************************************************)
(* What TLAPS proves of InboxSync, for any number of items, page size,     *)
(* agent CLI and budget of faults and kills.                               *)
(***************************************************************************)
EXTENDS InboxSync, TLAPS

USE NumItemsAssumption, PageSizeAssumption, InboxConstants
    DEF NumItemsAssumption, PageSizeAssumption, InboxConstants

-----------------------------------------------------------------------------
(* Types. *)

\* The doubled backoff, capped at half a minute, stays one of the six values
\* nextSyncRetryBackoff can return.
LEMMA BackoffCloses == \A b \in Backoffs : NextBackoff(b) \in Backoffs
BY DEF Backoffs, NextBackoff

LEMMA RangesStep == RangesOK /\ [Next]_vars => RangesOK'
<1> SUFFICES ASSUME RangesOK, [Next]_vars PROVE RangesOK'
  OBVIOUS
<1> USE DEF RangesOK, serviceVars, historyVars, readVars, retryVars, chanVars,
            budgetVars, Phases, Items
<1>1. CASE Boot
  BY <1>1 DEF Boot, BeginSync
<1>2. CASE Crash
  <2>1. late' \subseteq late \union page /\ page \subseteq 1..accepted
    BY <1>2 DEF Crash
  <2>2. /\ UNCHANGED <<accepted, acked, agentState, historyVars, faults>>
        /\ pc' = "down" /\ page' = {} /\ cursor' = 0 /\ backoff' = 1
        /\ crashes' \in 0..MaxCrashes
    BY <1>2 DEF Crash, Gone
  <2>3. QED
    BY <2>1, <2>2 DEF Backoffs
<1>3. CASE OnWakeSync \/ OnWake \/ OnRetry
  BY <1>3 DEF OnWakeSync, OnWake, OnRetry, BeginSync
<1>4. CASE FetchPage
  <2>1. PICK last \in {cursor} \union After(cursor) :
          page' = {i \in After(cursor) : i <= last} /\ cursor' = last
    BY <1>4 DEF FetchPage
  <2>2. After(cursor) \subseteq 1..accepted
    BY DEF After, Outstanding
  <2>3. cursor' \in 0..accepted
    BY <2>1, <2>2
  <2>4. page' \subseteq 1..cursor'
    BY <2>1, <2>2
  <2>5. /\ pc' = "next" /\ relisted' \subseteq relisted \union late
        /\ UNCHANGED <<serviceVars, answered, owed, backoff, budgetVars>>
    BY <1>4 DEF FetchPage
  <2>6. QED
    BY <2>3, <2>4, <2>5
<1>5. CASE FetchFails \/ McpNotReady
  <2>1. Fault /\ FailSync /\ UNCHANGED <<serviceVars, historyVars, crashes>>
    BY <1>5 DEF FetchFails, McpNotReady
  <2>2. QED
    BY <2>1, BackoffCloses DEF Fault, FailSync, EndRead
<1>6. CASE NextPage
  BY <1>6 DEF NextPage
<1>7. CASE ReadDone
  BY <1>7 DEF ReadDone, EndRead, Backoffs
<1>8. CASE TakeItem
  BY <1>8 DEF TakeItem
<1>9. ASSUME NEW i \in Items, Handle(i) PROVE RangesOK'
  <2>1. CASE TurnEnds(i)
    BY <2>1 DEF TurnEnds, Head
  <2>2. CASE TurnFails(i)
    BY <2>2, BackoffCloses DEF TurnFails, Fault, NoFault, FailSync, EndRead
  <2>3. CASE TurnTerminal(i)
    BY <2>3 DEF TurnTerminal, Fault, Gone, Backoffs
  <2>4. CASE NothingToPublish(i)
    BY <2>4 DEF NothingToPublish
  <2>5. CASE Publish(i)
    BY <2>5 DEF Publish
  <2>6. CASE PublishFails(i)
    BY <2>6, BackoffCloses DEF PublishFails, Fault, FailSync, EndRead
  <2>7. CASE Ack(i)
    BY <2>7 DEF Ack, Head
  <2>8. CASE AckFails(i)
    BY <2>8, BackoffCloses DEF AckFails, Fault, FailSync, EndRead, Head
  <2>9. QED
    BY <1>9, <2>1, <2>2, <2>3, <2>4, <2>5, <2>6, <2>7, <2>8 DEF Handle
<1>10. CASE Report
  BY <1>10 DEF Report
<1>11. CASE Accept
  BY <1>11 DEF Accept, AcceptItem
<1>12. CASE Woken
  BY <1>12 DEF Woken
<1>13. CASE Touch
  BY <1>13 DEF Touch
<1>14. CASE AckLands
  <2>1. acked' \subseteq acked \union late /\ late' \subseteq late
    BY <1>14 DEF AckLands
  <2>2. UNCHANGED <<accepted, agentState, historyVars, pc, readVars, backoff, budgetVars>>
    BY <1>14 DEF AckLands
  <2>3. QED
    BY <2>1, <2>2
<1>15. CASE UNCHANGED vars
  BY <1>15 DEF vars
<1>16. QED
  BY <1>1, <1>2, <1>3, <1>4, <1>5, <1>6, <1>7, <1>8, <1>9, <1>10, <1>11, <1>12,
     <1>13, <1>14, <1>15 DEF Next, Daemon

LEMMA FlagsStep == FlagsOK /\ [Next]_vars => FlagsOK'
<1> SUFFICES ASSUME FlagsOK, [Next]_vars PROVE FlagsOK'
  OBVIOUS
<1> USE DEF FlagsOK, serviceVars, historyVars, readVars, retryVars, chanVars,
            budgetVars
<1>1. CASE Boot
  BY <1>1 DEF Boot, BeginSync
<1>2. CASE Crash
  BY <1>2 DEF Crash, Gone
<1>3. CASE OnWakeSync \/ OnWake \/ OnRetry
  BY <1>3 DEF OnWakeSync, OnWake, OnRetry, BeginSync
<1>4. CASE FetchPage
  BY <1>4 DEF FetchPage
<1>5. CASE FetchFails \/ McpNotReady
  BY <1>5 DEF FetchFails, McpNotReady, FailSync, EndRead
<1>6. CASE NextPage \/ TakeItem
  BY <1>6 DEF NextPage, TakeItem
<1>7. CASE ReadDone
  BY <1>7 DEF ReadDone, EndRead
<1>8. CASE \E i \in Items : Handle(i)
  BY <1>8 DEF Handle, TurnEnds, TurnFails, TurnTerminal, NothingToPublish, Publish,
              PublishFails, Ack, AckFails, FailSync, EndRead, Gone
<1>9. CASE Report \/ Accept \/ AckLands \/ Woken \/ Touch
  BY <1>9 DEF Report, Accept, AckLands, Woken, Touch
<1>10. CASE UNCHANGED vars
  BY <1>10 DEF vars
<1>11. QED
  BY <1>1, <1>2, <1>3, <1>4, <1>5, <1>6, <1>7, <1>8, <1>9, <1>10 DEF Next, Daemon

\* The variables of the loop keep their types (TypeOK), whatever fails and
\* whenever the process is killed.
THEOREM TypeCorrect == Spec => []TypeOK
<1>1. Init => RangesOK
  BY DEF Init, RangesOK, Phases, Backoffs
<1>2. Init => FlagsOK
  BY DEF Init, FlagsOK
<1>3. QED
  BY <1>1, <1>2, RangesStep, FlagsStep, PTL DEF Spec, TypeOK

-----------------------------------------------------------------------------
(* What a read has behind it, and the properties that follow. *)

LEMMA HeadIsUnique == \A i, j \in Items : Head(i) /\ Head(j) => i = j
BY DEF Head, Items

\* Ending a read, for whatever reason, empties the page and forgets the token.
LEMMA EmptyRead ==
  ASSUME RangesOK, LoopInv, page' = {}, cursor' = 0, pc' \in {"down", "idle"},
         AcksInOrder', NoAnswerLost', LateInOrder'
  PROVE  LoopInv'
BY DEF LoopInv, ReadCovers, PhaseHolds

\* An item at its ack has its answer delivered and every older item behind it.
LEMMA AckIsDue ==
  ASSUME RangesOK, LoopInv, pc = "ack", NEW i \in Items, Head(i)
  PROVE  i \in answered \ owed /\ 1..(i - 1) \subseteq acked
<1>1. i \in answered /\ i \notin owed
  BY DEF LoopInv, PhaseHolds
<1>2. 1..(i - 1) \subseteq acked
  BY DEF Head, LoopInv, ReadCovers, RangesOK
<1>3. QED
  BY <1>1, <1>2

LEMMA LoopStep == RangesOK /\ LoopInv /\ [Next]_vars => LoopInv'
<1> SUFFICES ASSUME RangesOK, LoopInv, [Next]_vars PROVE LoopInv'
  OBVIOUS
<1> USE DEF serviceVars, historyVars, readVars, retryVars, chanVars, budgetVars
<1>1. CASE UNCHANGED <<acked, late, historyVars, pc, readVars, text>>
  BY <1>1 DEF LoopInv, ReadCovers, LateInOrder, PhaseHolds, AcksInOrder, NoAnswerLost, Head
<1>2. CASE UNCHANGED <<acked, late, historyVars>> /\ page' = {} /\ cursor' = 0
           /\ pc' \in {"down", "idle"}
  <2>1. AcksInOrder' /\ NoAnswerLost' /\ LateInOrder'
    BY <1>2 DEF LoopInv, AcksInOrder, NoAnswerLost, LateInOrder
  <2>2. QED
    BY <1>2, <2>1, EmptyRead
<1>3. CASE UNCHANGED <<acked, late, historyVars, readVars>> /\ pc' = "fetch" /\ page = {}
  BY <1>3 DEF LoopInv, ReadCovers, LateInOrder, PhaseHolds, AcksInOrder, NoAnswerLost
<1>4. CASE UNCHANGED <<acked, late, historyVars, readVars>> /\ pc' \in {"next", "turn"}
  BY <1>4 DEF LoopInv, ReadCovers, LateInOrder, PhaseHolds, AcksInOrder, NoAnswerLost
<1>5. CASE FetchPage
  <2>1. PICK last \in {cursor} \union After(cursor) :
          page' = {i \in After(cursor) : i <= last} /\ cursor' = last
          /\ relisted' = relisted \union (page' \intersect late)
    BY <1>5 DEF FetchPage
  <2>2. page = {} /\ pc' = "next" /\ UNCHANGED <<acked, late, answered, owed>>
    BY <1>5 DEF FetchPage, LoopInv, PhaseHolds
  <2>3. \A i \in 1..cursor : i \in acked
    BY <2>2 DEF LoopInv, ReadCovers
  <2>4. ReadCovers'
    BY <2>1, <2>2, <2>3 DEF ReadCovers, After, Outstanding, RangesOK
  <2>5. LateInOrder'
    BY <2>1, <2>2 DEF LoopInv, LateInOrder
  <2>6. QED
    BY <2>1, <2>2, <2>4, <2>5 DEF LoopInv, PhaseHolds, AcksInOrder, NoAnswerLost
<1>6. ASSUME NEW i \in Items, Handle(i) PROVE LoopInv'
  <2>1. CASE TurnEnds(i)
    <3>1. Head(i) /\ i \in page /\ (i \in acked => i \in relisted) /\ pc' = "publish"
          /\ UNCHANGED <<acked, late, relisted, readVars>>
      BY <2>1 DEF TurnEnds, Head, LoopInv, ReadCovers
    <3>2. answered' = answered \union {i} /\ owed' \subseteq owed \union {i}
      BY <2>1 DEF TurnEnds
    <3>3. i \in owed' => text'
      BY <2>1 DEF TurnEnds
    <3>4. ReadCovers' /\ AcksInOrder'
      BY <3>1 DEF LoopInv, ReadCovers, AcksInOrder
    <3>5. NoAnswerLost' /\ LateInOrder'
      BY <3>1, <3>2 DEF LoopInv, NoAnswerLost, LateInOrder
    <3>6. \A j \in Items : Head(j)' => j = i
      BY <3>1, HeadIsUnique DEF Head
    <3>7. PhaseHolds'
      BY <3>1, <3>2, <3>3, <3>6 DEF PhaseHolds
    <3>8. QED
      BY <3>4, <3>5, <3>7 DEF LoopInv
  <2>2. CASE NothingToPublish(i)
    <3>1. i \in answered /\ i \notin owed
      BY <2>2 DEF NothingToPublish, LoopInv, PhaseHolds
    <3>2. pc' = "ack" /\ UNCHANGED <<acked, late, historyVars, readVars>>
      BY <2>2 DEF NothingToPublish
    <3>3. \A j \in Items : Head(j)' => j = i
      BY <2>2, <3>2, HeadIsUnique DEF Head, NothingToPublish
    <3>4. QED
      BY <3>1, <3>2, <3>3
      DEF LoopInv, ReadCovers, LateInOrder, PhaseHolds, AcksInOrder, NoAnswerLost
  <2>3. CASE Publish(i)
    <3>1. i \in answered
      BY <2>3 DEF Publish, LoopInv, PhaseHolds
    <3>2. pc' = "ack" /\ owed' = owed \ {i}
          /\ UNCHANGED <<acked, late, answered, relisted, readVars>>
      BY <2>3 DEF Publish
    <3>3. \A j \in Items : Head(j)' => j = i
      BY <2>3, <3>2, HeadIsUnique DEF Head, Publish
    <3>4. QED
      BY <3>1, <3>2, <3>3
      DEF LoopInv, ReadCovers, LateInOrder, PhaseHolds, AcksInOrder, NoAnswerLost
  <2>4. CASE PublishFails(i)
    <3>1. page' = {} /\ cursor' = 0 /\ pc' = "idle" /\ UNCHANGED <<acked, late, relisted>>
      BY <2>4 DEF PublishFails, FailSync, EndRead
    <3>2. owed' \subseteq owed
      BY <2>4 DEF PublishFails
    <3>3. AcksInOrder' /\ NoAnswerLost' /\ LateInOrder'
      BY <3>1, <3>2 DEF LoopInv, AcksInOrder, NoAnswerLost, LateInOrder
    <3>4. QED
      BY <3>1, <3>3, EmptyRead
  <2>5. CASE Ack(i)
    <3>1. pc = "ack" /\ Head(i) /\ pc' = "report" /\ acked' = acked \union {i}
          /\ late' = late \ {i} /\ page' = page \ {i} /\ UNCHANGED <<historyVars, cursor>>
      BY <2>5 DEF Ack
    <3>2. i \notin owed /\ 1..(i - 1) \subseteq acked
      BY <3>1, AckIsDue
    <3>3. AcksInOrder'
      BY <3>1, <3>2 DEF LoopInv, AcksInOrder, Items
    <3>4. NoAnswerLost' /\ LateInOrder'
      BY <3>1, <3>2 DEF LoopInv, NoAnswerLost, LateInOrder
    <3>5. ReadCovers' /\ PhaseHolds'
      BY <3>1 DEF LoopInv, ReadCovers, PhaseHolds
    <3>6. QED
      BY <3>3, <3>4, <3>5 DEF LoopInv
  <2>6. CASE AckFails(i)
    <3>1. page' = {} /\ cursor' = 0 /\ pc' = "idle"
      BY <2>6 DEF AckFails, FailSync, EndRead
    <3>2. pc = "ack" /\ Head(i) /\ late' = late \union {i} /\ UNCHANGED <<acked, historyVars>>
      BY <2>6 DEF AckFails
    <3>3. AcksInOrder' /\ NoAnswerLost' /\ LateInOrder'
      BY <3>1, <3>2, AckIsDue DEF LoopInv, AcksInOrder, NoAnswerLost, LateInOrder
    <3>4. QED
      BY <3>1, <3>3, EmptyRead
  <2>7. CASE TurnFails(i) \/ TurnTerminal(i)
    BY <1>2, <2>7 DEF TurnFails, TurnTerminal, FailSync, EndRead, Gone
  <2>8. QED
    BY <1>6, <2>1, <2>2, <2>3, <2>4, <2>5, <2>6, <2>7 DEF Handle
<1>7. CASE Boot \/ OnWakeSync \/ OnWake \/ OnRetry
  <2>1. page = {}
    BY <1>7 DEF Boot, OnWakeSync, OnWake, OnRetry, LoopInv, PhaseHolds
  <2>2. QED
    BY <1>3, <1>7, <2>1 DEF Boot, OnWakeSync, OnWake, OnRetry, BeginSync
<1>8. CASE FetchFails \/ McpNotReady \/ ReadDone
  BY <1>2, <1>8 DEF FetchFails, McpNotReady, ReadDone, FailSync, EndRead
<1>9. CASE NextPage \/ TakeItem \/ Report
  BY <1>3, <1>4, <1>9 DEF NextPage, TakeItem, Report
<1>10. CASE Accept \/ Woken \/ Touch \/ UNCHANGED vars
  BY <1>1, <1>10 DEF Accept, Woken, Touch, vars
<1>11. CASE Crash
  <2>1. page' = {} /\ cursor' = 0 /\ pc' = "down" /\ UNCHANGED <<acked, historyVars>>
    BY <1>11 DEF Crash, Gone
  <2>2. \A i \in late' \ late : i \in page /\ pc = "ack" /\ Head(i)
    BY <1>11 DEF Crash
  <2>3. ASSUME NEW i \in late' \ late PROVE i \notin owed /\ 1..(i - 1) \subseteq acked
    <3>1. i \in page /\ pc = "ack" /\ Head(i)
      BY <2>2
    <3>2. i \in Items
      BY <3>1 DEF RangesOK, Items
    <3>3. QED
      BY <3>1, <3>2, AckIsDue
  <2>4. AcksInOrder' /\ NoAnswerLost' /\ LateInOrder'
    BY <2>1, <2>3 DEF LoopInv, AcksInOrder, NoAnswerLost, LateInOrder
  <2>5. QED
    BY <2>1, <2>4, EmptyRead
<1>12. CASE AckLands
  <2>1. PICK i \in late : acked' = acked \union {i} /\ late' = late \ {i}
    BY <1>12 DEF AckLands
  <2>2. UNCHANGED <<historyVars, pc, readVars, text>>
    BY <1>12 DEF AckLands
  <2>3. AcksInOrder'
    BY <2>1 DEF LoopInv, LateInOrder, AcksInOrder, RangesOK
  <2>4. ReadCovers' /\ NoAnswerLost' /\ LateInOrder'
    BY <2>1, <2>2 DEF LoopInv, ReadCovers, NoAnswerLost, LateInOrder
  <2>5. PhaseHolds'
    BY <2>2 DEF LoopInv, PhaseHolds, Head
  <2>6. QED
    BY <2>3, <2>4, <2>5 DEF LoopInv
<1>13. QED
  BY <1>5, <1>6, <1>7, <1>8, <1>9, <1>10, <1>11, <1>12 DEF Next, Daemon

LEMMA LoopInvariant == Spec => []LoopInv
<1>1. Init => RangesOK
  BY DEF Init, RangesOK, Phases, Backoffs
<1>2. Init => LoopInv
  BY DEF Init, LoopInv, ReadCovers, LateInOrder, PhaseHolds, AcksInOrder, NoAnswerLost
<1>3. QED
  BY <1>1, <1>2, RangesStep, LoopStep, PTL DEF Spec

\* No item is acknowledged before an older one, whatever pages, failures, lost
\* replies and kills came between (AcksInOrder).
THEOREM OrderKept == Spec => []AcksInOrder
BY LoopInvariant, PTL DEF LoopInv

\* No item is acknowledged while the answer of its last turn is still to be
\* delivered, but for a turn a late ack has made one too many (NoAnswerLost).
THEOREM AnswersDelivered == Spec => []NoAnswerLost
BY LoopInvariant, PTL DEF LoopInv

\* The agent is never put an item that is acknowledged, unless a read listed it
\* while that ack was on its way (NoTurnAfterAck).
THEOREM AcknowledgedStaysSo == Spec => []NoTurnAfterAck
<1>1. LoopInv => NoTurnAfterAck
  BY DEF LoopInv, ReadCovers, NoTurnAfterAck, Head
<1>2. QED
  BY <1>1, LoopInvariant, PTL

-----------------------------------------------------------------------------
(* Nothing is forgotten. *)

Remembers == NothingForgotten /\ ReadingForgetsNothing

LEMMA RemembersStep == RangesOK /\ LoopInv /\ Remembers /\ [Next]_vars => Remembers'
<1> SUFFICES ASSUME RangesOK, LoopInv, Remembers, [Next]_vars PROVE Remembers'
  OBVIOUS
<1> USE DEF serviceVars, historyVars, readVars, retryVars, chanVars, budgetVars
<1> DEFINE reading == pc \notin {"down", "idle", "fetch"}
<1>1. CASE pc' = "down"
  BY <1>1 DEF Remembers, NothingForgotten, ReadingForgetsNothing
<1>2. CASE FailSync
  BY <1>2 DEF FailSync, EndRead, Remembers, NothingForgotten, ReadingForgetsNothing
<1>3. CASE pc \in {"down", "idle"} /\ pc' = "fetch" /\ UNCHANGED <<accepted, acked, cursor>>
  <2>1. cursor = 0
    BY <1>3 DEF LoopInv, PhaseHolds
  <2>2. \A i \in Outstanding' : ReadWillList(i)'
    BY <1>3, <2>1 DEF Outstanding, ReadWillList, RangesOK
  <2>3. QED
    BY <2>2 DEF Remembers, NothingForgotten, ReadingForgetsNothing
<1>4. CASE FetchPage
  <2>1. PICK last \in {cursor} \union After(cursor), token \in BOOLEAN :
          /\ After(last) # {} => token
          /\ page' = {i \in After(cursor) : i <= last}
          /\ cursor' = last /\ more' = token
    BY <1>4 DEF FetchPage
  <2>2. page = {} /\ UNCHANGED <<accepted, acked>>
    BY <1>4 DEF FetchPage, LoopInv, PhaseHolds
  <2>3. ASSUME NEW i \in Outstanding' PROVE ReadWillList(i)'
    <3>1. i \in After(cursor)
      BY <2>2 DEF LoopInv, ReadCovers, After, Outstanding, RangesOK
    <3>2. CASE i <= last
      BY <2>1, <3>1, <3>2 DEF ReadWillList
    <3>3. CASE i > last
      BY <2>1, <2>2, <3>3 DEF ReadWillList, After, Outstanding
    <3>4. QED
      BY <2>1, <3>1, <3>2, <3>3 DEF After, Outstanding, RangesOK
  <2>4. QED
    BY <2>3 DEF Remembers, NothingForgotten, ReadingForgetsNothing
<1>5. CASE NextPage
  BY <1>5 DEF NextPage, Remembers, NothingForgotten, ReadingForgetsNothing,
              ReadWillList, Outstanding
<1>6. CASE ReadDone
  <2>1. pc = "next" /\ pc' = "idle" /\ UNCHANGED <<accepted, acked, wake, wakeSync>>
    BY <1>6 DEF ReadDone, EndRead
  <2>2. \A i \in Outstanding : ~ReadWillList(i)
    BY <1>6 DEF ReadDone, ReadWillList
  <2>3. \A i \in Outstanding : wake \/ wakeSync
    BY <2>1, <2>2 DEF Remembers, ReadingForgetsNothing
  <2>4. QED
    BY <2>1, <2>3 DEF Remembers, NothingForgotten, ReadingForgetsNothing, Outstanding
<1>7. ASSUME reading, reading', UNCHANGED <<accepted, cursor, more, wake, wakeSync>>,
             acked \subseteq acked', page \subseteq page' \union acked'
      PROVE  Remembers'
  <2>1. ASSUME NEW i \in Outstanding' PROVE wake' \/ wakeSync' \/ ReadWillList(i)'
    <3>1. i \in Outstanding /\ i \notin acked'
      BY <1>7 DEF Outstanding
    <3>2. wake \/ wakeSync \/ ReadWillList(i)
      BY <1>7, <3>1 DEF Remembers, ReadingForgetsNothing
    <3>3. ReadWillList(i) => ReadWillList(i)'
      BY <1>7, <3>1 DEF ReadWillList
    <3>4. QED
      BY <1>7, <3>2, <3>3
  <2>2. QED
    BY <2>1 DEF Remembers, NothingForgotten, ReadingForgetsNothing
<1>8. CASE Accept
  <2>1. CASE pc = "down"
    BY <1>1, <1>8, <2>1 DEF Accept
  <2>2. CASE pc # "down"
    BY <1>8, <2>2 DEF Accept, Remembers, NothingForgotten, ReadingForgetsNothing
  <2>3. QED
    BY <2>1, <2>2
<1>9. CASE Woken
  BY <1>9 DEF Woken, Remembers, NothingForgotten, ReadingForgetsNothing
<1>10. CASE Touch \/ AckLands \/ UNCHANGED vars
  BY <1>10 DEF Touch, AckLands, vars, Remembers, NothingForgotten, ReadingForgetsNothing,
               Outstanding, ReadWillList
<1>11. CASE Boot \/ OnWakeSync \/ OnWake \/ OnRetry
  BY <1>3, <1>11 DEF Boot, OnWakeSync, OnWake, OnRetry, BeginSync
<1>12. CASE TakeItem \/ Report
  BY <1>7, <1>12 DEF TakeItem, Report
<1>13. ASSUME NEW i \in Items, Handle(i) PROVE Remembers'
  <2>1. CASE TurnEnds(i) \/ NothingToPublish(i) \/ Publish(i) \/ Ack(i)
    BY <1>7, <2>1 DEF TurnEnds, NothingToPublish, Publish, Ack
  <2>2. CASE TurnFails(i) \/ PublishFails(i) \/ AckFails(i)
    BY <1>2, <2>2 DEF TurnFails, PublishFails, AckFails
  <2>3. CASE TurnTerminal(i)
    BY <1>1, <2>3 DEF TurnTerminal, Gone
  <2>4. QED
    BY <1>13, <2>1, <2>2, <2>3 DEF Handle
<1>14. CASE Crash \/ FetchFails \/ McpNotReady
  BY <1>1, <1>2, <1>14 DEF Crash, FetchFails, McpNotReady, Gone
<1>15. QED
  BY <1>4, <1>5, <1>6, <1>8, <1>9, <1>10, <1>11, <1>12, <1>13, <1>14 DEF Next, Daemon

\* Every outstanding item has something that will make the loop read it
\* (NothingForgotten): no page, failure or wake loses the last one.
THEOREM NoneForgotten == Spec => []NothingForgotten
<1>1. Init => RangesOK
  BY DEF Init, RangesOK, Phases, Backoffs
<1>2. Init => Remembers
  BY DEF Init, Remembers, NothingForgotten, ReadingForgetsNothing
<1>3. Remembers => NothingForgotten
  BY DEF Remembers
<1>4. QED
  BY <1>1, <1>2, <1>3, RangesStep, RemembersStep, LoopInvariant, PTL DEF Spec

-----------------------------------------------------------------------------
(* The loop implements the promise. *)

LEMMA PromiseStep ==
  RangesOK /\ RangesOK' /\ LoopInv /\ [Next]_vars => [Promise!Next]_(Promise!vars)
<1> SUFFICES ASSUME RangesOK, RangesOK', LoopInv, [Next]_vars
             PROVE  [Promise!Next]_(Promise!vars)
  OBVIOUS
<1> USE DEF serviceVars, historyVars, readVars, retryVars, chanVars, budgetVars
<1>1. CASE UNCHANGED <<accepted, page, answered, owed, late, acked>>
  BY <1>1 DEF Promise!vars
<1>2. CASE Accept
  BY <1>2 DEF Accept, AcceptItem, Promise!Next, Promise!Accept
<1>3. CASE page' \subseteq Outstanding /\ UNCHANGED <<accepted, answered, owed, late, acked>>
  <2>1. Promise!List
    BY <1>3 DEF Promise!List, Outstanding
  <2>2. QED
    BY <2>1 DEF Promise!Next
<1>4. ASSUME NEW i \in Items, pc = "ack", Head(i), late' = late \union {i}, page' = {},
             UNCHANGED <<accepted, answered, owed, acked>>
      PROVE  [Promise!Next]_(Promise!vars)
  <2>1. i \in page /\ i \in answered \ owed /\ 1..(i - 1) \subseteq acked
    BY <1>4, AckIsDue DEF Head
  <2>2. Promise!GiveUp(i)
    BY <1>4, <2>1 DEF Promise!GiveUp, Promise!Oldest
  <2>3. QED
    BY <2>2 DEF Promise!Next, Items
<1>5. ASSUME NEW i \in Items, Handle(i) PROVE [Promise!Next]_(Promise!vars)
  <2>1. Head(i) => Promise!Oldest(i)
    BY DEF Head, Promise!Oldest, LoopInv, ReadCovers, RangesOK
  <2>2. i \in 1..NumItems
    BY DEF Items
  <2>3. CASE TurnEnds(i)
    <3>1. Promise!Answer(i)
      BY <2>1, <2>3 DEF TurnEnds, Promise!Answer
    <3>2. QED
      BY <2>2, <3>1 DEF Promise!Next
  <2>4. CASE Publish(i)
    <3>1. owed' = owed \ {i} /\ UNCHANGED <<accepted, page, answered, late, acked>>
      BY <2>4 DEF Publish
    <3>2. CASE i \in owed
      BY <2>2, <3>1, <3>2 DEF Promise!Next, Promise!Deliver
    <3>3. CASE i \notin owed
      BY <1>1, <3>1, <3>3
    <3>4. QED
      BY <3>2, <3>3
  <2>5. CASE PublishFails(i)
    <3>1. /\ page' = {} /\ owed' \in {owed, owed \ {i}}
          /\ UNCHANGED <<accepted, answered, late, acked>>
      BY <2>5 DEF PublishFails, FailSync, EndRead
    <3>2. CASE i \in owed /\ owed' = owed \ {i}
      BY <2>2, <3>1, <3>2 DEF Promise!Next, Promise!Deliver
    <3>3. CASE owed' = owed
      BY <1>3, <3>1, <3>3
    <3>4. QED
      BY <3>1, <3>2, <3>3
  <2>6. CASE Ack(i)
    <3>1. pc = "ack" /\ Head(i)
      BY <2>6 DEF Ack
    <3>2. Promise!Oldest(i) /\ i \in answered \ owed
      BY <2>1, <3>1, AckIsDue
    <3>3. Promise!Acknowledge(i)
      BY <2>6, <3>2 DEF Ack, Promise!Acknowledge
    <3>4. QED
      BY <2>2, <3>3 DEF Promise!Next
  <2>7. CASE AckFails(i)
    BY <1>4, <2>7 DEF AckFails, FailSync, EndRead
  <2>8. CASE TurnFails(i) \/ TurnTerminal(i) \/ NothingToPublish(i)
    BY <1>1, <1>3, <2>8
    DEF TurnFails, TurnTerminal, NothingToPublish, FailSync, EndRead, Gone
  <2>9. QED
    BY <1>5, <2>3, <2>4, <2>5, <2>6, <2>7, <2>8 DEF Handle
<1>6. CASE FetchPage
  BY <1>3, <1>6 DEF FetchPage, After
<1>7. CASE Crash
  <2>1. page' = {} /\ UNCHANGED <<accepted, answered, owed, acked>>
    BY <1>7 DEF Crash, Gone
  <2>2. CASE \E i \in page : pc = "ack" /\ Head(i)
    <3>1. PICK i \in page : pc = "ack" /\ Head(i)
      BY <2>2
    <3>2. i \in Items /\ page \subseteq Items
      BY DEF RangesOK, Items
    <3>3. {j \in page : pc = "ack" /\ Head(j)} = {i}
      BY <3>1, <3>2, HeadIsUnique
    <3>4. late' = late \union {i}
      BY <1>7, <3>3 DEF Crash
    <3>5. QED
      BY <1>4, <2>1, <3>1, <3>2, <3>4
  <2>3. CASE ~\E i \in page : pc = "ack" /\ Head(i)
    <3>1. late' = late
      BY <1>7, <2>3 DEF Crash
    <3>2. QED
      BY <1>3, <2>1, <3>1
  <2>4. QED
    BY <2>2, <2>3
<1>8. CASE AckLands
  <2>1. PICK i \in late : acked' = acked \union {i} /\ late' = late \ {i}
    BY <1>8 DEF AckLands
  <2>2. i \in 1..NumItems
    BY <2>1 DEF RangesOK
  <2>3. Promise!Land(i)
    BY <1>8, <2>1 DEF AckLands, Promise!Land
  <2>4. QED
    BY <2>2, <2>3 DEF Promise!Next
<1>9. CASE FetchFails \/ ReadDone \/ McpNotReady
  BY <1>3, <1>9 DEF FetchFails, ReadDone, McpNotReady, FailSync, EndRead
<1>10. CASE Boot \/ OnWakeSync \/ OnWake \/ OnRetry \/ NextPage \/ TakeItem \/ Report
            \/ Woken \/ Touch \/ UNCHANGED vars
  BY <1>1, <1>10 DEF Boot, OnWakeSync, OnWake, OnRetry, NextPage, TakeItem, Report,
                     Woken, Touch, vars
<1>11. QED
  BY <1>2, <1>5, <1>6, <1>7, <1>8, <1>9, <1>10 DEF Next, Daemon

\* Every behaviour of the loop is one AtLeastOnce allows (KeepsPromise): turns
\* oldest first, an ack only behind a delivered answer, and none after the ack
\* but of an item in hand when the ack landed.
THEOREM Implements == Spec => KeepsPromise
<1>1. Init => Promise!Init
  BY DEF Init, Promise!Init
<1>2. Init => RangesOK
  BY DEF Init, RangesOK, Phases, Backoffs
<1>3. QED
  BY <1>1, <1>2, RangesStep, PromiseStep, LoopInvariant, PTL
  DEF Spec, KeepsPromise, Promise!Spec
=============================================================================
