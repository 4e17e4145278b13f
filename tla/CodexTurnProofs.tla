--------------------------- MODULE CodexTurnProofs ---------------------------
(***************************************************************************)
(* What TLAPS proves of CodexTurn, for any number of turns, messages and   *)
(* failing requests.                                                       *)
(***************************************************************************)
EXTENDS CodexTurn, TLAPS

USE MaxTurnsAssumption DEF MaxTurnsAssumption
USE DEF Turns, serverVars, bridgeVars, trackerVars, chanVars, handlerVars, noteVars

-----------------------------------------------------------------------------
(* The results the bridge reports. *)

LEMMA NoneIsResult == None \in Results
BY DEF None, Results, Kinds

\* An error notification's result is one of the tracker's, and is not the mark
\* of an empty channel.
LEMMA FailureIsResult ==
  ASSUME NEW k \in {"transient", "fatal"}, NEW on \in {"own", "other"}
  PROVE  Failure(k, on) \in Results /\ Failure(k, on) # None
BY DEF Failure, Results, Kinds, None

\* So is whatever ExtractFinalAnswer makes of a turn.
LEMMA FinalAnswersAreResults ==
  ASSUME NEW listed \in SUBSET Nat, NEW written \in SUBSET Nat,
         NEW finals \in SUBSET Nat,
         NEW r \in FinalAnswers(listed, written, finals)
  PROVE  r \in Results /\ r # None /\ r.text \in Nat
<1>1. r = Missing \/ \E m \in Nat : r = Answer(m)
  BY DEF FinalAnswers, First, Last
<1>2. QED
  BY <1>1 DEF Missing, Answer, Results, Kinds, None

-----------------------------------------------------------------------------
(* Types. *)

LEMMA ServerStep == ServerOK /\ [Next]_vars => ServerOK'
<1> SUFFICES ASSUME ServerOK, [Next]_vars PROVE ServerOK'
  OBVIOUS
<1> USE MaxMessagesAssumption DEF MaxMessagesAssumption, ServerOK, States
<1>1. CASE UNCHANGED <<serverVars, bridgeVars, heard, whole, unheard>>
  BY <1>1
<1>2. ASSUME NEW t \in Turns, TurnStarts(t) PROVE ServerOK'
  BY <1>2 DEF TurnStarts
<1>3. ASSUME NEW t \in Turns, NEW m \in Messages(t), OnAgentMessageDelta(t, m)
      PROVE  ServerOK'
  <2>1. m \in Nat
    BY DEF Messages
  <2>2. QED
    BY <1>3, <2>1 DEF OnAgentMessageDelta
<1>4. ASSUME NEW t \in Turns, NEW m \in Messages(t), OnItemCompleted(t, m)
      PROVE  ServerOK'
  <2>1. m \in Nat
    BY DEF Messages
  <2>2. PICK phase \in {{}, {m}} : final' = [final EXCEPT ![t] = @ \union phase]
    BY <1>4 DEF OnItemCompleted
  <2>3. phase \in SUBSET Nat
    BY <2>1
  <2>4. final' \in [Turns -> SUBSET Nat]
    BY <2>2, <2>3
  <2>5. QED
    BY <1>4, <2>1, <2>4 DEF OnItemCompleted
<1>5. ASSUME NEW t \in Turns, OnTurnCompleted(t) PROVE ServerOK'
  <2>1. PICK n \in 0..MaxMessages[t], f \in SUBSET Messages(t) :
          /\ SaidInAll(t, n, f)
          /\ \E carried \in {{}, 1..n} : CompletedWith(t, carried, f)
    BY <1>5 DEF OnTurnCompleted
  <2>2. PICK carried \in {{}, 1..n} : CompletedWith(t, carried, f)
    BY <2>1
  <2>3. n \in Nat /\ f \in SUBSET Nat /\ carried \in SUBSET Nat
    BY DEF Messages
  <2>4. state' \in [Turns -> States] /\ said' \in [Turns -> Nat] /\ final' \in [Turns -> SUBSET Nat]
    BY <2>1, <2>3 DEF SaidInAll
  <2>5. heard' \in [Turns -> SUBSET Nat] /\ whole' \in [Turns -> SUBSET Nat]
    BY <2>2, <2>3 DEF CompletedWith
  <2>6. /\ items' \in [Turns -> SUBSET Nat] /\ deltas' \in [Turns -> SUBSET Nat]
        /\ UNCHANGED <<erred, unheard>>
    BY <1>5 DEF OnTurnCompleted
  <2>7. QED
    BY <2>4, <2>5, <2>6
<1>6. ASSUME NEW t \in Turns, OnError(t) \/ OnIdlessError(t) PROVE ServerOK'
  BY <1>6 DEF OnError, OnIdlessError
<1>7. CASE OnForeignError \/ Send \/ Handler \/ Stop
  <2>1. UNCHANGED <<serverVars, bridgeVars, heard, whole, unheard>>
    BY <1>7 DEF OnForeignError, Send, Stop, Handler, AskTurn, StartTurnFails, Register,
                TakeResult, TakeAnswer, TakeMissing, TakeTransient, TakeTerminal, Take,
                ReadsBack, ReadbackFails, ReadbackTimesOut, Cancel, Leave
  <2>2. QED
    BY <2>1, <1>1
<1>8. CASE UNCHANGED vars
  BY <1>8, <1>1 DEF vars
<1>9. QED
  BY <1>2, <1>3, <1>4, <1>5, <1>6, <1>7, <1>8 DEF Next, Bridge

\* Notify keeps the tracker well typed.
LEMMA NotifyTyped ==
  ASSUME TrackerOK, NEW t \in Turns, NEW r \in Results,
         Notify(t, r), Report(t, r), UNCHANGED chanVars
  PROVE  TrackerOK'
<1>1. reported' \in [Turns -> SUBSET Results]
  BY DEF Report, TrackerOK
<1>2. pending' \in [Turns -> Results]
  BY DEF Notify, TrackerOK
<1>3. hand' \in [to : 0..MaxTurns, result : Results]
  <2>1. [to |-> t, result |-> r] \in [to : 0..MaxTurns, result : Results]
    OBVIOUS
  <2>2. hand' = hand \/ hand' = [to |-> t, result |-> r]
    BY DEF Notify
  <2>3. QED
    BY <2>1, <2>2 DEF TrackerOK
<1>4. hand'.result # None => hand'.to \in Turns
  BY DEF Notify, TrackerOK, Free
<1>5. waiters' \subseteq Turns /\ (active' = 0 \/ active' \in waiters')
  <2>1. CASE t \in waiters
    BY <2>1 DEF Notify, TrackerOK
  <2>2. CASE t \notin waiters
    <3>1. UNCHANGED <<active, waiters>>
      BY <2>2 DEF Notify
    <3>2. QED
      BY <3>1 DEF TrackerOK
  <2>3. QED
    BY <2>1, <2>2
<1>6. QED
  BY <1>1, <1>2, <1>3, <1>4, <1>5 DEF TrackerOK, Free

LEMMA NotifyActiveTyped ==
  ASSUME TrackerOK, NEW r \in Results, NotifyActive(r), UNCHANGED chanVars
  PROVE  TrackerOK'
<1>1. CASE active \in waiters
  <2>1. active \in Turns
    BY <1>1 DEF TrackerOK
  <2>2. reported' \in [Turns -> SUBSET Results]
    BY <1>1, <2>1 DEF NotifyActive, Report, TrackerOK
  <2>3. hand' = [to |-> active, result |-> r]
    BY <1>1 DEF NotifyActive
  <2>4. hand' \in [to : 0..MaxTurns, result : Results]
    BY <2>1, <2>3
  <2>5. waiters' \subseteq Turns /\ active' = 0 /\ UNCHANGED pending
    BY <1>1 DEF NotifyActive, TrackerOK
  <2>6. QED
    BY <2>1, <2>2, <2>3, <2>4, <2>5 DEF TrackerOK, Free
<1>2. CASE active \notin waiters
  BY <1>2 DEF NotifyActive, TrackerOK, Free
<1>3. QED
  BY <1>1, <1>2

LEMMA TrackerStep == ServerOK /\ TrackerOK /\ HandlerOK /\ [Next]_vars => TrackerOK'
<1> SUFFICES ASSUME ServerOK, TrackerOK, HandlerOK, [Next]_vars PROVE TrackerOK'
  OBVIOUS
<1>1. ASSUME UNCHANGED <<trackerVars, hand, chanVars, reported>> PROVE TrackerOK'
  BY <1>1 DEF TrackerOK, Free
<1>2. ASSUME NEW t \in Turns, OnTurnCompleted(t) PROVE TrackerOK'
  <2>1. PICK f \in SUBSET Messages(t), carried \in SUBSET Nat : CompletedWith(t, carried, f)
    BY <1>2 DEF OnTurnCompleted
  <2> DEFINE listed == IF carried = {} THEN items[t] ELSE carried
  <2>2. listed \in SUBSET Nat /\ deltas[t] \in SUBSET Nat /\ f \in SUBSET Nat
    BY DEF ServerOK, Messages
  <2>3. PICK r \in FinalAnswers(listed, deltas[t], f) : Notify(t, r) /\ Report(t, r)
    BY <2>1 DEF CompletedWith
  <2>4. r \in Results
    BY <2>2, FinalAnswersAreResults
  <2>5. UNCHANGED chanVars
    BY <1>2 DEF OnTurnCompleted
  <2>6. QED
    BY <2>3, <2>4, <2>5, NotifyTyped
<1>3. ASSUME NEW t \in Turns, OnError(t) PROVE TrackerOK'
  <2>1. PICK k \in {"transient", "fatal"} :
          Notify(t, Failure(k, "own")) /\ Report(t, Failure(k, "own"))
    BY <1>3 DEF OnError
  <2>2. UNCHANGED chanVars
    BY <1>3 DEF OnError
  <2>3. QED
    BY <2>1, <2>2, FailureIsResult, NotifyTyped
<1>4. ASSUME (\E t \in Turns : OnIdlessError(t)) \/ OnForeignError PROVE TrackerOK'
  <2>1. PICK k \in {"transient", "fatal"}, on \in {"own", "other"} :
          NotifyActive(Failure(k, on))
    BY <1>4 DEF OnIdlessError, OnForeignError
  <2>2. UNCHANGED chanVars
    BY <1>4 DEF OnIdlessError, OnForeignError
  <2>3. QED
    BY <2>1, <2>2, FailureIsResult, NotifyActiveTyped
<1>5. CASE Send
  <2>1. hand.to \in Turns /\ hand.result \in Results
    BY <1>5 DEF Send, TrackerOK
  <2>2. box' \in [Turns -> Results] /\ closed' \subseteq Turns
    BY <1>5, <2>1 DEF Send, TrackerOK
  <2>3. hand' = [to |-> 0, result |-> None]
    BY <1>5 DEF Send
  <2>4. hand' \in [to : 0..MaxTurns, result : Results] /\ hand'.result = None
    BY <2>3, NoneIsResult
  <2>5. UNCHANGED <<trackerVars, reported>>
    BY <1>5 DEF Send
  <2>6. QED
    BY <2>2, <2>4, <2>5 DEF TrackerOK, Free
<1>6. CASE Register
  <2>1. cur \in Turns /\ UNCHANGED <<hand, reported>>
    BY <1>6 DEF Register, HandlerOK
  <2>2. box' \in [Turns -> Results] /\ pending' \in [Turns -> Results]
    BY <1>6, <2>1, NoneIsResult DEF Register, TrackerOK
  <2>3. closed' \subseteq Turns /\ waiters' \subseteq Turns
    BY <1>6, <2>1 DEF Register, TrackerOK
  <2>4. active' = 0 \/ active' \in waiters'
    BY <1>6, <2>1 DEF Register, TrackerOK
  <2>5. QED
    BY <2>1, <2>2, <2>3, <2>4 DEF TrackerOK, Free
<1>7. CASE TakeResult
  <2>1. UNCHANGED <<trackerVars, hand, closed, reported>> /\ box' = [box EXCEPT ![cur] = None]
    BY <1>7 DEF TakeResult, TakeAnswer, TakeMissing, TakeTransient, TakeTerminal, Take
  <2>2. QED
    BY <2>1, NoneIsResult DEF TrackerOK, Free
<1>8. CASE Cancel
  BY <1>8, NoneIsResult DEF Cancel, TrackerOK, Free
<1>9. ASSUME NEW t \in Turns,
             TurnStarts(t) \/ \E m \in Messages(t) : OnAgentMessageDelta(t, m) \/ OnItemCompleted(t, m)
      PROVE  TrackerOK'
  BY <1>9, <1>1 DEF TurnStarts, OnAgentMessageDelta, OnItemCompleted
<1>10. CASE AskTurn \/ StartTurnFails \/ ReadsBack \/ ReadbackFails \/ ReadbackTimesOut
            \/ Leave \/ Stop
  BY <1>10, <1>1 DEF AskTurn, StartTurnFails, ReadsBack, ReadbackFails,
                     ReadbackTimesOut, Leave, Stop
<1>11. CASE UNCHANGED vars
  BY <1>11, <1>1 DEF vars
<1>12. QED
  BY <1>2, <1>3, <1>4, <1>5, <1>6, <1>7, <1>8, <1>9, <1>10, <1>11
     DEF Next, Bridge, Handler

LEMMA HandlerStep ==
  ServerOK /\ TrackerOK /\ HandlerOK /\ [Next]_vars => HandlerOK'
<1> SUFFICES ASSUME ServerOK, TrackerOK, HandlerOK, [Next]_vars PROVE HandlerOK'
  OBVIOUS
<1> USE MaxFaultsAssumption DEF MaxFaultsAssumption, HandlerOK
<1>1. ASSUME UNCHANGED <<pc, cur, faults, taken, outcome, posted>> PROVE HandlerOK'
  BY <1>1
<1>2. ASSUME NEW t \in Turns, TurnStarts(t) \/ Bridge(t) PROVE HandlerOK'
  BY <1>2, <1>1 DEF TurnStarts, Bridge, OnAgentMessageDelta, OnItemCompleted,
                    OnTurnCompleted, OnError, OnIdlessError
<1>3. CASE Send \/ Stop
  BY <1>3, <1>1 DEF Send, Stop
<1>4. CASE OnForeignError
  BY <1>4 DEF OnForeignError, Fault
<1>5. CASE AskTurn
  BY <1>5 DEF AskTurn
<1>6. CASE StartTurnFails
  BY <1>6 DEF StartTurnFails, Return, End, Outcomes, Fault
<1>7. CASE Register
  BY <1>7 DEF Register
<1>8. CASE TakeResult
  <2>1. box[cur] \in Results /\ box[cur].text \in Nat
    BY <1>8 DEF TakeResult, TrackerOK, Results
  <2>2. taken' \in [Turns -> Results] /\ UNCHANGED <<cur, faults>>
    BY <1>8, <2>1 DEF TakeResult, TakeAnswer, TakeMissing, TakeTransient, TakeTerminal, Take
  <2>3. posted' \in [Turns -> Nat]
    BY <1>8, <2>1 DEF TakeResult, TakeAnswer, TakeMissing, TakeTransient, TakeTerminal
  <2>4. outcome' \in [Turns -> Outcomes] /\ pc' \in {"idle", "readback", "down"} /\ cur > 0
    BY <1>8 DEF TakeResult, TakeAnswer, TakeMissing, TakeTransient, TakeTerminal,
                Return, Terminal, End, Outcomes
  <2>5. QED
    BY <2>2, <2>3, <2>4
<1>9. CASE ReadsBack
  <2>1. cur \in Turns /\ 1..said[cur] \in SUBSET Nat /\ final[cur] \in SUBSET Nat
    BY <1>9 DEF ReadsBack, ServerOK
  <2>2. PICK r \in FinalAnswers(1..said[cur], {}, final[cur]) :
          posted' = [posted EXCEPT ![cur] = r.text]
    BY <1>9 DEF ReadsBack
  <2>3. r.text \in Nat
    BY <2>1, FinalAnswersAreResults
  <2>4. QED
    BY <1>9, <2>2, <2>3 DEF ReadsBack, Return, End, Outcomes
<1>10. CASE ReadbackFails
  BY <1>10 DEF ReadbackFails, Return, End, Outcomes, Fault
<1>11. CASE ReadbackTimesOut
  BY <1>11 DEF ReadbackTimesOut, Terminal, End, Outcomes
<1>12. CASE Cancel
  BY <1>12 DEF Cancel, End, Outcomes
<1>13. CASE Leave
  BY <1>13 DEF Leave
<1>14. CASE UNCHANGED vars
  BY <1>14, <1>1 DEF vars
<1>15. QED
  BY <1>2, <1>3, <1>4, <1>5, <1>6, <1>7, <1>8, <1>9, <1>10, <1>11, <1>12, <1>13,
     <1>14 DEF Next, Handler

LEMMA StoppingStep == StoppingOK /\ [Next]_vars => StoppingOK'
<1> SUFFICES ASSUME StoppingOK, [Next]_vars PROVE StoppingOK'
  OBVIOUS
<1>1. stopping' = stopping \/ stopping' = TRUE
  <2>1. CASE Stop
    BY <2>1 DEF Stop
  <2>2. CASE Handler
    BY <2>2 DEF Handler, AskTurn, StartTurnFails, Register, TakeResult, TakeAnswer,
                TakeMissing, TakeTransient, TakeTerminal, Take, ReadsBack,
                ReadbackFails, ReadbackTimesOut, Cancel, Leave
  <2>3. CASE OnForeignError \/ Send \/ \E t \in Turns : TurnStarts(t) \/ Bridge(t)
    BY <2>3 DEF OnForeignError, Send, TurnStarts, Bridge, OnAgentMessageDelta,
                OnItemCompleted, OnTurnCompleted, OnError, OnIdlessError
  <2>4. CASE UNCHANGED vars
    BY <2>4 DEF vars
  <2>5. QED
    BY <2>1, <2>2, <2>3, <2>4 DEF Next
<1>2. QED
  BY <1>1 DEF StoppingOK

LEMMA InitTyped == Init => ServerOK /\ TrackerOK /\ HandlerOK /\ StoppingOK
<1> SUFFICES ASSUME Init PROVE ServerOK /\ TrackerOK /\ HandlerOK /\ StoppingOK
  OBVIOUS
<1>1. ServerOK
  BY DEF Init, ServerOK, States
<1>2. TrackerOK
  <2>1. hand = [to |-> 0, result |-> None] /\ hand.result = None
    BY DEF Init
  <2>2. hand \in [to : 0..MaxTurns, result : Results]
    BY <2>1, NoneIsResult
  <2>3. /\ pending \in [Turns -> Results] /\ box \in [Turns -> Results]
        /\ reported \in [Turns -> SUBSET Results]
    BY NoneIsResult DEF Init
  <2>4. waiters = {} /\ closed = {} /\ active = 0
    BY DEF Init
  <2>5. QED
    BY <2>1, <2>2, <2>3, <2>4 DEF TrackerOK, Free
<1>3. HandlerOK
  BY NoneIsResult, MaxFaultsAssumption DEF Init, HandlerOK, Outcomes, MaxFaultsAssumption
<1>4. StoppingOK
  BY DEF Init, StoppingOK
<1>5. QED
  BY <1>1, <1>2, <1>3, <1>4

LEMMA Types ==
  Spec => [](ServerOK /\ TrackerOK /\ HandlerOK) /\ []StoppingOK
<1>1. ServerOK /\ TrackerOK /\ HandlerOK /\ [Next]_vars
        => (ServerOK /\ TrackerOK /\ HandlerOK)'
  BY ServerStep, TrackerStep, HandlerStep
<1>2. QED
  BY <1>1, InitTyped, StoppingStep, PTL DEF Spec

\* The variables of the bridge, the tracker and the handler keep their types,
\* and no turn is active but one that is waited for (TypeOK).
THEOREM TypeCorrect == Spec => []TypeOK
BY Types, PTL DEF TypeOK

-----------------------------------------------------------------------------
(* Waiters, senders and results. *)

\* Reporting a result for a turn leaves everything kept for turns reported.
LEMMA ReportKeeps ==
  ASSUME TrackerOK, NEW t \in Turns, NEW r \in Results, Report(t, r)
  PROVE  /\ r \in reported'[t]
         /\ \A u \in Turns : reported[u] \subseteq reported'[u]
BY DEF Report, TrackerOK

\* Notify takes the waiter out of the map and hands it its turn's result, or
\* keeps the result for it.
LEMMA NotifyKeeps ==
  ASSUME TrackerOK, HandlerOK, TurnInv, Free, NEW t \in Turns, NEW r \in Results,
         Notify(t, r), Report(t, r), UNCHANGED <<chanVars, handlerVars>>
  PROVE  TurnInv'
<1> USE DEF TurnInv
<1>1. NoneTakenYet'
  BY DEF NoneTakenYet
<1>2. \A u \in Turns : box[u] # None => box'[u] \in reported'[u]
  BY ReportKeeps DEF ResultsBelong
<1>3. CASE t \in waiters
  <2>1. t = cur /\ pc = "wait" /\ active = t /\ t \notin closed
    BY <1>3 DEF WaiterIsCurrent
  <2>2. hand' = [to |-> t, result |-> r] /\ waiters' = waiters \ {t} /\ UNCHANGED pending
    BY <1>3 DEF Notify
  <2>3. waiters' = {}
    BY <2>1, <2>2 DEF WaiterIsCurrent
  <2>4. WaiterIsCurrent'
    BY <2>1, <2>3 DEF WaiterIsCurrent
  <2>5. hand'.to = t /\ hand'.result = r
    BY <2>2
  <2>6. SenderIsLast'
    BY <2>1, <2>3, <2>5 DEF SenderIsLast, Free
  <2>7. \A u \in Turns : pending'[u] # None => pending'[u] \in reported'[u]
    BY <2>2, ReportKeeps DEF ResultsBelong
  <2>8. ResultsBelong'
    BY <1>2, <2>5, <2>7, ReportKeeps DEF ResultsBelong, Free
  <2>9. QED
    BY <1>1, <2>4, <2>6, <2>8
<1>4. CASE t \notin waiters
  <2>1. UNCHANGED <<waiters, active, hand>> /\ pending' = [pending EXCEPT ![t] = r]
    BY <1>4 DEF Notify
  <2>2. WaiterIsCurrent' /\ SenderIsLast'
    BY <2>1 DEF WaiterIsCurrent, SenderIsLast, Free
  <2>3. \A u \in Turns : pending'[u] # None => pending'[u] \in reported'[u]
    BY <2>1, ReportKeeps DEF ResultsBelong, TrackerOK
  <2>4. ResultsBelong'
    BY <1>2, <2>1, <2>3 DEF ResultsBelong, Free
  <2>5. QED
    BY <1>1, <2>2, <2>4
<1>5. QED
  BY <1>3, <1>4

\* NotifyActive hands the active turn's waiter the result, or drops it.
LEMMA NotifyActiveKeeps ==
  ASSUME TrackerOK, HandlerOK, TurnInv, Free, NEW r \in Results,
         NotifyActive(r), UNCHANGED <<chanVars, handlerVars>>
  PROVE  TurnInv'
<1> USE DEF TurnInv
<1>1. CASE active \in waiters
  <2>1. active \in Turns /\ Report(active, r)
    BY <1>1 DEF NotifyActive, TrackerOK
  <2>2. Notify(active, r)
    BY <1>1 DEF NotifyActive, Notify
  <2>3. QED
    BY <2>1, <2>2, NotifyKeeps
<1>2. CASE active \notin waiters
  <2>1. UNCHANGED <<hand, trackerVars, reported>>
    BY <1>2 DEF NotifyActive
  <2>2. QED
    BY <2>1 DEF WaiterIsCurrent, SenderIsLast, ResultsBelong, NoneTakenYet, Free
<1>3. QED
  BY <1>1, <1>2

LEMMA TurnStep ==
  ServerOK /\ TrackerOK /\ HandlerOK /\ TurnInv /\ [Next]_vars => TurnInv'
<1> SUFFICES ASSUME ServerOK, TrackerOK, HandlerOK, TurnInv, [Next]_vars PROVE TurnInv'
  OBVIOUS
<1>1. ASSUME UNCHANGED <<trackerVars, hand, chanVars, reported, cur, taken>>,
             pc' = pc \/ (pc' \notin {"start", "wait"} /\ pc # "wait")
      PROVE  TurnInv'
  BY <1>1 DEF TurnInv, WaiterIsCurrent, SenderIsLast, ResultsBelong, NoneTakenYet, Free
<1>2. ASSUME NEW t \in Turns, OnTurnCompleted(t) PROVE TurnInv'
  <2>1. PICK f \in SUBSET Messages(t), carried \in SUBSET Nat : CompletedWith(t, carried, f)
    BY <1>2 DEF OnTurnCompleted
  <2> DEFINE listed == IF carried = {} THEN items[t] ELSE carried
  <2>2. listed \in SUBSET Nat /\ deltas[t] \in SUBSET Nat /\ f \in SUBSET Nat
    BY DEF ServerOK, Messages
  <2>3. PICK r \in FinalAnswers(listed, deltas[t], f) : Notify(t, r) /\ Report(t, r)
    BY <2>1 DEF CompletedWith
  <2>4. r \in Results
    BY <2>2, FinalAnswersAreResults
  <2>5. Free /\ UNCHANGED <<chanVars, handlerVars>>
    BY <1>2 DEF OnTurnCompleted, Notified
  <2>6. QED
    BY <2>3, <2>4, <2>5, NotifyKeeps
<1>3. ASSUME NEW t \in Turns, OnError(t) PROVE TurnInv'
  <2>1. PICK k \in {"transient", "fatal"} :
          Notify(t, Failure(k, "own")) /\ Report(t, Failure(k, "own"))
    BY <1>3 DEF OnError
  <2>2. Free /\ UNCHANGED <<chanVars, handlerVars>>
    BY <1>3 DEF OnError, Notified
  <2>3. QED
    BY <2>1, <2>2, FailureIsResult, NotifyKeeps
<1>4. ASSUME (\E t \in Turns : OnIdlessError(t)) \/ OnForeignError PROVE TurnInv'
  <2>1. PICK k \in {"transient", "fatal"}, on \in {"own", "other"} :
          NotifyActive(Failure(k, on))
    BY <1>4 DEF OnIdlessError, OnForeignError
  <2>2. Free /\ UNCHANGED <<chanVars, handlerVars>>
    BY <1>4 DEF OnIdlessError, OnForeignError, Notified
  <2>3. QED
    BY <2>1, <2>2, FailureIsResult, NotifyActiveKeeps
<1>5. CASE Send
  <2>1. ~Free /\ hand' = [to |-> 0, result |-> None] /\ hand.to \in Turns
    BY <1>5 DEF Send, TrackerOK
  <2>2. /\ box' = [box EXCEPT ![hand.to] = hand.result]
        /\ closed' = closed \union {hand.to}
        /\ UNCHANGED <<trackerVars, handlerVars, reported>>
    BY <1>5 DEF Send
  <2>3. hand'.result = None
    BY <2>1
  <2>4. WaiterIsCurrent'
    BY <2>1, <2>2 DEF TurnInv, WaiterIsCurrent, SenderIsLast
  <2>5. SenderIsLast'
    BY <2>1, <2>2, <2>3 DEF TurnInv, SenderIsLast, Free, TrackerOK
  <2>6. ResultsBelong'
    BY <2>1, <2>2, <2>3 DEF TurnInv, ResultsBelong, Free, TrackerOK
  <2>7. NoneTakenYet'
    BY <2>2 DEF TurnInv, NoneTakenYet
  <2>8. QED
    BY <2>4, <2>5, <2>6, <2>7 DEF TurnInv
<1>6. CASE AskTurn
  <2>1. /\ pc = "idle" /\ pc' = "start" /\ cur' = cur + 1 /\ cur \in Nat
        /\ UNCHANGED <<trackerVars, hand, chanVars, reported, taken>>
    BY <1>6 DEF AskTurn, HandlerOK
  <2>2. waiters = {}
    BY <2>1 DEF TurnInv, WaiterIsCurrent
  <2>3. WaiterIsCurrent'
    BY <2>1, <2>2 DEF TurnInv, WaiterIsCurrent
  <2>4. SenderIsLast'
    BY <2>1 DEF TurnInv, SenderIsLast, Free
  <2>5. ResultsBelong' /\ NoneTakenYet'
    BY <2>1 DEF TurnInv, ResultsBelong, NoneTakenYet, Free
  <2>6. QED
    BY <2>3, <2>4, <2>5 DEF TurnInv
<1>7. CASE Register
  <2>1. /\ pc = "start" /\ pc' = "wait" /\ cur \in Turns
        /\ UNCHANGED <<hand, reported, cur, taken>>
    BY <1>7 DEF Register, HandlerOK
  <2>2. waiters = {} /\ cur \notin closed
    BY <2>1 DEF TurnInv, WaiterIsCurrent
  <2>3. NoneTakenYet'
    BY <2>1 DEF TurnInv, NoneTakenYet
  <2>4. CASE pending[cur] # None
    <3>1. /\ pending' = [pending EXCEPT ![cur] = None]
          /\ box' = [box EXCEPT ![cur] = pending[cur]]
          /\ closed' = closed \union {cur}
          /\ UNCHANGED <<waiters, active>>
      BY <1>7, <2>4 DEF Register
    <3>2. WaiterIsCurrent'
      BY <2>1, <2>2, <3>1 DEF TurnInv, WaiterIsCurrent
    <3>3. SenderIsLast'
      BY <2>1, <2>2, <3>1 DEF TurnInv, SenderIsLast, Free, TrackerOK
    <3>4. ResultsBelong'
      BY <2>1, <2>4, <3>1 DEF TurnInv, ResultsBelong, Free, TrackerOK
    <3>5. QED
      BY <2>3, <3>2, <3>3, <3>4 DEF TurnInv
  <2>5. CASE pending[cur] = None
    <3>1. waiters' = {cur} /\ active' = cur /\ UNCHANGED <<pending, chanVars>>
      BY <1>7, <2>2, <2>5 DEF Register
    <3>2. WaiterIsCurrent'
      BY <2>1, <2>2, <3>1 DEF TurnInv, WaiterIsCurrent
    <3>3. SenderIsLast'
      BY <2>1, <2>2, <3>1 DEF TurnInv, SenderIsLast, Free
    <3>4. ResultsBelong'
      BY <2>1, <3>1 DEF TurnInv, ResultsBelong, Free
    <3>5. QED
      BY <2>3, <3>2, <3>3, <3>4 DEF TurnInv
  <2>6. QED
    BY <2>4, <2>5
<1>8. CASE TakeResult
  <2>1. /\ pc = "wait" /\ pc' \in {"idle", "readback", "down"} /\ box[cur] # None
        /\ box' = [box EXCEPT ![cur] = None] /\ taken' = [taken EXCEPT ![cur] = box[cur]]
        /\ UNCHANGED <<trackerVars, hand, closed, reported, cur>> /\ cur \in Turns
    BY <1>8 DEF TakeResult, TakeAnswer, TakeMissing, TakeTransient, TakeTerminal, Take,
                Return, Terminal, HandlerOK
  <2>2. cur \in closed
    BY <2>1 DEF TurnInv, SenderIsLast
  <2>3. waiters = {}
    BY <2>2 DEF TurnInv, WaiterIsCurrent
  <2>4. WaiterIsCurrent'
    BY <2>1, <2>3 DEF TurnInv, WaiterIsCurrent
  <2>5. SenderIsLast'
    BY <2>1 DEF TurnInv, SenderIsLast, Free, TrackerOK
  <2>6. ResultsBelong'
    BY <2>1 DEF TurnInv, ResultsBelong, Free, TrackerOK
  <2>7. NoneTakenYet'
    BY <2>1 DEF TurnInv, NoneTakenYet, HandlerOK
  <2>8. QED
    BY <2>4, <2>5, <2>6, <2>7 DEF TurnInv
<1>9. CASE Cancel
  <2>1. /\ waiters' = waiters \ {cur} /\ pending' = [pending EXCEPT ![cur] = None]
        /\ pc' = "down" /\ UNCHANGED <<hand, chanVars, cur, taken, reported>>
    BY <1>9 DEF Cancel
  <2>2. waiters' = {}
    BY <2>1 DEF TurnInv, WaiterIsCurrent
  <2>3. WaiterIsCurrent' /\ SenderIsLast' /\ NoneTakenYet'
    BY <2>1, <2>2 DEF TurnInv, WaiterIsCurrent, SenderIsLast, NoneTakenYet, Free
  <2>4. ResultsBelong'
    BY <2>1 DEF TurnInv, ResultsBelong, Free, TrackerOK
  <2>5. QED
    BY <2>3, <2>4 DEF TurnInv
<1>10. ASSUME NEW t \in Turns,
              TurnStarts(t) \/ \E m \in Messages(t) : OnAgentMessageDelta(t, m) \/ OnItemCompleted(t, m)
       PROVE  TurnInv'
  BY <1>10, <1>1 DEF TurnStarts, OnAgentMessageDelta, OnItemCompleted
<1>11. CASE StartTurnFails \/ ReadsBack \/ ReadbackFails \/ ReadbackTimesOut \/ Leave \/ Stop
  BY <1>11, <1>1 DEF StartTurnFails, ReadsBack, ReadbackFails, ReadbackTimesOut, Leave,
                     Stop, Return, Terminal
<1>12. CASE UNCHANGED vars
  BY <1>12, <1>1 DEF vars
<1>13. QED
  BY <1>2, <1>3, <1>4, <1>5, <1>6, <1>7, <1>8, <1>9, <1>10, <1>11, <1>12
     DEF Next, Bridge, Handler

LEMMA TurnInvHolds == Spec => []TurnInv
<1>1. Init => TurnInv
  BY DEF Init, TurnInv, WaiterIsCurrent, SenderIsLast, ResultsBelong, NoneTakenYet, Free
<1>2. QED
  BY <1>1, Types, TurnStep, PTL DEF Spec

\* No result is ever sent to a turn's waiter after the first, so no send panics
\* on a closed channel or blocks the bridge's goroutine (SendsOnce).
THEOREM NeverSendsTwice == Spec => []SendsOnce
<1>1. TrackerOK /\ TurnInv => SendsOnce
  BY DEF TrackerOK, TurnInv, SenderIsLast, SendsOnce
<1>2. QED
  BY <1>1, Types, TurnInvHolds, PTL

\* The turn waited for is the active one until it has its result, so that an
\* error that names no turn ends the wait (WaitedTurnIsActive).
THEOREM WaitedTurnStaysActive == Spec => []WaitedTurnIsActive
<1>1. TurnInv => WaitedTurnIsActive
  BY DEF TurnInv, WaiterIsCurrent, WaitedTurnIsActive
<1>2. QED
  BY <1>1, TurnInvHolds, PTL

-----------------------------------------------------------------------------
(* The tracker keeps its promise. *)

LEMMA ReportedGrows ==
  ServerOK /\ TrackerOK /\ [Next]_vars => \A t \in Turns : reported[t] \subseteq reported'[t]
<1> SUFFICES ASSUME ServerOK, TrackerOK, [Next]_vars, NEW t \in Turns
             PROVE  reported[t] \subseteq reported'[t]
  OBVIOUS
<1>1. UNCHANGED reported \/ \E u, r : Report(u, r)
  BY DEF Next, Bridge, Handler, TurnStarts, OnAgentMessageDelta, OnItemCompleted,
         OnTurnCompleted, CompletedWith, OnError, OnIdlessError, OnForeignError,
         NotifyActive, Send, Stop, AskTurn, StartTurnFails, Register, TakeResult,
         TakeAnswer, TakeMissing, TakeTransient, TakeTerminal, Take, ReadsBack,
         ReadbackFails, ReadbackTimesOut, Cancel, Leave, vars
<1>2. QED
  BY <1>1 DEF Report, TrackerOK

LEMMA TakenStep ==
  HandlerOK /\ [Next]_vars =>
    \/ UNCHANGED taken
    \/ TakeResult
<1> SUFFICES ASSUME HandlerOK, [Next]_vars, ~TakeResult PROVE UNCHANGED taken
  OBVIOUS
<1>1. QED
  BY DEF Next, Bridge, Handler, TurnStarts, OnAgentMessageDelta, OnItemCompleted,
         OnTurnCompleted, OnError, OnIdlessError, OnForeignError, Send, Stop, AskTurn,
         StartTurnFails, Register, ReadsBack, ReadbackFails, ReadbackTimesOut, Cancel,
         Leave, vars

\* Every handler takes at most one result, reported for its own turn: the bridge,
\* the tracker and the handler implement TurnResults (TakesItsOwnResult).
THEOREM Implements == Spec => TakesItsOwnResult
<1>1. Init => Promise!Init
  BY DEF Init, Promise!Init
<1>2. ASSUME ServerOK, TrackerOK, HandlerOK, TrackerOK', TurnInv, [Next]_vars
      PROVE  [Promise!Next]_(Promise!vars)
  <2>1. CASE UNCHANGED taken
    <3>1. /\ reported' \in [Turns -> SUBSET Results]
          /\ \A t \in Turns : reported[t] \subseteq reported'[t]
      BY <1>2, ReportedGrows DEF TrackerOK
    <3>2. QED
      BY <2>1, <3>1 DEF Promise!Next, Promise!Report
  <2>2. CASE TakeResult
    <3>1. /\ cur \in Turns /\ pc = "wait" /\ box[cur] # None
          /\ taken' = [taken EXCEPT ![cur] = box[cur]] /\ UNCHANGED reported
      BY <1>2, <2>2 DEF TakeResult, TakeAnswer, TakeMissing, TakeTransient,
                        TakeTerminal, Take, HandlerOK
    <3>2. taken[cur] = None /\ box[cur] \in reported[cur]
      BY <1>2, <3>1 DEF TurnInv, NoneTakenYet, ResultsBelong
    <3>3. Promise!Take(cur)
      BY <3>1, <3>2 DEF Promise!Take
    <3>4. QED
      BY <3>1, <3>3 DEF Promise!Next
  <2>3. QED
    BY <1>2, <2>1, <2>2, TakenStep
<1>3. QED
  BY <1>1, <1>2, Types, TurnInvHolds, PTL DEF Spec, TakesItsOwnResult, Promise!Spec

-----------------------------------------------------------------------------
(* What is delivered as an answer. *)

\* What mergeTurnItems and ExtractFinalAnswer are to find in the messages of a turn
\* of which some are listed and others only seen being written.
LastWords(listed, written, finals) ==
  IF listed \intersect finals # {} THEN First(listed \intersect finals)
  ELSE Last(listed \union written)

\* ExtractFinalAnswer: the first of the listed messages that is final, or else
\* the last of all, when those that are only known by their deltas come last.
LEMMA FinalAnswersAreLastWords ==
  ASSUME NEW listed \in SUBSET Nat, NEW written \in SUBSET Nat, NEW finals \in SUBSET Nat,
         \A k \in written \ listed : k \in Last(listed \union written),
         NEW r \in FinalAnswers(listed, written, finals)
  PROVE  \/ r = Missing /\ listed \union written = {}
         \/ \E m \in listed \union written :
              r = Answer(m) /\ m \in LastWords(listed, written, finals)
<1>1. CASE listed \intersect finals # {}
  <2>1. PICK m \in First(listed \intersect finals) : r = Answer(m)
    BY <1>1 DEF FinalAnswers
  <2>2. m \in listed
    BY <2>1 DEF First
  <2>3. QED
    BY <1>1, <2>1, <2>2 DEF LastWords
<1>2. CASE listed \intersect finals = {} /\ written \ listed # {}
  <2>1. PICK m \in written \ listed : r = Answer(m)
    BY <1>2 DEF FinalAnswers
  <2>2. QED
    BY <1>2, <2>1 DEF LastWords
<1>3. CASE listed \intersect finals = {} /\ written \ listed = {} /\ listed # {}
  <2>1. PICK m \in Last(listed) : r = Answer(m)
    BY <1>3 DEF FinalAnswers
  <2>2. listed \union written = listed
    BY <1>3
  <2>3. QED
    BY <1>3, <2>1, <2>2 DEF Last, LastWords
<1>4. CASE listed = {} /\ written = {}
  BY <1>4 DEF FinalAnswers
<1>5. QED
  BY <1>1, <1>2, <1>3, <1>4

\* A message is added only to what was announced in order.
LEMMA NextStaysInOrder ==
  ASSUME ServerOK, HeardInOrder, NEW t \in Turns, NEW m \in Nat,
         state[t] # "over", NextToHear(t, m)
  PROVE  \A k \in heard[t] \union {m} : k \in whole[t] \/ k \in Last(heard[t] \union {m})
<1> SUFFICES ASSUME NEW k \in heard[t] \union {m}, k \notin whole[t]
             PROVE  k \in Last(heard[t] \union {m})
  OBVIOUS
<1>1. k = m
  BY DEF NextToHear
<1>2. \A j \in heard[t] : j <= m
  BY DEF NextToHear, ServerOK
<1>3. QED
  BY <1>1, <1>2 DEF Last

\* What is settled of a turn that is over stays so.
LEMMA SettledStays ==
  ASSUME NEW t \in Turns, NEW r, SettledBy(t, r), state[t] = "over" => state'[t] = "over",
         state[t] = "over" =>
           /\ said'[t] = said[t] /\ final'[t] = final[t]
           /\ heard'[t] = heard[t] /\ whole'[t] = whole[t]
  PROVE  SettledBy(t, r)'
BY DEF SettledBy, IsLastWord

\* A turn that is over hears no more.
LEMMA OverIsOver ==
  ASSUME ServerOK, [Next]_vars, NEW t \in Turns, state[t] = "over"
  PROVE  /\ state'[t] = "over"
         /\ said'[t] = said[t] /\ final'[t] = final[t]
         /\ heard'[t] = heard[t] /\ whole'[t] = whole[t]
<1> USE DEF ServerOK
<1>1. ASSUME UNCHANGED <<state, said, final, heard, whole>>
      PROVE  /\ state'[t] = "over"
             /\ said'[t] = said[t] /\ final'[t] = final[t]
             /\ heard'[t] = heard[t] /\ whole'[t] = whole[t]
  BY <1>1
<1>2. ASSUME NEW u \in Turns, TurnStarts(u)
      PROVE  /\ state'[t] = "over"
             /\ said'[t] = said[t] /\ final'[t] = final[t]
             /\ heard'[t] = heard[t] /\ whole'[t] = whole[t]
  BY <1>2 DEF TurnStarts
<1>3. ASSUME NEW u \in Turns, NEW m \in Messages(u),
             OnAgentMessageDelta(u, m) \/ OnItemCompleted(u, m)
      PROVE  /\ state'[t] = "over"
             /\ said'[t] = said[t] /\ final'[t] = final[t]
             /\ heard'[t] = heard[t] /\ whole'[t] = whole[t]
  BY <1>3 DEF OnAgentMessageDelta, OnItemCompleted, Notified
<1>4. ASSUME NEW u \in Turns, OnTurnCompleted(u)
      PROVE  /\ state'[t] = "over"
             /\ said'[t] = said[t] /\ final'[t] = final[t]
             /\ heard'[t] = heard[t] /\ whole'[t] = whole[t]
  <2>1. u # t
    BY <1>4 DEF OnTurnCompleted, Notified
  <2>2. PICK n \in 0..MaxMessages[u], f \in SUBSET Messages(u) :
          /\ SaidInAll(u, n, f)
          /\ \E carried \in {{}, 1..n} : CompletedWith(u, carried, f)
    BY <1>4 DEF OnTurnCompleted
  <2>3. QED
    BY <2>1, <2>2 DEF SaidInAll, CompletedWith
<1>5. CASE (\E u \in Turns : OnError(u) \/ OnIdlessError(u)) \/ OnForeignError \/ Send \/ Stop
  BY <1>5, <1>1 DEF OnError, OnIdlessError, OnForeignError, Send, Stop
<1>6. CASE Handler
  BY <1>6, <1>1 DEF Handler, AskTurn, StartTurnFails, Register, TakeResult, TakeAnswer,
                    TakeMissing, TakeTransient, TakeTerminal, Take, ReadsBack,
                    ReadbackFails, ReadbackTimesOut, Cancel, Leave
<1>7. CASE UNCHANGED vars
  BY <1>7, <1>1 DEF vars
<1>8. QED
  BY <1>2, <1>3, <1>4, <1>5, <1>6, <1>7 DEF Next, Bridge

LEMMA HeardInOrderStep ==
  ServerOK /\ HeardInOrder /\ [Next]_vars => HeardInOrder'
<1> SUFFICES ASSUME ServerOK, HeardInOrder, [Next]_vars PROVE HeardInOrder'
  OBVIOUS
<1>1. ASSUME UNCHANGED <<state, final, items, deltas, heard, whole>> PROVE HeardInOrder'
  BY <1>1 DEF HeardInOrder
<1>2. ASSUME NEW u \in Turns, TurnStarts(u) PROVE HeardInOrder'
  BY <1>2 DEF TurnStarts, HeardInOrder, ServerOK
<1>3. ASSUME NEW u \in Turns, NEW m \in Messages(u), OnAgentMessageDelta(u, m)
      PROVE  HeardInOrder'
  <2>1. m \in Nat /\ NextToHear(u, m) /\ state[u] # "over"
    BY <1>3, MaxMessagesAssumption DEF Messages, OnAgentMessageDelta, Notified, MaxMessagesAssumption
  <2>2. /\ deltas' = [deltas EXCEPT ![u] = @ \union {m}]
        /\ heard' = [heard EXCEPT ![u] = @ \union {m}]
        /\ UNCHANGED <<state, final, items, whole>>
    BY <1>3 DEF OnAgentMessageDelta
  <2>3. \A k \in heard[u] \union {m} : k \in whole[u] \/ k \in Last(heard[u] \union {m})
    BY <2>1, NextStaysInOrder
  <2>4. heard'[u] = heard[u] \union {m} /\ deltas'[u] = deltas[u] \union {m}
    BY <2>2 DEF ServerOK
  <2>5. \A t \in Turns \ {u} : heard'[t] = heard[t] /\ deltas'[t] = deltas[t]
    BY <2>2 DEF ServerOK
  <2>6. QED
    BY <2>1, <2>2, <2>3, <2>4, <2>5 DEF HeardInOrder
<1>4. ASSUME NEW u \in Turns, NEW m \in Messages(u), OnItemCompleted(u, m)
      PROVE  HeardInOrder'
  <2>1. m \in Nat /\ NextToHear(u, m) /\ state[u] # "over"
    BY <1>4, MaxMessagesAssumption DEF Messages, OnItemCompleted, Notified, MaxMessagesAssumption
  <2>2. PICK phase \in {{}, {m}} : final' = [final EXCEPT ![u] = @ \union phase]
    BY <1>4 DEF OnItemCompleted
  <2>3. /\ items' = [items EXCEPT ![u] = @ \union {m}]
        /\ heard' = [heard EXCEPT ![u] = @ \union {m}]
        /\ whole' = [whole EXCEPT ![u] = @ \union {m}]
        /\ UNCHANGED <<state, deltas>>
    BY <1>4 DEF OnItemCompleted
  <2>4. \A k \in heard[u] \union {m} : k \in whole[u] \/ k \in Last(heard[u] \union {m})
    BY <2>1, NextStaysInOrder
  <2>5. /\ heard'[u] = heard[u] \union {m} /\ items'[u] = items[u] \union {m}
        /\ whole'[u] = whole[u] \union {m} /\ final'[u] \subseteq final[u] \union {m}
    BY <2>2, <2>3 DEF ServerOK
  <2>6. \A t \in Turns \ {u} : /\ heard'[t] = heard[t] /\ items'[t] = items[t]
                               /\ whole'[t] = whole[t] /\ final'[t] = final[t]
    BY <2>2, <2>3 DEF ServerOK
  <2>7. QED
    BY <2>1, <2>3, <2>4, <2>5, <2>6 DEF HeardInOrder
<1>5. ASSUME NEW u \in Turns, OnTurnCompleted(u) PROVE HeardInOrder'
  <2>1. PICK n \in 0..MaxMessages[u], f \in SUBSET Messages(u) :
          /\ SaidInAll(u, n, f)
          /\ \E carried \in {{}, 1..n} : CompletedWith(u, carried, f)
    BY <1>5 DEF OnTurnCompleted
  <2>2. state'[u] = "over"
    BY <2>1 DEF SaidInAll, ServerOK
  <2>3. \A t \in Turns \ {u} : /\ state'[t] = state[t] /\ final'[t] = final[t]
                               /\ heard'[t] = heard[t] /\ whole'[t] = whole[t]
    BY <2>1 DEF SaidInAll, CompletedWith, ServerOK
  <2>4. \A t \in Turns \ {u} : items'[t] = items[t] /\ deltas'[t] = deltas[t]
    BY <1>5 DEF OnTurnCompleted, ServerOK
  <2>5. QED
    BY <2>2, <2>3, <2>4 DEF HeardInOrder
<1>6. CASE (\E u \in Turns : OnError(u) \/ OnIdlessError(u)) \/ OnForeignError \/ Send \/ Stop
  BY <1>6, <1>1 DEF OnError, OnIdlessError, OnForeignError, Send, Stop
<1>7. CASE Handler
  BY <1>7, <1>1 DEF Handler, AskTurn, StartTurnFails, Register, TakeResult, TakeAnswer,
                    TakeMissing, TakeTransient, TakeTerminal, Take, ReadsBack,
                    ReadbackFails, ReadbackTimesOut, Cancel, Leave
<1>8. CASE UNCHANGED vars
  BY <1>8, <1>1 DEF vars
<1>9. QED
  BY <1>2, <1>3, <1>4, <1>5, <1>6, <1>7, <1>8 DEF Next, Bridge

\* What a completed turn is reported as settles it.
LEMMA CompletionSettles ==
  ASSUME ServerOK, HeardInOrder, NEW t \in Turns, OnTurnCompleted(t)
  PROVE  \E r \in Results : Report(t, r) /\ SettledBy(t, r)'
<1>0. PICK n \in 0..MaxMessages[t], f \in SUBSET Messages(t) :
        SaidInAll(t, n, f) /\ \E carried \in {{}, 1..n} : CompletedWith(t, carried, f)
  BY DEF OnTurnCompleted
<1>1. PICK carried \in {{}, 1..n} : CompletedWith(t, carried, f)
  BY <1>0
<1>2. state[t] # "over"
  BY DEF OnTurnCompleted, Notified
<1>0a. PICK listed : listed = IF carried = {} THEN items[t] ELSE carried
  OBVIOUS
<1>3. PICK r \in FinalAnswers(listed, deltas[t], f) : Report(t, r)
  BY <1>1, <1>0a DEF CompletedWith
<1>4. listed \in SUBSET Nat /\ deltas[t] \in SUBSET Nat /\ f \in SUBSET Nat
  BY <1>0a DEF ServerOK, Messages
<1>5. /\ state'[t] = "over" /\ final'[t] = f /\ f \intersect whole[t] = final[t]
      /\ heard[t] \subseteq 1..n /\ f \subseteq 1..n
  BY <1>0 DEF SaidInAll, ServerOK
<1>6. heard'[t] = heard[t] \union carried /\ whole'[t] = whole[t] \union carried
  BY <1>1 DEF CompletedWith, ServerOK
<1>7. /\ items[t] = whole[t] /\ heard[t] = items[t] \union deltas[t]
      /\ \A k \in heard[t] \ whole[t] : k \in Last(heard[t])
  BY <1>2 DEF HeardInOrder
<1>8. whole'[t] = listed /\ heard'[t] = listed \union deltas[t]
  BY <1>0a, <1>1, <1>5, <1>6, <1>7
<1>9. \A k \in deltas[t] \ listed : k \in Last(listed \union deltas[t])
  <2>1. CASE carried = {}
    BY <2>1, <1>0a, <1>7
  <2>2. CASE carried = 1..n /\ carried # {}
    BY <2>2, <1>0a, <1>5, <1>7
  <2>3. QED
    BY <2>1, <2>2, <1>1
<1>10. r \in Results
  BY <1>4, FinalAnswersAreResults
<1>11. \/ r = Missing /\ listed \union deltas[t] = {}
       \/ \E m \in listed \union deltas[t] :
            r = Answer(m) /\ m \in LastWords(listed, deltas[t], f)
  BY <1>3, <1>4, <1>9, FinalAnswersAreLastWords
<1>12. ASSUME r = Missing, heard'[t] = {} PROVE SettledBy(t, r)'
  <2>1. r.kind = "missing" /\ r.kind # "answer"
    BY <1>12 DEF Missing
  <2>2. QED
    BY <1>5, <1>12, <2>1 DEF SettledBy
<1>13. ASSUME NEW m \in heard'[t], r = Answer(m),
              m \in LastWords(listed, deltas[t], f)
       PROVE  SettledBy(t, r)'
  <2>1. r.kind = "answer" /\ r.kind # "missing" /\ r.text = m
    BY <1>13 DEF Answer
  <2>2. heard'[t] # {} /\ final'[t] \intersect whole'[t] = listed \intersect f
    BY <1>5, <1>8
  <2>3. IsLastWord(t, m)'
    BY <1>8, <1>13, <2>2 DEF IsLastWord, LastWords
  <2>4. QED
    BY <1>5, <2>1, <2>2, <2>3 DEF SettledBy
<1>14. SettledBy(t, r)'
  BY <1>8, <1>11, <1>12, <1>13
<1>15. QED
  BY <1>3, <1>10, <1>14

\* Whatever is reported, but for the end of a turn, settles nothing.
LEMMA OthersReportErrors ==
  ASSUME [Next]_vars, \A t \in Turns : ~OnTurnCompleted(t)
  PROVE  \/ UNCHANGED reported
         \/ \E t, k, on : k \notin {"answer", "missing"} /\ Report(t, Failure(k, on))
<1>1. ASSUME NEW t \in Turns, OnError(t)
      PROVE  \E k : k \notin {"answer", "missing"} /\ Report(t, Failure(k, "own"))
  BY <1>1 DEF OnError
<1>2. ASSUME (\E t \in Turns : OnIdlessError(t)) \/ OnForeignError
      PROVE  \/ UNCHANGED reported
             \/ \E k, on : k \notin {"answer", "missing"} /\ Report(active, Failure(k, on))
  <2>1. PICK k \in {"transient", "fatal"}, on \in {"own", "other"} :
          NotifyActive(Failure(k, on))
    BY <1>2 DEF OnIdlessError, OnForeignError
  <2>2. UNCHANGED reported \/ Report(active, Failure(k, on))
    BY <2>1 DEF NotifyActive
  <2>3. QED
    BY <2>2
<1>3. CASE (\E t \in Turns : TurnStarts(t) \/ \E m \in Messages(t) :
               OnAgentMessageDelta(t, m) \/ OnItemCompleted(t, m))
           \/ Send \/ Stop \/ UNCHANGED vars
  BY <1>3 DEF TurnStarts, OnAgentMessageDelta, OnItemCompleted, Send, Stop, vars
<1>4. CASE Handler
  BY <1>4 DEF Handler, AskTurn, StartTurnFails, Register, TakeResult, TakeAnswer,
              TakeMissing, TakeTransient, TakeTerminal, Take, ReadsBack,
              ReadbackFails, ReadbackTimesOut, Cancel, Leave
<1>5. QED
  BY <1>1, <1>2, <1>3, <1>4 DEF Next, Bridge

LEMMA ReportsStep ==
  ServerOK /\ TrackerOK /\ HeardInOrder /\ ReportsLastWord /\ [Next]_vars => ReportsLastWord'
<1> SUFFICES ASSUME ServerOK, TrackerOK, HeardInOrder, ReportsLastWord, [Next]_vars,
                    NEW t \in Turns, NEW r \in reported'[t]
             PROVE  SettledBy(t, r)'
  BY DEF ReportsLastWord
<1>1. ASSUME r \in reported[t] PROVE SettledBy(t, r)'
  <2>1. SettledBy(t, r)
    BY <1>1 DEF ReportsLastWord
  <2>2. QED
    BY <2>1, SettledStays, OverIsOver
<1>2. ASSUME NEW u \in Turns, OnTurnCompleted(u) PROVE SettledBy(t, r)'
  <2>1. PICK q \in Results : Report(u, q) /\ SettledBy(u, q)'
    BY <1>2, CompletionSettles
  <2>2. r \in reported[t] \/ (t = u /\ r = q)
    BY <2>1 DEF Report, TrackerOK
  <2>3. QED
    BY <1>1, <2>1, <2>2
<1>3. ASSUME \A u \in Turns : ~OnTurnCompleted(u) PROVE SettledBy(t, r)'
  <2>1. \/ UNCHANGED reported
        \/ \E u, k, on : k \notin {"answer", "missing"} /\ Report(u, Failure(k, on))
    BY <1>3, OthersReportErrors
  <2>2. r \in reported[t] \/ r.kind \notin {"answer", "missing"}
    BY <2>1 DEF Report, Failure, TrackerOK
  <2>3. CASE r.kind \notin {"answer", "missing"}
    BY <2>3 DEF SettledBy
  <2>4. QED
    BY <1>1, <2>2, <2>3
<1>4. QED
  BY <1>2, <1>3

\* The step that sends the handler to read a turn back takes its result.
LEMMA ReadbackStep ==
  ServerOK /\ TrackerOK /\ HandlerOK /\ TurnInv /\ WordInv /\ [Next]_vars => ReadsBackTheSilent'
<1> SUFFICES ASSUME ServerOK, TrackerOK, HandlerOK, TurnInv, WordInv, [Next]_vars,
                    pc' = "readback"
             PROVE  SettledBy(cur, Missing)'
  BY DEF ReadsBackTheSilent
<1>1. \/ pc = "readback" /\ UNCHANGED cur
      \/ pc = "wait" /\ TakeMissing(box[cur])
  BY DEF Next, Bridge, Handler, TurnStarts, OnAgentMessageDelta, OnItemCompleted,
         OnTurnCompleted, OnError, OnIdlessError, OnForeignError, Send, Stop, AskTurn,
         StartTurnFails, Register, TakeResult, TakeAnswer, TakeTransient,
         TakeTerminal, Take, ReadsBack, ReadbackFails, ReadbackTimesOut, Cancel, Leave,
         Return, Terminal, vars
<1>2. cur \in Turns
  BY <1>1 DEF HandlerOK
<1>3. SettledBy(cur, Missing)
  <2>1. CASE pc = "readback"
    BY <2>1 DEF WordInv, ReadsBackTheSilent
  <2>2. CASE pc = "wait" /\ TakeMissing(box[cur])
    <3>1. box[cur] \in reported[cur] /\ box[cur].kind = "missing"
      BY <1>2, <2>2 DEF TurnInv, ResultsBelong, TakeMissing, Take
    <3>2. SettledBy(cur, box[cur])
      BY <1>2, <3>1 DEF WordInv, ReportsLastWord
    <3>3. QED
      BY <3>1, <3>2 DEF SettledBy, Missing
  <2>3. QED
    BY <1>1, <2>1, <2>2
<1>4. UNCHANGED cur
  BY <1>1 DEF TakeMissing, Take
<1>5. SettledBy(cur, Missing)'
  BY <1>2, <1>3, <1>4, SettledStays, OverIsOver
<1>6. QED
  BY <1>5

\* An answer is taken from the turn's channel, or read back from codex.
LEMMA AnsweredStep ==
  ServerOK /\ TrackerOK /\ HandlerOK /\ TurnInv /\ WordInv /\ [Next]_vars => AnsweredWhenOver'
<1> SUFFICES ASSUME ServerOK, TrackerOK, HandlerOK, TurnInv, WordInv, [Next]_vars,
                    NEW t \in Turns, outcome'[t] = "answer"
             PROVE  state'[t] = "over" /\ IsLastWord(t, posted[t])'
  BY DEF AnsweredWhenOver
<1>1. ASSUME state[t] = "over", IsLastWord(t, posted'[t])
      PROVE  state'[t] = "over" /\ IsLastWord(t, posted[t])'
  <2>1. /\ state'[t] = "over"
        /\ said'[t] = said[t] /\ final'[t] = final[t]
        /\ heard'[t] = heard[t] /\ whole'[t] = whole[t]
    BY <1>1, OverIsOver
  <2>2. QED
    BY <1>1, <2>1 DEF IsLastWord
<1>2. \/ outcome[t] = "answer" /\ posted'[t] = posted[t]
      \/ t = cur /\ ReadsBack
      \/ t = cur /\ pc = "wait" /\ TakeAnswer(box[cur])
  BY DEF Next, Bridge, Handler, TurnStarts, OnAgentMessageDelta, OnItemCompleted,
         OnTurnCompleted, OnError, OnIdlessError, OnForeignError, Send, Stop, AskTurn,
         StartTurnFails, Register, TakeResult, TakeMissing, TakeTransient, TakeAnswer, ReadsBack,
         TakeTerminal, ReadbackFails, ReadbackTimesOut, Cancel, Leave,
         Return, Terminal, End, HandlerOK, vars
<1>3. CASE outcome[t] = "answer" /\ posted'[t] = posted[t]
  BY <1>1, <1>3 DEF WordInv, AnsweredWhenOver
<1>4. CASE t = cur /\ ReadsBack
  <2>1. state[t] = "over" /\ heard[t] = {}
    BY <1>4 DEF ReadsBack, WordInv, ReadsBackTheSilent, SettledBy, Missing
  <2>2. PICK all : all = 1..said[t]
    OBVIOUS
  <2>3. all \in SUBSET Nat /\ all # {} /\ {} \in SUBSET Nat /\ final[t] \in SUBSET Nat
    <3>1. said[t] \in Nat /\ said[t] > 0
      BY <1>4 DEF ReadsBack, ServerOK
    <3>2. 1 \in all /\ all \subseteq Nat
      BY <2>2, <3>1
    <3>3. QED
      BY <3>2 DEF ServerOK
  <2>4. PICK r \in FinalAnswers(all, {}, final[t]) : posted' = [posted EXCEPT ![t] = r.text]
    BY <1>4, <2>2 DEF ReadsBack
  <2>5. \A k \in {} \ all : k \in Last(all \union {})
    OBVIOUS
  <2>6. PICK m \in all \union {} : r = Answer(m) /\ m \in LastWords(all, {}, final[t])
    BY <2>3, <2>4, <2>5, FinalAnswersAreLastWords
  <2>7. posted'[t] = m
    BY <2>4, <2>6 DEF Answer, HandlerOK
  <2>8. all \union {} = all /\ all \intersect final[t] = final[t] \intersect all
    OBVIOUS
  <2>9. IsLastWord(t, m)
    BY <2>1, <2>2, <2>6, <2>8 DEF IsLastWord, LastWords
  <2>10. QED
    BY <1>1, <2>1, <2>7, <2>9
<1>5. CASE t = cur /\ pc = "wait" /\ TakeAnswer(box[cur])
  <2>1. /\ box[t] # None /\ box[t].kind = "answer"
        /\ posted' = [posted EXCEPT ![t] = box[t].text]
    BY <1>5 DEF TakeAnswer, Take
  <2>2. box[t] \in reported[t]
    BY <2>1 DEF TurnInv, ResultsBelong
  <2>3. SettledBy(t, box[t])
    BY <2>2 DEF WordInv, ReportsLastWord
  <2>4. state[t] = "over" /\ IsLastWord(t, box[t].text)
    BY <2>1, <2>3 DEF SettledBy
  <2>5. posted'[t] = box[t].text
    BY <2>1 DEF HandlerOK
  <2>6. QED
    BY <1>1, <2>4, <2>5
<1>6. QED
  BY <1>2, <1>3, <1>4, <1>5

LEMMA WordInvHolds == Spec => []WordInv
<1>1. Init => WordInv
  BY DEF Init, WordInv, HeardInOrder, ReportsLastWord, ReadsBackTheSilent,
         AnsweredWhenOver
<1>2. ServerOK /\ TrackerOK /\ HandlerOK /\ TurnInv /\ WordInv /\ [Next]_vars => WordInv'
  <2>1. ServerOK /\ TrackerOK /\ HandlerOK /\ TurnInv /\ WordInv /\ [Next]_vars
          => HeardInOrder' /\ ReportsLastWord'
    BY HeardInOrderStep, ReportsStep DEF WordInv
  <2>2. QED
    BY <2>1, ReadbackStep, AnsweredStep DEF WordInv
<1>3. QED
  BY <1>1, <1>2, Types, TurnInvHolds, PTL DEF Spec

\* What is delivered as a turn's answer is the first message that was marked final
\* among those heard whole, or else the last heard at all, however deltas, items
\* and the completion raced each other and the handler (AnswersWithLastWord).
THEOREM DeliversLastWord == Spec => []AnswersWithLastWord
<1>1. WordInv => AnswersWithLastWord
  BY DEF WordInv, AnsweredWhenOver, AnswersWithLastWord
<1>2. QED
  BY <1>1, WordInvHolds, PTL
=============================================================================
