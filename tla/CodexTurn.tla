----------------------------- MODULE CodexTurn -----------------------------
(***************************************************************************)
(* One codex turn after another: handleCodexMessage starts a turn and      *)
(* waits for its result, while the notifications of the codex app-server   *)
(* reach the bridge on another goroutine and the turn tracker brings the   *)
(* two together.  The reply that names a turn and the notifications about  *)
(* it race: a turn may have ended before anybody waits for it.             *)
(*                                                                         *)
(* The app-server is outside src/.  It says some messages in a turn, one   *)
(* after the other; it may announce each as it is written, when it is      *)
(* whole, both or not at all; it may report an error that ends the turn,   *)
(* naming the turn or not; notifications arrive one at a time and in       *)
(* order.  Turns are numbered in the order they are asked for, and 0       *)
(* stands for the empty turn id.                                           *)
(***************************************************************************)
EXTENDS Integers

CONSTANTS
  MaxTurns,      \* bound: turns asked for
  MaxMessages,   \* bound: agent messages in each turn
  MaxFaults      \* bound: requests to the app-server that fail, and errors of
                 \* threads that are not the daemon's

Turns == 1..MaxTurns
Messages(t) == 1..MaxMessages[t]

ASSUME MaxTurnsAssumption == MaxTurns \in Nat
ASSUME MaxMessagesAssumption == MaxMessages \in [Turns -> Nat]
ASSUME MaxFaultsAssumption == MaxFaults \in Nat

(* TurnResult: a final message, ErrMissingAgentMessage, or the error of a    *)
(* notification, whose wording isRetryableCodexErrorNotification tells apart.*)
(* "on" says whose thread the notification named.                            *)
Kinds == {"none", "answer", "missing", "transient", "fatal"}
Results == [kind : Kinds, text : Nat, on : {"own", "other"}]

None == [kind |-> "none", text |-> 0, on |-> "own"]
Missing == [kind |-> "missing", text |-> 0, on |-> "own"]
Answer(m) == [kind |-> "answer", text |-> m, on |-> "own"]
Failure(k, on) == [kind |-> k, text |-> 0, on |-> on]

VARIABLES
  (* the codex app-server *)
  state,     \* of each turn: "new", "running", "over"
  said,      \* how many messages it said in each turn, once that is over
  final,     \* messages of each turn known to have the phase final_answer
  erred,     \* turns it has reported an error for
  (* the bridge: messages of each turn that *)
  items,     \* were completed
  deltas,    \* were seen being written
  (* the turn tracker *)
  waiters,   \* turns with a channel in the map
  pending,   \* results of turns nobody waits for yet, or None
  active,    \* activeTurnID
  (* between the tracker and the handler *)
  hand,      \* what the bridge's goroutine is about to send, and to whom
  box,       \* each turn's channel: the result in it, or None
  closed,    \* turns whose channel is closed
  (* handleCodexMessage *)
  pc,        \* "idle" between turns, "down" when Run has returned
  cur,       \* the turn last asked for
  stopping,  \* ctx is done
  faults,
  (* history *)
  heard,     \* messages of each turn announced in any way
  whole,     \* and those announced whole
  reported,  \* results the bridge reported for each turn
  unheard,   \* turns whose error named no turn and missed its waiter
  taken,     \* the result each handler took from its channel, or None
  outcome,   \* how each turn ended for the daemon
  posted     \* the message it took for the turn's final text, or 0

serverVars  == <<state, said, final, erred>>
bridgeVars  == <<items, deltas>>
trackerVars == <<waiters, pending, active>>
chanVars    == <<box, closed>>
handlerVars == <<pc, cur, stopping, taken, outcome, posted>>
noteVars    == <<heard, whole, reported, unheard>>
vars == <<serverVars, bridgeVars, trackerVars, hand, chanVars, handlerVars,
          noteVars, faults>>

Free == hand.result = None
Fault == faults < MaxFaults /\ faults' = faults + 1

Init ==
  /\ state = [t \in Turns |-> "new"]
  /\ said = [t \in Turns |-> 0] /\ final = [t \in Turns |-> {}] /\ erred = {}
  /\ items = [t \in Turns |-> {}] /\ deltas = [t \in Turns |-> {}]
  /\ waiters = {} /\ pending = [t \in Turns |-> None] /\ active = 0
  /\ hand = [to |-> 0, result |-> None]
  /\ box = [t \in Turns |-> None] /\ closed = {}
  /\ pc = "idle" /\ cur = 0 /\ stopping = FALSE /\ faults = 0
  /\ heard = [t \in Turns |-> {}] /\ whole = [t \in Turns |-> {}]
  /\ reported = [t \in Turns |-> {}] /\ unheard = {}
  /\ taken = [t \in Turns |-> None]
  /\ outcome = [t \in Turns |-> "none"] /\ posted = [t \in Turns |-> 0]

-----------------------------------------------------------------------------
(* The turn tracker, called by the bridge with its lock held. *)

\* MUTANT: the waiter stays in the map when its result is sent.
NotifyKeepsWaiter(t, r) ==
  IF t \in waiters
  THEN hand' = [to |-> t, result |-> r] /\ UNCHANGED trackerVars
  ELSE /\ pending' = [pending EXCEPT ![t] = r]
       /\ UNCHANGED <<hand, active, waiters>>

\* MUTANT: any result ends the active turn, whoever it is for.
NotifyClearsActive(t, r) ==
  IF t \in waiters
  THEN /\ hand' = [to |-> t, result |-> r]
       /\ waiters' = waiters \ {t}
       /\ active' = 0
       /\ UNCHANGED pending
  ELSE /\ pending' = [pending EXCEPT ![t] = r]
       /\ active' = 0
       /\ UNCHANGED <<hand, waiters>>

\* MUTANT: the activeTurnID outlives its waiter.
NotifyLeavesActive(t, r) ==
  IF t \in waiters
  THEN /\ hand' = [to |-> t, result |-> r]
       /\ waiters' = waiters \ {t}
       /\ UNCHANGED <<active, pending>>
  ELSE /\ pending' = [pending EXCEPT ![t] = r]
       /\ UNCHANGED <<hand, active, waiters>>

\* MUTANT: a result goes to whichever turn is waited for.
NotifyAnyWaiter(t, r) ==
  IF active # 0
  THEN /\ hand' = [to |-> active, result |-> r]
       /\ waiters' = waiters \ {active}
       /\ active' = 0
       /\ UNCHANGED pending
  ELSE /\ pending' = [pending EXCEPT ![t] = r]
       /\ UNCHANGED <<hand, active, waiters>>

\* Notify: the waiter's channel is taken out of the map under the lock and sent
\* to after it; a result nobody waits for is kept, in place of an earlier one.
Notify(t, r) ==
  IF t \in waiters
  THEN /\ hand' = [to |-> t, result |-> r]
       /\ waiters' = waiters \ {t}
       /\ active' = IF active = t THEN 0 ELSE active
       /\ UNCHANGED pending
  ELSE /\ pending' = [pending EXCEPT ![t] = r]
       /\ UNCHANGED <<hand, active, waiters>>

Report(t, r) == reported' = [reported EXCEPT ![t] = @ \union {r}]

\* The send and the close that follow the unlock.  The channel has room for one.
Send ==
  /\ ~Free
  /\ box[hand.to] = None
  /\ box' = [box EXCEPT ![hand.to] = hand.result]
  /\ closed' = closed \union {hand.to}
  /\ hand' = [to |-> 0, result |-> None]
  /\ UNCHANGED <<serverVars, bridgeVars, trackerVars, handlerVars, noteVars, faults>>

-----------------------------------------------------------------------------
(* The app-server, and the bridge's handlers of its notifications. *)

\* The app-server begins a turn that was asked for, perhaps after StartTurn has
\* given it up.
TurnStarts(t) ==
  /\ t <= cur /\ state[t] = "new"
  /\ state' = [state EXCEPT ![t] = "running"]
  /\ UNCHANGED <<said, final, erred, bridgeVars, trackerVars, hand, chanVars, handlerVars,
                 noteVars, faults>>

\* The bridge's goroutine is free and is given a notification about turn t.
Notified(t) == Free /\ pc # "down" /\ state[t] = "running"

\* Message m is the next to be announced: the last one announced is whole.
NextToHear(t, m) ==
  /\ m \notin whole[t]
  /\ \A k \in heard[t] : k = m \/ (k < m /\ k \in whole[t])

OnAgentMessageDelta(t, m) ==
  /\ Notified(t) /\ NextToHear(t, m)
  /\ deltas' = [deltas EXCEPT ![t] = @ \union {m}]
  /\ heard' = [heard EXCEPT ![t] = @ \union {m}]
  /\ UNCHANGED <<serverVars, items, trackerVars, hand, chanVars, handlerVars,
                 whole, reported, unheard, faults>>

OnItemCompleted(t, m) ==
  /\ Notified(t) /\ NextToHear(t, m)
  /\ items' = [items EXCEPT ![t] = @ \union {m}]
  /\ heard' = [heard EXCEPT ![t] = @ \union {m}]
  /\ whole' = [whole EXCEPT ![t] = @ \union {m}]
  /\ \E phase \in {{}, {m}} : final' = [final EXCEPT ![t] = @ \union phase]
  /\ UNCHANGED <<state, said, erred, deltas, trackerVars, hand, chanVars, handlerVars,
                 reported, unheard, faults>>

First(S) == {m \in S : \A k \in S : m <= k}
Last(S) == {m \in S : \A k \in S : k <= m}

\* MUTANT: the last message is the answer, whatever its phase.
AnswersLast(listed, written, finals) ==
  LET all == listed \union written
  IN  IF all = {} THEN {Missing} ELSE {Answer(m) : m \in Last(all)}

\* What ExtractFinalAnswer can make of the items mergeTurnItems returns: those
\* listed, then, in the order of a Go map, those only seen being written, which
\* carry no phase.  The first final answer, or else the last message.
FinalAnswers(listed, written, finals) ==
  LET extra == written \ listed
      answers == listed \intersect finals
  IN  IF answers # {} THEN {Answer(m) : m \in First(answers)}
      ELSE IF extra # {} THEN {Answer(m) : m \in extra}
      ELSE IF listed # {} THEN {Answer(m) : m \in Last(listed)}
      ELSE {Missing}

\* The turn is over: it has said n messages, those in f with the final phase.
SaidInAll(t, n, f) ==
  /\ heard[t] \subseteq 1..n
  /\ f \subseteq 1..n /\ f \intersect whole[t] = final[t]
  /\ state' = [state EXCEPT ![t] = "over"]
  /\ said' = [said EXCEPT ![t] = n]
  /\ final' = [final EXCEPT ![t] = f]

\* The notification carries the turn's items, or none: then those accumulated
\* stand for them.
CompletedWith(t, carried, f) ==
  LET listed == IF carried = {} THEN items[t] ELSE carried IN
  /\ \E r \in FinalAnswers(listed, deltas[t], f) : Notify(t, r) /\ Report(t, r)
  /\ heard' = [heard EXCEPT ![t] = @ \union carried]
  /\ whole' = [whole EXCEPT ![t] = @ \union carried]

OnTurnCompleted(t) ==
  /\ Notified(t)
  /\ \E n \in 0..MaxMessages[t], f \in SUBSET Messages(t) :
       /\ SaidInAll(t, n, f)
       /\ \E carried \in {{}, 1..n} : CompletedWith(t, carried, f)
  /\ items' = [items EXCEPT ![t] = {}]
  /\ deltas' = [deltas EXCEPT ![t] = {}]
  /\ UNCHANGED <<erred, chanVars, handlerVars, unheard, faults>>

\* An error codex will not retry, that names its turn.  (One it will retry is
\* logged and nothing more.)
OnError(t) ==
  /\ Notified(t) /\ t \notin erred
  /\ erred' = erred \union {t}
  /\ \E k \in {"transient", "fatal"} :
       Notify(t, Failure(k, "own")) /\ Report(t, Failure(k, "own"))
  /\ UNCHANGED <<state, said, final, bridgeVars, chanVars, handlerVars, heard,
                 whole, unheard, faults>>

\* NotifyActive: an error that names no turn is the active turn's, if one is
\* waited for, and is dropped otherwise.
NotifyActive(r) ==
  IF active \in waiters
  THEN /\ hand' = [to |-> active, result |-> r]
       /\ waiters' = waiters \ {active}
       /\ active' = 0
       /\ Report(active, r)
       /\ UNCHANGED pending
  ELSE UNCHANGED <<hand, trackerVars, reported>>

OnIdlessError(t) ==
  /\ Notified(t) /\ t \notin erred
  /\ erred' = erred \union {t}
  /\ \E k \in {"transient", "fatal"} : NotifyActive(Failure(k, "own"))
  /\ unheard' = IF active = t THEN unheard ELSE unheard \union {t}
  /\ UNCHANGED <<state, said, final, bridgeVars, chanVars, handlerVars, heard,
                 whole, faults>>

\* The same of a thread the daemon did not ask about.
OnForeignError ==
  /\ Free /\ pc # "down"
  /\ Fault
  /\ \E k \in {"transient", "fatal"} : NotifyActive(Failure(k, "other"))
  /\ UNCHANGED <<serverVars, bridgeVars, chanVars, handlerVars, heard, whole,
                 unheard>>

-----------------------------------------------------------------------------
(* handleCodexMessage, once it has the codex thread. *)

AskTurn ==
  /\ pc = "idle" /\ ~stopping
  /\ cur < MaxTurns
  /\ cur' = cur + 1 /\ pc' = "start"
  /\ UNCHANGED <<serverVars, bridgeVars, trackerVars, hand, chanVars, stopping,
                 taken, outcome, posted, noteVars, faults>>

End(o) == outcome' = [outcome EXCEPT ![cur] = o]

\* The handler returns: an error that does not end Run is retried, as another
\* turn, and a turn that ended is over with.
Return(o) == End(o) /\ pc' = "idle"

\* terminalCodexTurn: the error ends Run.
Terminal == End("terminal") /\ pc' = "down"

\* StartTurn fails, or its deadline passes, whatever the app-server did.
StartTurnFails ==
  /\ pc = "start"
  /\ IF stopping THEN UNCHANGED faults ELSE Fault
  /\ Return("retry")
  /\ UNCHANGED <<serverVars, bridgeVars, trackerVars, hand, chanVars, cur, stopping,
                 taken, posted, noteVars>>

\* MUTANT: a result that came early is not looked for.
RegisterUnlooked ==
  /\ pc = "start" /\ state[cur] # "new"
  /\ pc' = "wait"
  /\ waiters' = waiters \union {cur}
  /\ active' = cur
  /\ UNCHANGED <<serverVars, bridgeVars, pending, hand, chanVars, cur, stopping,
                 taken, outcome, posted, noteVars, faults>>

\* StartTurn returns the turn's id, and the handler registers for its result,
\* which may be there already.
Register ==
  /\ pc = "start" /\ state[cur] # "new"
  /\ pc' = "wait"
  /\ IF pending[cur] # None
     THEN /\ pending' = [pending EXCEPT ![cur] = None]
          /\ box' = [box EXCEPT ![cur] = pending[cur]]
          /\ closed' = closed \union {cur}
          /\ UNCHANGED <<waiters, active>>
     ELSE /\ waiters' = waiters \union {cur}
          /\ active' = cur
          /\ UNCHANGED <<pending, chanVars>>
  /\ UNCHANGED <<serverVars, bridgeVars, hand, cur, stopping, taken, outcome,
                 posted, noteVars, faults>>

\* The handler receives the result r from its channel.
Take(r) ==
  /\ r # None
  /\ taken' = [taken EXCEPT ![cur] = r]
  /\ box' = [box EXCEPT ![cur] = None]
  /\ UNCHANGED <<serverVars, bridgeVars, trackerVars, hand, closed, cur, stopping,
                 noteVars, faults>>

TakeAnswer(r) ==
  /\ Take(r) /\ r.kind = "answer"
  /\ posted' = [posted EXCEPT ![cur] = r.text]
  /\ Return("answer")

\* No message was heard: the turn is read back from the app-server.
TakeMissing(r) ==
  /\ Take(r) /\ r.kind = "missing"
  /\ pc' = "readback"
  /\ UNCHANGED <<outcome, posted>>

\* The wording says the stream broke, and codex is not retrying: the turn is
\* over, and it said nothing.
TakeTransient(r) ==
  /\ Take(r) /\ r.kind = "transient" /\ r.on = "own"
  /\ Return("quiet")
  /\ UNCHANGED posted

\* Any other error, and any result of another thread.
TakeTerminal(r) ==
  /\ Take(r) /\ (r.kind = "fatal" \/ r.on = "other")
  /\ Terminal
  /\ UNCHANGED posted

TakeResult ==
  LET r == box[cur] IN
  pc = "wait" /\ (TakeAnswer(r) \/ TakeMissing(r) \/ TakeTransient(r) \/ TakeTerminal(r))

\* ReadThread lists the turn with what was said in it.  (While it lists it with
\* no message, the handler polls.)
ReadsBack ==
  /\ pc = "readback"
  /\ said[cur] > 0
  /\ \E r \in FinalAnswers(1..said[cur], {}, final[cur]) :
       posted' = [posted EXCEPT ![cur] = r.text]
  /\ Return("answer")
  /\ UNCHANGED <<serverVars, bridgeVars, trackerVars, hand, chanVars, cur, stopping,
                 taken, noteVars, faults>>

\* ReadThread fails, or ctx ends while it is under way.
ReadbackFails ==
  /\ pc = "readback"
  /\ IF stopping THEN UNCHANGED faults ELSE Fault
  /\ Return("retry")
  /\ UNCHANGED <<serverVars, bridgeVars, trackerVars, hand, chanVars, cur, stopping,
                 taken, posted, noteVars>>

\* codexReadbackTimeout passes, or ctx ends, between two polls that found no
\* message.
ReadbackTimesOut ==
  /\ pc = "readback"
  /\ Terminal
  /\ UNCHANGED <<serverVars, bridgeVars, trackerVars, hand, chanVars, cur, stopping,
                 taken, posted, noteVars, faults>>

\* The wait has no deadline: only ctx ends it early.
Cancel ==
  /\ pc = "wait" /\ stopping
  /\ waiters' = waiters \ {cur}
  /\ pending' = [pending EXCEPT ![cur] = None]
  /\ active' = IF active = cur THEN 0 ELSE active
  /\ End("stopped") /\ pc' = "down"
  /\ UNCHANGED <<serverVars, bridgeVars, hand, chanVars, cur, stopping, taken,
                 posted, noteVars, faults>>

\* ctx ends between two turns.
Leave ==
  /\ pc = "idle"
  /\ pc' = "down"
  /\ UNCHANGED <<serverVars, bridgeVars, trackerVars, hand, chanVars, cur, stopping,
                 taken, outcome, posted, noteVars, faults>>

-----------------------------------------------------------------------------

Bridge(t) ==
  \/ \E m \in Messages(t) : OnAgentMessageDelta(t, m) \/ OnItemCompleted(t, m)
  \/ OnTurnCompleted(t) \/ OnError(t) \/ OnIdlessError(t)

Handler ==
  \/ AskTurn \/ StartTurnFails \/ Register \/ TakeResult
  \/ ReadsBack \/ ReadbackFails \/ ReadbackTimesOut
  \/ Cancel \/ Leave

\* ctx ends while a turn is asked for, waited for or read back.
Stop ==
  /\ ~stopping /\ pc \notin {"idle", "down"}
  /\ stopping' = TRUE
  /\ UNCHANGED <<serverVars, bridgeVars, trackerVars, hand, chanVars, pc, cur,
                 taken, outcome, posted, noteVars, faults>>

Next ==
  \/ \E t \in Turns : TurnStarts(t) \/ Bridge(t)
  \/ OnForeignError \/ Send
  \/ Handler
  \/ Stop

Spec == Init /\ [][Next]_vars

\* The two goroutines run, and the app-server completes each turn it starts,
\* unless it has reported the turn as failed.
Completes(t) == t \notin erred /\ OnTurnCompleted(t)
FairSpec ==
  /\ Spec
  /\ WF_vars(Handler) /\ WF_vars(Send)
  /\ \A t \in Turns : WF_vars(Completes(t))

-----------------------------------------------------------------------------
(* Properties. *)

States == {"new", "running", "over"}
Outcomes == {"none", "answer", "quiet", "retry", "terminal", "stopped"}

ServerOK ==
  /\ state \in [Turns -> States]
  /\ said \in [Turns -> Nat]
  /\ final \in [Turns -> SUBSET Nat]
  /\ erred \subseteq Turns
  /\ items \in [Turns -> SUBSET Nat]
  /\ deltas \in [Turns -> SUBSET Nat]
  /\ heard \in [Turns -> SUBSET Nat]
  /\ whole \in [Turns -> SUBSET Nat]
  /\ unheard \subseteq Turns

TrackerOK ==
  /\ waiters \subseteq Turns
  /\ pending \in [Turns -> Results]
  /\ active = 0 \/ active \in waiters
  /\ hand \in [to : 0..MaxTurns, result : Results]
  /\ ~Free => hand.to \in Turns
  /\ box \in [Turns -> Results]
  /\ closed \subseteq Turns
  /\ reported \in [Turns -> SUBSET Results]

HandlerOK ==
  /\ pc \in {"idle", "start", "wait", "readback", "down"}
  /\ cur \in 0..MaxTurns
  /\ pc \in {"start", "wait", "readback"} => cur > 0
  /\ faults \in 0..MaxFaults
  /\ taken \in [Turns -> Results]
  /\ outcome \in [Turns -> Outcomes]
  /\ posted \in [Turns -> Nat]

StoppingOK == stopping \in BOOLEAN

\* The type invariant.
TypeOK == ServerOK /\ TrackerOK /\ HandlerOK /\ StoppingOK

\* The bridge's goroutine never sends a second result to a turn's waiter: it
\* would panic, the channel being closed, and take the process with it (Notify
\* and NotifyActive hand the waiter out once, whatever errors and completions
\* the app-server reports for one turn).
SendsOnce == ~Free => hand.to \notin closed /\ box[hand.to] = None

\* While a turn is waited for and has no result, it is the active one, so that an
\* error that names no turn ends its wait, whatever is heard of turns that
\* StartTurn gave up.
WaitedTurnIsActive == pc = "wait" /\ cur \in waiters => active = cur

\* Of what was heard of turn t, or of all it said when nothing was heard of it, m
\* is the first message marked final, or else the last.
IsLastWord(t, m) ==
  LET known == IF heard[t] = {} THEN 1..said[t] ELSE heard[t]
      finals == final[t] \intersect (IF heard[t] = {} THEN known ELSE whole[t])
  IN  m \in IF finals # {} THEN First(finals) ELSE Last(known)

\* What is delivered as a turn's answer was said in that turn: the first message
\* marked final that was heard whole, or else the last that was heard at all,
\* however the announcements were spread over deltas, items and the completion,
\* and whether the result came before or after the wait.
AnswersWithLastWord ==
  \A t \in Turns : outcome[t] = "answer" => IsLastWord(t, posted[t])

\* A handler takes a result that was reported for its turn, and only one.
Promise == INSTANCE TurnResults
TakesItsOwnResult == Promise!Spec

\* What the properties above rest on.  At most the turn asked for last has a
\* waiter, which is the active one; a channel has no second sender; and whatever
\* is kept, sent or waiting to be received was reported for that turn.
WaiterIsCurrent ==
  /\ \A t \in waiters : t = cur /\ pc = "wait" /\ active = t
  /\ closed \subseteq 1..cur
  /\ waiters \intersect closed = {}
  /\ pc = "start" => cur \notin closed

SenderIsLast ==
  /\ \A t \in Turns : box[t] # None => t \in closed
  /\ ~Free => /\ hand.to \in 1..cur
              /\ hand.to \notin closed \union waiters
              /\ pc = "start" => hand.to # cur

ResultsBelong ==
  /\ \A t \in Turns : pending[t] # None => pending[t] \in reported[t]
  /\ \A t \in Turns : box[t] # None => box[t] \in reported[t]
  /\ ~Free => hand.result \in reported[hand.to]

NoneTakenYet ==
  \A t \in Turns : t > cur \/ (t = cur /\ pc \in {"start", "wait"}) => taken[t] = None

TurnInv == WaiterIsCurrent /\ SenderIsLast /\ ResultsBelong /\ NoneTakenYet

\* What AnswersWithLastWord rests on.  Until its turn is over the bridge has what
\* was announced of it, of which only the last message may not be whole; an answer
\* is reported of a turn that is over, and settled with it; and a turn is read
\* back only if nothing was heard of it.
HeardInOrder ==
  \A t \in Turns : state[t] # "over" =>
    /\ items[t] = whole[t] /\ heard[t] = items[t] \union deltas[t]
    /\ final[t] \subseteq whole[t]
    /\ \A k \in heard[t] \ whole[t] : k \in Last(heard[t])

SettledBy(t, r) ==
  r.kind \in {"answer", "missing"} =>
    /\ state[t] = "over"
    /\ (r.kind = "missing") = (heard[t] = {})
    /\ r.kind = "answer" => IsLastWord(t, r.text)

ReportsLastWord == \A t \in Turns : \A r \in reported[t] : SettledBy(t, r)

ReadsBackTheSilent == pc = "readback" => SettledBy(cur, Missing)

AnsweredWhenOver ==
  \A t \in Turns : outcome[t] = "answer" => state[t] = "over" /\ IsLastWord(t, posted[t])

WordInv == HeardInOrder /\ ReportsLastWord /\ ReadsBackTheSilent /\ AnsweredWhenOver

\* A wait ends once codex has ended the turn, although it has no deadline: an
\* early result is found, a late one is sent.  Excepted is a turn whose only end
\* was an error that named no turn and came before the wait.
WaitEnds ==
  \A t \in Turns : (pc = "wait" /\ cur = t) ~> (pc # "wait" \/ t \in unheard)

\* Run ends over a turn only if codex reported an error for it: "A turn that ends
\* without text is not a failure" (handleCodexMessage).
QuietTurnSurvived ==
  \A t \in Turns : outcome[t] = "terminal" =>
    \E r \in reported[t] : r.kind = "fatal" \/ r.on = "other"
=============================================================================
