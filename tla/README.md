# agynd: specifications, checks and proofs

`agynd` is the process that runs next to an agent CLI (codex, claude or agn) in a
workload. It reads the agent instance's inbox, puts each item to the CLI as a turn,
delivers the turn's final text and acknowledges the item. It listens to a notification
stream to know when to read, keeps the workload alive while a turn runs, and notices
when the workload has been hibernated and woken.

This directory holds TLA+ modules of that program, the TLC configurations that check
them on small instances, and TLAPS proofs of the theorems that do not depend on the
size of the instance. `PROJECT.json` lists the components, runs, mutants, the source
lines each definition models, the hazards the properties are aimed at, the findings
and the theorems.

## The system

| Component | Source | State it keeps | Operations |
| --- | --- | --- | --- |
| Inbox loop | `daemon.go` (`Run`, `syncMessages`), `platform/consumer.go` | where it is in a page, the page token, the retry timer and backoff, `processing`, `mcpReady` | initial read, read on a wake, a notification or the retry; page, item, report |
| Handlers | `daemon.go`, `agn.go`, `claude.go` | none of their own | turn, publish, ack |
| Subscriber | `subscriber/subscriber.go` | the attempt and its cancel function, the stream, the backoff, the wake channel | open, receive, fail, wait, reopen; `Resubscribe` from outside |
| Keepalive | `daemon/keepalive.go`, `daemon/wake.go` | the clock readings of the last tick and of the last wake answered | touch, tick, signal, answer a wake |
| Codex bridge | `codexbridge/bridge.go`, `turn_tracker.go` | items per turn, waiters, pending results, the active turn | notifications from the CLI; register, cancel, notify |
| Thread mapping | `codexbridge/thread_mapping_store.go`, `mapping.go`, `ensureCodexThread` | instance to codex thread, in memory and on disk | load, resume, start, save |
| Platform clients | `platform/*.go` | none | one unary call or stream each |
| Bootstrap | `main`, `New`, `new*Daemon`, `connectPlatform`, `Close` | connections, processes, listeners acquired so far; the files of earlier starts | prepare, acquire, retry, release on failure, close |
| Readiness probes | `waitForTCPServices`, `waitForMCPServers` | which servers have answered | probe, retry, give up |
| Configuration | `config/config.go` | none | parse the environment |
| Trace hook | `cmd/agynd-trace-hook`, `transcript/`, `tracing/` | the sidecar of exported turns, beside the transcript the CLI writes; spans in the Tracing service | read, wait for a finished turn, export, record |
| Tracing proxy | `tracingproxy/` | two listeners; the message each conversation answers and the call it has pending; the spans of requests being handled | translate, hold, export; start, drain, close |
| Preparation | `mcps.go`, `skills.go`, `init_scripts.go`, CLI config writers | files and environment, written once | write, run |
| Holder mode | `holder.go`, `shells.go` | none | wait |

How they interact. `Run` starts two goroutines, the keepalive and the subscriber, and
is itself the third. They share three channels of capacity one: the subscriber's wake
(an inbox read is wanted), `wakeSync` (the same, after a hibernation) and
`processingWake` (a turn has begun, touch the workload). The keepalive cancels the
subscriber's current attempt (`Resubscribe`) and reads the flag `processing` that the
loop sets. Outside the process are the inbox (Agents), the threads final texts go to,
Runners (which keeps the workload's agent state), the notification service, the
Orchestrator that hibernates a workload Runners holds idle, and the agent CLI.

What is hard: calls that fail before or after they took effect; kills between a turn,
its post and its ack; notifications that coalesce, or are announced to nobody while the
stream is closed; a read overlapping new items; a hibernation at any point of all this,
announced by signals that may not come; three goroutines meeting in all of it; and, within
a codex turn, the reply that names the turn racing the notifications that end it.

What makes each component right:

- Inbox loop: no outstanding item is ever without something that will make the loop
  read it; items are acknowledged in order; none is acknowledged before its answer is
  delivered, and none is put to the agent after it was acknowledged, unless by an
  acknowledgement the loop had given up.
- Subscriber: whatever was announced while no stream was open is made up for by a read.
- Keepalive: each sleep is answered, once, whatever signals are lost.
- Daemon: the above together; no freeze between a turn's end and its ack.
- Codex bridge: each started turn gets the result that belongs to it, once.
- Thread mapping: one conversation per instance across restarts.
- Bootstrap: whatever was acquired is released when a later step fails; nothing is served
  before it is prepared; a process told to stop ends.
- Tracing proxy: a call hangs off the message it answers and gets the counts that are its
  own, whatever requests overlap; the service ends up with all that was told.
- Trace hook: a transcript is read as it was written, however its lines interleave and
  wherever it is cut off; a turn recorded as sent is held whole by the service, each of
  its steps and calls in one span, however often it was exported.

## The modules

**`AtLeastOnce`** is the abstract promise of the inbox: items are taken oldest first;
turns run on the oldest outstanding item it was listed with, perhaps several times; its
answer is delivered; only then is it acknowledged. An acknowledgement may be given up and
land later, even after the item was listed once more. Six variables and seven actions.

**`InboxSync`** is the loop in detail. `pc` says where `Run`'s goroutine is: `idle` is
the select, `fetch` and `next` are `Consumer.Sync`, `turn`, `publish` and `ack` are the
handler, `report` is `reportWorkloadIdle`, `down` is no process. `page` is what the
fetched page still holds, `cursor` and `more` are the page token, `retry` and `backoff`
the timer, `wake`, `wakeSync` and `processingWake` the channels. `answered` and `owed`
are history: on which items a turn has ended, and whose final text is not delivered.
Each call has its outcomes as actions: `PublishFails` covers a post that failed after it
took effect. An ack that failed, or that a kill cut off, joins `late` and reaches the inbox
(`AckLands`) at once, after the next read has listed its item, in the middle of the item's
second turn, or never; `relisted` is history, the items that were listed with an ack under
way. `Crash` kills the process at any step. `DirectItems` have no thread and `EmptyItems`
nothing to put to the agent: `Handles` says who refuses them. Failures and kills
are bounded by `MaxFaults` and `MaxCrashes`, items by `NumItems`. Time is not modelled:
a retry timer that is armed may fire. `Backoffs` are seconds.

**`Subscriber`** is `Subscriber.Run`: `sub` is where it is (`top` of the loop, `dial`
in Subscribe, `recv`, `wait` in a backoff), `dropped` says the attempt's context is
cancelled, `link` is the stream as the service sees it and `news` what has been
announced on it and not received. It has no run of its own: alone it promises nothing,
and its actions are checked in `Daemon`.

**`WakeAnswers`** is the keepalive's promise: the first sign of a wake a process sees
is answered, a later one only when a sleep nobody answered is behind it; an answer
drops the stream and asks for a read; touches come at any time.

**`Keepalive`** is the goroutine with its clocks, signals and ticks. The code compares
wall and monotonic clocks only with each other, so a reading is one number, `skew`, how
far the wall clock has run ahead. The world freezes and restores the guest, sets its
clock by the length of the sleep, sends up to two signals, each of which may be lost,
and corrects the clock by small steps that total at most `MaxDrift`.

**`Daemon`** composes `InboxSync`, `Subscriber` and `WakeAnswers` over their shared
channels; `LateAck` is the inbox's part. A hibernation stops the process, breaks the stream
and may lose what was on it. `beforeFirst` and `unregistered` are history variables for the two gaps described
under *Findings and gaps*. `MCDaemon`, `MCKeepalive` and `MCCodexTurn` give constants their values.

**`TurnResults`** is the tracker's promise: results are reported for turns, and whoever
waits for a turn takes at most one, of its own turn, whichever came first.

**`CodexTurn`** is one codex turn after another, from `StartTurn` to the outcome, over
three parties. The app-server (`state`, `said`, `final`, `erred`) starts a turn it was
asked for, perhaps after `StartTurn` gave it up, announces messages, reports an error
and completes the turn. The bridge's goroutine takes each notification as one step
(`OnAgentMessageDelta`, `OnItemCompleted`, `OnTurnCompleted`, `OnError`; the same
handler's error without a turn id is `OnIdlessError`, and `OnForeignError` when it is
another thread's), with the tracker's `waiters`, `pending` and `active` under its lock;
the send to the channel, which follows the unlock, is a step of its own (`Send`, from
`hand` to `box`). The handler registers, takes its result and ends the turn: an answer,
a quiet end, a retry, a readback, or an error that ends `Run`. Messages are numbers in
the order they are said. `heard`, `whole`, `reported`, `unheard`, `taken`, `outcome` and
`posted` are history. The app-server's and the handler's failures are bounded by
`MaxFaults`. The publish and ack that follow are in `InboxSync`, for which a whole turn is
one step with the same outcomes.

**`ThreadMapping`** is `ensureCodexThread` and the store under it. `pc` is `idle`
between messages, `resume` or `start` at the call to codex, and then in `Save`: `check`
(validate, MkdirAll, CreateTemp), `write` (write, sync, close), `rename`, `chmod`; at
`turn` a thread has been returned. `memory` and `file` are the record in the two places;
`entries` is what the directory entry may turn out to be after a loss of power, since
`Save` syncs the file and not the directory; `temps` counts temporary files. A kill or a
loss of power may come at any step. `turned` and `undone` are history.

**`Transcript`** is the two parsers as functions from the lines of a transcript to its
turns. A line is a record of its kind, turn, message, call and token count; what a parser
holds on the way is a record too (`NothingRead`), each line takes it to the next
(`ClaudeLine`, `CodexLine`), and `Reading` is the function from a number of lines to what
the parser holds after them. A text is counted, a step's context is how many items the
model had been shown and how many of them an earlier step had. A pending call is the Go
pointer it is in the code: `room` is the capacity of the slice it was taken from, and a
result written through it after the slice has moved (`HeldThere` is false) is written where
nobody reads. The arrays that `append` grows a slice through are the build's, not the
language's; they are the constant `Sizes`.

**`TraceHook`** composes the parsers with the hook and the CLI around them. `log` is what
the CLI has written and `flushed` how much of it is in the file; `cli` is where the
session is, over turns, hooks, a kill and a resumption. `hook` is the call the hook makes
next: `load` the sidecar, `settle` on turns that look finished, `export`, and `truncate`
and `write` of the sidecar, which `os.WriteFile` does apart. `sent` and `fresh` are its
variables, `sidecar` the file, `rows` the spans in the service by identity. `early` is
history: the turns that were read as finished before all their lines were in the file.
Each call may fail (`MaxFaults`), an export may land without an answer, and the workload
may be killed at any step (`MaxKills`).

**`Bootstrap`** is a process from its environment variables to its end. What it has yet to
do is a sequence of named steps, `todo`, whose head is under way: `Construct` is what the
constructor of each CLI, or of a holder, does in turn, `PrepareAgentCLI` what comes before
it, `Run` what `Run` does before it serves or holds, `CloseOrder` what `Close` does.
`Releases` is what the error path of each step gives back, `held` what the process holds. A
step of the process itself succeeds (`Local`, `Acquire`) or fails (`StepFails`); a call of
the platform is answered, refused, or abandoned once the process was told to stop. `Fails`
says what follows: another attempt after the backoff, the end of `New`, or the end of `Run`,
which `main` closes after only when the error is the context's own (`canceled`). Init
scripts start, end, are killed or cut off one by one; MCP servers answer a probe with any of
`Replies`. Codex's credential, `auth`, outlives the process: `os.WriteFile` empties it and
then writes it, a person may log in at any time, and the process may be killed in between
and started again. `Terminate` and `Kill` come at any step. Faults, starts and attempts at
the platform (`ConnectTries`, 12 in the code) are bounded.

**`TracingProxy`** is the proxy between its clients and the Tracing service. A client emits
its `Script` of events in batches, waits for each reply or gives the request up. A request
is a record in `handlers`, handled in a goroutine of its own: `at` is the event it is at,
`step` what it does next. What happens under `llmCallMu` is one step, what lies outside it
another: `llmCallSpan` reads the message in one and remembers the call in the next; the
counts take the pending call in one and are appended in the next. `heap` holds the spans the
maps and the handlers point to; an export is an image of it, sized in one step and written
in the next, and another handler may append in between. The service (`rows`) replaces spans
by identity; an export that failed may still land later (`adrift`). `listening` is the state
of both listeners through the two drains of `Close`. `gaveUp` and `unsure` are history: the
clients that gave a request up, and those one of whose exports failed.

**`AgyndProcess`** composes the two: acquiring the second listener starts the proxy, the
clients run while the CLI does, the step of `Close` that closes the proxy waits for its
drains, and the proxy's memory goes with the process. `MCAgyndProcess` gives the constants
their values: eleven environments, one of each CLI in each mode and one for each way to be
turned down.

**`InboxSyncProofs`**, **`KeepaliveProofs`**, **`DaemonProofs`**, **`CodexTurnProofs`**,
**`ThreadMappingProofs`**, **`TraceHookProofs`**, **`TracingProxyProofs`** and
**`AgyndProcessProofs`**, which has the boot's too, hold the theorems.

## The runs

| Run | Asks | Bounds | States |
| --- | --- | --- | --- |
| `inbox` | does the loop keep `AtLeastOnce`, and does every item get acknowledged | 3 items, pages of 2, 2 failures, 1 kill, acks landing at any later time, codex (the handler with every outcome) | 256,414 |
| `keepalive` | is each sleep answered, and once | 2 sleeps of two lengths, floor 2, corrections of one half second | 92,756 |
| `daemon` | is any item stranded, any turn frozen before its ack | 2 items, pages of 1, 1 failure, 1 broken stream, 1 sleep | 5,480,110 |
| `daemon_live` | is every item acknowledged in the end | 1 item, 1 kill, 1 broken stream, 1 sleep | 353,412 |
| `codex_turn` | does each turn's handler take one result, its own, and its last word | 2 turns, of 1 and of 2 messages, 1 failure | 668,144 |
| `thread_mapping` | does an instance keep one conversation, recorded before its turns | 2 failures, 1 kill, 1 loss of power, 1 clock set back | 105,010 |
| `trace_hook` | is a transcript read as written, and a recorded turn held whole | each format; 2 turns, 2 texts, 2 calls, 2 lines unflushed, 1 failure, 1 kill | 605,364 |
| `agynd_process` | is nothing left behind or served unprepared, does the process end, and does the proxy keep each call in its place | 11 environments, 3 attempts, 3 faults, 3 starts, 4 scripts, 2 servers, 6 kinds of reply; 5 events of 2 conversations in batches of 1 or 2 and a span, 1 request given up or failed | 257,950 |
| `first_stream` | does the initial read cover what precedes the first stream | 1 item, nothing fails | violated |
| `direct_items` | is a direct item ever acknowledged | 1 item, nothing fails | violated |
| `quiet_turn` | does the daemon survive a turn that says nothing | 1 turn, nothing fails | violated |
| `lost_reply` | is a reply exported that was flushed after the hook read the file | 1 turn, 2 texts, nothing fails | violated |

Why the bounds are enough. In `inbox` three items in pages of two give a full page and
a part page, an item accepted behind the page token and one past it, and an item
accepted during any step; two failures let a retry fail in turn, or two acks be on their
way, and one kill falls anywhere among them. In `keepalive` the shortest sleep is exactly the floor plus the
drift, so a correction the wrong way brings a sleep to the floor itself, and two sleeps
let the second hide behind the answer to the first. In `daemon` pages of one make the
read of two items take three fetches, and one break and one sleep each meet every
state of the stream, and the one failure may be an ack that lands in any of them. In `codex_turn` the one failure lets `StartTurn` give the first turn up, so
that its notifications fall anywhere in the second; two messages in the second give a
last one and a first final one that differ. A second failure adds only states.
In `thread_mapping` a second failure lets the retry of a failed save fail, between a kill
and a loss of power at any steps; threads enough are there for each to cost one.
In `trace_hook` two texts and two calls fall in one turn or in both, so that claude's
come to several messages and a call stays out while another is made; two lines unflushed
cut the file inside a turn or before its opening; the failure and the kill meet at a
sidecar that is truncated, unreadable or behind. `Sizes` is what Go's allocator gives a
slice of calls of 144 bytes: 1, 2, 4, 8, 18. Two calls move the slice once; a third takes the
run past its time. With more, a slice moves again, or has room so that a result is kept although
calls follow: for any number of them there is the theorem `HookReadsAsWritten`.
In `agynd_process` three attempts let the platform fail, fail again and answer, or fail for
good; three faults let each start fail once, or one boot fail at two attempts and a later
step; three starts let a write that was cut short be found by the next process and the one
after. The five events are a prompt, a call with a call of another conversation behind it,
a completion without counts and one with: every cut into batches puts the call and its
counts into one request or into two, and a request given up lets the two overlap. The
traffic is followed in the first life, after a boot without a fault: a proxy is new in every
life, so later ones repeat it, and the lives after one with traffic are not followed.

What the properties say:

- `AcksInOrder`, `NoTurnAfterAck`, `NoAnswerLost` are the loop's order, idempotence and
  answer-before-ack; `KeepsPromise` says all that the loop does is allowed by
  `AtLeastOnce`. An ack given up may land after the next read has listed the item: the item
  is then answered once more than it need be, and acknowledged twice. `NoTurnAfterAck` and
  `NoAnswerLost` set these items apart (`relisted`); the order, and what is promised of all
  other items, do not depend on when the ack lands.
- `NothingForgotten`: for every outstanding item, a token or the retry timer is
  pending, or the read under way will still list it. It is the reason the loop may
  take a token before it reads and clear the timer after.
- `NothingStranded` says it of the whole daemon: the reason may also be an
  announcement on the stream, or a stream that is closed or dead and will be reopened.
- `NeverFrozenMidTurn`: the workload is never frozen with an item taken and not
  acknowledged, although Runners may hold it idle from the item before: the
  Orchestrator looks at the inbox first, and an item stays outstanding until its ack; only
  one that an ack given up takes out of the inbox in the middle of its next turn does not.
- `SleepShows`: while a sleep is unanswered, the next tick will see it and admit it.
- `AnswersWakesOnce`: the keepalive is one that `WakeAnswers` allows.
- `SendsOnce`: the bridge never sends to a waiter that has had a result; the channel would
  be closed, and the panic would take the process.
- `WaitedTurnIsActive`: nothing heard of a turn that was given up takes the active turn
  away from the one that is waited for.
- `AnswersWithLastWord`: what is delivered was said in that turn, the first final message
  or else the last, whether it was heard from deltas, items, the completion or readback.
- `TakesItsOwnResult`: the tracker is one that `TurnResults` allows.
- `AlwaysLoads`: wherever `Save` is cut off, and whatever the clock says, the file is one
  that the next process accepts. A record refused once would be refused at every message.
- `TurnsAreRecorded`, `OneConversation`: a turn runs only in the thread that a restart
  would resume, and so all of them in one. The exception is a loss of power that takes
  back the very first rename.
- `NoLitter`: only a save cut off leaves its temporary file.
- `TalksAgain`: after failures, restarts and a clock set back a turn runs again.
- `ParsedAsWritten`: the parse of every file a run can leave is compared with a reading of
  the same lines that does not go through them in order. It says which outputs the moved
  slice loses (`ResultKept`), that nothing else is lost, and that each item shown is new to one
  step at most.
- `RecordedWhole`: a turn the sidecar names, which will not be exported again, is held by
  the service with all that the file says of it, unless it was read early.
- `RowsOnlyGrow`: an export takes back nothing that an earlier one wrote, and no span ever
  comes to describe something else.
- `SidecarMadeWhole`: a hook that completes names every turn the service holds, also
  those of hooks whose record failed, was truncated or could not be read.
- `NothingLeft`: each of the constructors has its own lists of what to give back. Between
  two attempts, when `New` has failed and after `Close`, nothing that was acquired is left.
- `PreparedBeforeServing`: a CLI runs, or a holder holds, only after every init script of
  its scopes ran to its own end in this life, in order, and agn only after every MCP server
  gave a result. A script killed by the order to stop counts as one that failed, which is no
  error (init_scripts.go:150-153): that nothing is served after it rests on the checks
  behind it.
- `CredentialStands`: over any number of starts, codex finds the login a person made, or else
  the whole placeholder; except after the two gaps below.
- `ProxyOutlivesCLI`: there is a listening proxy while agn runs, and a connection to export
  over while the proxy handles what it took.
- `CallsKeepTheirPlace`: a call gets the counts of one event at most, and its message and
  counts are of its own conversation, whatever requests overlap. If its client gave nothing
  up, the message is the last one before it and the counts are the first after it.
- `RowsAreComplete`: once its requests are handled, the service holds all that such a client
  told, each call with its counts, however its events were cut into requests.
- `StopsWhenTold`: a process told to stop ends, from any step of a boot, a backoff, a script
  or a drain.
- `EveryItemAcked`, `SleepAnswered`, `HeardItemsAcked`, `WaitEnds` are the liveness of
  each. `WaitEnds` excepts a turn whose only end was an error without a turn id, heard
  before the wait: it is dropped (bridge.go:139-143), and the wait has no deadline.

Every property of a passing run has a mutant in `PROJECT.json`: a change of one
definition, such as a developer might make by mistake, under which the property fails.

## Fairness

- `WF(Daemon)`, `WF(RunStep)`: the loop's goroutine keeps running. Every call it makes
  has a deadline, except the wait for a codex turn, which ends when the CLI ends the
  turn. That exception is an assumption about the CLI, and a hazard of its own.
- `WF(Boot)`: the container is restarted when the process is gone.
- `WF(SubscriberStep)`, and of the service registering a stream it was asked for; a
  stream whose far side is gone fails its Recv in the end.
- None of an ack's landing once it was given up: it may never.
- `WF` of the runner's restore and clock, of answering a wake in `Daemon` (which is what
  `SleepAnswered` establishes of the keepalive).
- In `Keepalive`, `SF` of the tick: Go's select chooses at random among what is ready,
  so a tick that keeps being ready is not passed over for ever. Signals have no
  fairness: none need ever arrive.
- In `CodexTurn`, `WF(Handler)`, `WF(Send)`: the two goroutines run; and
  `WF(Completes(t))`: the app-server completes each turn it started unless it reported an
  error for it.
- In `ThreadMapping`, the handler is called again (messages come, or are retried), the
  process is restarted, and the clock goes on, `WF(Tick)`: a clock that stayed behind the
  record's creation would fail every turn.
- `TraceHook` assumes no fairness and states no liveness. A hook runs only when a turn
  completes or the session ends, and a turn whose export failed waits for the next; the
  repository promises no export if none comes.
- In `AgyndProcess`, `WF(OwnStep)`: the process goes on by itself, and that includes the
  deadlines it sets and the return of a call whose context has ended. Nothing is assumed of
  the platform, of a script, of an MCP server, of the Tracing service or of the clients.
- Failures and kills are bounded, so liveness says: once they stop.

## What is proved

For every value of the constants that the named assumptions allow.

`InboxSyncProofs` (from `NumItemsAssumption`, `PageSizeAssumption`, `InboxConstants`):

- `TypeCorrect`: `[]TypeOK`.
- `OrderKept`, `AnswersDelivered`, `AcknowledgedStaysSo`: `[]AcksInOrder`,
  `[]NoAnswerLost`, `[]NoTurnAfterAck`. None is inductive: that the head of the page may
  be acknowledged next depends on everything before it being acknowledged already. The
  inductive invariant is `LoopInv`: a read leaves nothing behind it (`ReadCovers`: each
  item up to the token is acknowledged or on the page, never both) and where the
  goroutine is says what it holds (`PhaseHolds`: at `ack` the head is answered and its
  text not owed). Acks that may still land keep the order because every item before a
  late one is acknowledged already (`LateInOrder`).
- `NoneForgotten`: `[]NothingForgotten`. It needs `ReadingForgetsNothing` beside it:
  while a read is under way a channel token, and not the retry timer, must answer for
  what the read will not list, because a read that succeeds clears the timer.
- `Implements`: `Spec => KeepsPromise`, each step being a step of `AtLeastOnce` or a
  stutter, by the same invariant: a page is what the promise calls listed, and a call or a
  process that gives an ack up leaves it to land.

`KeepaliveProofs` (from `FloorAssumption`, `CorrectionsAssumption`,
`MaxSleepsAssumption`, `DriftAssumption`, `SleepAssumption`):

- `TypeCorrect`, `ClocksShowSleep` (`[]SleepShows`) and `Implements`
  (`Spec => AnswersWakesOnce`), from `WatchInv`: since the last tick, and since the last
  wake answered, the clocks have drifted apart by no more than the corrections made,
  unless an unanswered sleep lies between, and then by at least the floor and what
  drift is left. The assumptions are what `wake.go` says of the floor: it clears a
  clock's ordinary corrections (`MaxDrift < Floor`) and stays under the shortest sleep
  (`s >= Floor + MaxDrift`).

`CodexTurnProofs` (from `MaxTurnsAssumption`, `MaxMessagesAssumption`,
`MaxFaultsAssumption`):

- `TypeCorrect`, `NeverSendsTwice` (`[]SendsOnce`), `WaitedTurnStaysActive`
  (`[]WaitedTurnIsActive`) and `Implements` (`Spec => TakesItsOwnResult`), from `TurnInv`.
  `SendsOnce` says only what must not happen at the send; the reason lies steps before
  it. At most the turn asked for last has a waiter (`WaiterIsCurrent`); a result on its
  way to a channel belongs to a turn that has left the map and whose channel is not
  closed yet (`SenderIsLast`); whatever is kept, sent or received was reported for that
  turn (`ResultsBelong`); and the handler has taken nothing for a turn it still waits for
  (`NoneTakenYet`).
- `DeliversLastWord` (`[]AnswersWithLastWord`). What is delivered was decided when the
  bridge heard the completion, or at the readback, so the property says nothing of the steps
  before. `WordInv` does: while a turn runs, a message of which the bridge has only deltas
  comes after all it has heard to the end, and a final message is one of the latter
  (`HeardInOrder`); an answer reported was the last word of a turn that is over, and a
  missing one that of a turn that said nothing (`ReportsLastWord`, `SettledBy`); only such a
  turn is read back (`ReadsBackTheSilent`). A lemma says what `FinalAnswers`, the code's
  merging of listed and overheard messages, returns (`FinalAnswersAreLastWords`).

`ThreadMappingProofs` (from `MaxThreadsAssumption`, `MaxClockAssumption`,
`BoundsAssumption`):

- `TypeCorrect`, `FileAlwaysLoads` (`[]AlwaysLoads`), `RecordedBeforeTurn`
  (`[]TurnsAreRecorded`), `ConversationKept` (`[]OneConversation`) and `LitterBounded`
  (`[]NoLitter`), from `MappingInv`: every record that a loss of power may bring back is
  valid and of the same thread (`DiskOK`), memory agrees with it and each step of the
  handler has what it needs (`MemoryOK`), and turns have run in that thread (`TurnedOK`).

`TracingProxyProofs` (from `ProxyConstants`, which says that a client sends traces or logs
and that no two of them speak of one conversation): `CallsKeepTheirPlace`, for any clients
and scripts, batches of any size and any number of requests given up. The invariant,
`ProxyInv`, has three parts. *Apart and fresh*: no event is in two requests, and nothing has
been made yet of an event still to be handled, so a new span never replaces one. *Made*: the
maps hold spans of their own conversation, and a call without counts is in one hand at a
time: the handler that made it and has not yet remembered it, the map, or the handler that
took it out of the map and has not yet appended to it. That is what keeps a call from two
events' counts although both happen outside the lock, and it holds even of clients whose
requests overlap. *In order*: a client that gave no request up has one request at a time, and
the maps then hold the last message and, unless it was taken, the last call of what it said up
to the event being handled (`Reached`); from this a call's parent and its counts are the ones
that belong to it. The proof has a lemma for each action; those that make or change no call
share `KeepingStep`, those that leave all spans alone `QuietKeeps`.

`ProxyRowsAreComplete` (`[]RowsAreComplete`) is about the end of a long way, from a client's
telling to the service's row, so two more invariants follow what was told along it. `Told`: of
every event told, its span is made or a request has still to make it (`EventsMade`), and counts
are on their call or a request has still to read them (`CountsMade`); the latter needs that a
call is pending until the first counts after it are read (`Awaited`), which is where a
completion without counts could have spent it. `Storing`: what a request carries to the service
is its own client's and, at the write, as it is on the heap, unless the client gave a request up
(`OutsOwn`); an export that may still land late is of a client that is set apart (`AdriftOf`);
and a span of any other client is in the service as it is on the heap, or some request carries
it (`RowsFollow`), which is why counts appended to a span are exported once more. Once a
client's requests are over, none is left to make, read or carry anything. `ProxyIsTyped`
(`[]ProxyTypeOK`) rests on all but `Told`, and on `AllKept`, the types of images, rows and flags.

`AgyndProcessProofs`, of the boot (from `BootConstants`: bounds are numbers, and the scripts are finitely many,
each with a scope, a time and an id of its own, as the platform's are):

- `BootLeavesNothing` (`[]NothingLeft`). What an error path gives back is a list of its own at
  every step, what is held depends on how far the boot came, and the two meet in `Rank`, an
  order in which every plan lists its steps. `Plan`: all that a plan acquires from its first
  step on is still in it. So what is held at a failing step is what ranks before it
  (`Booting`), and `Releases` covers that for each CLI (`ReleasesAll`). Past New it is Close
  that must reach everything still held (`Closing`).
- `BootPreparesBeforeServing` (`[]PreparedBeforeServing`). The property looks back from the
  serving process at a boot whose plan is gone. `PrepInv` carries what the plan said: while the
  process boots, no step is missing between one that is behind and the plan's end (`Upward`), so
  to be serving means that every step was taken; what was listed is what the listing steps
  behind it list, the environment's first (`Collected`), and once the steps are behind, all of it
  ran and every server was probed (`Preparing`); the scripts that ran are the first of those
  listed, and one that did not end by itself means that the process was told to stop (`Lists`).
  Past the boot the invariant is the property itself, and a process that closes was told to. That
  `Listed` gives each script once and in order is proved by counting: the position of a script
  is the number of those before it (`ListedInOrder`).
- `BootIsTyped` (`[]BootTypeOK`): types, with bounds that need the two invariants above.
- `BootCredentialStands` (`[]CredentialStands`), from `CredentialInv`: a login that came in no
  write of the placeholder stands, and nothing is left to do that would write over it; with no
  login an empty file is one whose write is under way, or was cut short.

`AgyndProcessProofs`, of the process: every step of the process is a step of the proxy or a stutter
(`ProcessRunsTheProxy`) and one of the boot or a stutter (`ProcessRunsTheBoot`), so the same
holds of the process, through the proxy's start, its two drains and the process's end
(`ProcessCallsKeepTheirPlace`, `ProcessRowsAreComplete`, `ProcessLeavesNothing`,
`ProcessPreparesBeforeServing`, `ProcessCredentialStands`, and the types of both,
`ProcessIsTyped`).
`ProcessKeepsTheProxyUp` (`[]ProxyOutlivesCLI`) speaks of both at once. Its invariant,
`ProxyServesCLI`, links what the boot holds to what the proxy does: with its second listener
acquired the proxy listens until Close reaches it, and while the clients run Close has not yet
begun with its list. The order in which `New` acquires comes from `Plan` (`AcquiredBefore`).

`DaemonProofs` (from `LoopConstants`, `StreamConstants`, `SleepConstants`):

- `TypeCorrect` (`[]TypeOK`).
- `NoTurnIsFrozen` (`[]NeverFrozenMidTurn`). A freeze asks only for an empty inbox; the
  invariant that links it to the turn is `LoopOK`: what is on the page is not acknowledged,
  unless it was listed with an ack on its way, and from the turn to the ack the page is not
  empty.
- `NothingIsStranded` (`[]NothingStranded`), where `Announced = 1..NumItems`, that is when no
  filter keeps an announcement out. By itself the property does not survive the end of a
  read, which clears the retry timer. `AllCovered` therefore counts the timer only while no
  read is under way, and `StreamOK` says that whoever holds a stream receives from it and has
  opened one: a stream that breaks thus leaves a reopening behind, which asks for a read. Each
  goroutine has a lemma: a step of the loop begins a read, gives it up with the timer armed,
  or goes on and drops only what it acknowledged (`ReadGoesOn`); the stream's steps
  (`StreamStrandsNothing`) and the inbox's (`AcceptStrandsNothing`).

`TraceHookProofs` (from `BoundsAssumption` and `SizesAssumption`: the bounds and the sizes of arrays are
numbers). All five theorems speak of
what `Parse` makes of a transcript of any length, which takes an induction over its lines. The
library's induction theorems cannot be instantiated, so the proof makes do with the least line at
which something fails (`HasLeast`, from the minimal element of a well-founded relation), and from
it with `HoldsForAll`: a set of numbers that has 0, and with each its successor, has all. So
`Reading`, a recursive function, is shown to be one (`CanFollow`, `ReadingFollows`), and what
each line keeps, all lines keep (`ReadsAll`, `ReadingContinues`). In this order:

- *One line.* What a parser does to its turns is to open one at the end or to edit one it has:
  `Edits` says that no step or call is moved, renamed or dropped, and that what is said, counted
  or done only grows (`TurnGrows`, `StepGrows`). `LineReads` proves of every kind of line, in every
  format, that it does one of the two and touches the turn it names only. A call's result
  is the difficult case, since it is written through a pointer held since the call: `WaitsOK` says that
  the pointer's turn, step and call exist, and `Reads` that a pending call is one of the log.
- *All lines.* `LineOK` is what the parser needs of the lines before a line, `ReadSoFar` what
  it then holds: turns in the order of their ids, each named by a line, the last one that of the
  last line, and no step in a turn that has not been seen to end (`Sound`). Reading on grows every
  turn at its place, and leaves one that no later line names as it is (`ReadingContinues`); a file
  that is cut off earlier reads as the whole one did up to there (`SameReading`).
- *The log.* `LogInv`: every line the CLI writes is such a line, for each format, with turns and
  calls numbered by counting those before (`NextTurn`, `NextCall`, by cardinality); a kill cuts the
  log, which keeps it so (`LogStep`).
- *The hook.* `HookInv`: every row of the service comes from a reading of the file at some
  number of lines, and where the hook has something to send, it read no earlier than any of them.
  From this and the growth of turns follow `HookRowsOnlyGrow` (`RowsOnlyGrow`),
  `HookMakesSidecarWhole` (`SidecarMadeWhole`; a turn with a row has a step, so it was seen to end and
  is recorded, unless it was before) and `HookIsTyped` (`[]TypeOK`).
- `HookRecordsWholeTurns` (`[]RecordedWhole`) needs to know that a turn once recorded never
  changes. `Over`: no line of it is still to be written or flushed. `WholeInv`: what is recorded
  or taken for sent is over and held whole; what the hook is about to record, or to send once more
  because the sidecar was unreadable, is over and is read as it was.
- `HookReadsAsWritten` (`[]ParsedAsWritten`): whatever was written, flushed and cut off, the
  parse of the file is what its lines say of themselves. The property looks at all lines at once:
  it counts texts, collects calls, asks which line of a message is the first and what was shown
  before it. The proof looks at one line more. Its parts:
  - *What is written.* `LogWritten` is what the property needs of the log and `LogInv` does not
    say: an answer is of a message of its own turn, claude's usage counts the lines of its message
    so far, codex's those of its turn, and a call returns once. Every step keeps it (`WrittenStep`).
  - *What a line does, exactly.* Above it was enough that a line only adds. Here it is what it adds:
    `Puts` replaces one step of one turn and nothing else, by `Grown` when the model speaks or calls
    and by `Returns` when a call does; `TakesIn` and `GoesBack` say this of a whole answer and result.
  - *What a line says.* How each of the sets the property is made of grows with a line (`AnswersMore`,
    `CallsMore`, `ItemsMore`, `KeptNow` and their like), and that the first line of a message stays
    the first (`FirstStays`).
  - *Which results are kept.* Nothing is assumed of the arrays but that their sizes are numbers.
    `Capacity` is the least size that holds the slice, or the slice's own length past the largest
    (`CapacityIs`); it stays what it was while the array made for fewer calls holds all of them, and
    is another as soon as it does not (`CapacityStays`). So the slice a pending call points into is
    still the one in use if and only if the array it was made in has room for every later call,
    which the property says by counting ids (`NotMovedIs`).
  - *What is held.* `Holds` is the property with what it rests on: how much was shown in all, that
    the pending calls are those that have not returned (`Awaited`), and that the context of the next
    step begins where that of the last ended (`Contexts`). Each kind of line keeps it in either
    parser (`HoldsClaude`, `HoldsCodex`), so a reading keeps it to the end (`ReadingHolds`).

Only model-checked: `InitialReadCovers`, `QuietTurnSurvived` and `NoReplyLost`, which fail, and
liveness, which is out of the prover's reach.

## Findings and gaps

Four runs end in a violation, each of something the repository says of itself:

1. `first_stream`. `Run` waits for the subscriber to have started, not to have opened
   its stream. An item accepted after the initial read and before the first stream
   opens waits for the next notification, wake or restart.
2. `direct_items`. Direct items are accepted, parsed and given a header, and the claude
   and codex handlers refuse them at every retry; what is behind them starves. An item with
   no text and no files meets the same end with every CLI (daemon.go:1400-1402), which nothing
   in the repository speaks against.
3. `quiet_turn`. A codex turn that completes with no agent message at all, not even a
   blank one, is read back until the deadline and then ends the daemon; the comment and
   the test beside it say an empty turn must not.
4. `lost_reply`. The hook takes a turn for finished as soon as one of its lines is in the
   file. Claude may run it with the reply unflushed; the turn is then exported without
   it, recorded as sent, and never exported again.

Gaps that are not findings.

A gRPC stream is open for the client before the service has
registered it. An item accepted in between is announced to nobody, and the read that a
reopened stream asks for may be over. `Daemon` keeps these items apart
(`unregistered`); whether the gap exists is the service's to say.

When a model makes two calls in one step before the first returns, the output of the first may be lost: the
parsers hold a pointer into a slice that the second append moves (claude.go:137,
codex.go:228). `Returned` does the same, and `ParsedAsWritten` says exactly when, given the
arrays that `append` grows a slice through (`Sizes`).

An ack has a deadline (daemon.go:752) and cannot be called back. Given up, it may reach the
inbox after the next read has listed the item, which is then put to the agent although by
its next ack it has been acknowledged. `relisted` keeps these items apart.

A terminal error that names no turn is given to the active turn (bridge.go:139), also when it
is of one whose `StartTurn` was given up, or of another thread. The turn waited for then ends
with it and runs on unheard. The bridge has nothing to tell them apart by; `CodexTurn` does as
it does (`OnIdlessError`, `OnForeignError`).

With `THREAD_ID` set the daemon is not pinned to a thread, as config.go:49-51 puts it: every
constructor gives it a consumer of the whole inbox, and only the subscriber filters what
wakes it (the constant `Announced`).

A placeholder credential whose write was cut short stays as it is: every later start finds
a file and does not look into it (codexauth.go:46). A login made between the look and the
write is replaced. `torn` and `raced` set these apart in `CredentialStands`.

An export of spans that failed may land after a later one of the same span with its counts,
and takes them back; the log export was answered with success in either case, so no client
repeats it. `unsure` sets these clients apart in `RowsAreComplete`. Appending to a span that
another request is marshalling is a data race; the model lets either version be written or
marshalling fail, and a torn read of the slice could also end the process.

The error of a gRPC call that was cancelled is a status and not the context's error
(`Abandoned`): told to stop while a held process lists its scripts, it ends with a fatal
error and without `Close`. So does a process told to stop before `New` returns, and one whose
codex turn failed for good; its children and connections end with the process.

`MCP_PORT` alone is refused by `resolveMCPServers` in any case, because the definitions come
from `AGENT_MCP_SERVERS` itself (daemon.go:379); that, or a name given twice, is tried on
the whole backoff although no attempt can succeed.

Hazards this project leaves to what is outside: an inbox item that fails validation fails
its page at every read (agents.go:34); a codex turn that fails for good is read first again
after the restart (daemon.go:572); a recorded thread that codex cannot resume fails every
message (daemon.go:1056).

## Assumptions about what is outside

- The inbox pages in the order it accepted items, and a token continues after the last
  item listed. It may return a token that leads to an empty page.
- A page, an ack and a post each take effect at most once. A failing post may have taken
  effect, a failing ack may take effect at any later time or never. A post that finds no default thread counts as delivered
  (`FailedPrecondition` is no failure in `publishFinalMessage`).
- The Orchestrator hibernates only a workload that Runners holds idle and whose inbox
  is empty when it looks.
- A hibernation during the keepalive's first touch, before its watch is made, is one
  the clocks cannot show; `Keepalive` does not count it as one to answer.
- The app-server's notifications reach the bridge one at a time and in order; it says one
  message after another, completes an item once, and lists all of a turn's items in the
  completion or none. A thread that is read back lists a turn with none of its messages
  or with all of them. Turn ids are not reused.
- Codex resumes a thread it has started, in the end; a rename is atomic; a file that was
  synced before it is renamed is whole after a loss of power, and one that was not may
  be torn.
- The CLI waits for its hook, so that hooks of one session run one at a time. It writes a
  line per block of a message. Codex has flushed its rollout when it runs the hook; claude
  may not have, as main.go:118-122 says. Lines that were not flushed die with the CLI.
- The Tracing service replaces a span by another of the same identity, and takes a request
  whole or not at all.
- The home directory, with codex's credential in it, outlives the process. The clients of the
  proxy live as long as the CLI; one sends traces, over gRPC, or logs, over HTTP, one batch
  after another, and repeats none. What one client says of a conversation no other does.
  Span identities, eight random bytes, do not collide.
- Whether the SDKs still start a CLI once the context has ended is theirs to say; the model
  lets them do either.
- A wall clock set back by as much as a sleep set it forward would hide the sleep;
  `DriftAssumption` excludes it.

## Plan

The components of the inventory are modelled; what is left of them is listed under *Not
modelled*. Every invariant and every action property of a passing run is proved.

## Not modelled

- What the preparation steps write: the text of the CLIs' configuration, settings, skills and
  environment. Each is a step that is done or fails; nothing in the program reads it back,
  except `~/.claude.json`, which is merged and started over when it is unreadable.
- The syntax of environment variables, and defaults of addresses.
- The inside of a claude or agn turn, which is one call to its library, and of the polling of
  the LLM proxy's port before a codex turn: an outcome of the turn in `InboxSync`.
- `InvocationMessage`, one best-effort export before a turn; the attributes of spans other
  than the token counts; thread and message ids on the proxy's spans. A message id is added
  to the spans of a trace export as counts are to a call, outside the lock (proxy.go:346-365),
  but only tests set one after the start, and a client's own spans are in one request.
- Traces over HTTP (`serveHTTPTraces`): agn, the only client that sends traces, does so over
  gRPC, and `PassSpan` is `Export`, to which both come.
- The title refresh of `shells.go`, which keeps no state and ignores every failure.
- In today's wiring only agn gets a proxy, and it exports traces; the translation of codex's
  logs is modelled with a client that sends them, as the proxy's tests do.
- Charts, workflows and end-to-end tests, which are not program logic.
