------------------------------ MODULE TraceHook ------------------------------
(***************************************************************************)
(* cmd/agynd-trace-hook over a session's transcript: the agent CLI writes  *)
(* the transcript and runs the hook when a turn completes, and claude also *)
(* when the session ends. The hook reads what the sidecar says was sent,   *)
(* waits for a finished turn to appear, exports what is not sent as spans  *)
(* to the Tracing service, and rewrites the sidecar.                       *)
(*                                                                         *)
(* The CLI waits for its hook, so one runs at a time. The workload may be  *)
(* killed at any step; the session is resumed on the same transcript.      *)
(***************************************************************************)
EXTENDS Transcript, FiniteSets

CONSTANTS
  MaxTurns,   \* turns a session may hold
  MaxTexts,   \* pieces of text the model may write, over all turns
  MaxCalls,   \* calls of tools the model may make, over all turns
  MaxUnflushed, \* lines the CLI may have written ahead of the file
  MaxFaults,  \* calls of the hook that may fail
  MaxKills    \* kills of the workload

ASSUME BoundsAssumption ==
  {MaxTurns, MaxTexts, MaxCalls, MaxUnflushed, MaxFaults, MaxKills} \subseteq Nat

\* The agent CLI is claude, codex, or a codex of before turns were named.
Formats == {"claude", "codex", "old codex"}

VARIABLES
  format,    \* which CLI writes the transcript
  log,       \* the lines the CLI has written
  flushed,   \* how many of them are in the file
  cli,       \* "idle", in a "turn", waiting for its hook after a turn
             \* ("stopped") or at the session's end ("ending"), or "gone"
  hook,      \* where the hook is: "off", or at the call it makes next
  sent,      \* the turns it takes for sent
  fresh,     \* the turns it read and has to send
  sidecar,   \* the turns the sidecar names
  rows,      \* the spans the Tracing service holds, by identity
  early,     \* history: finished turns read before all their lines were there
  faults, kills

cliVars  == <<format, log, flushed, cli>>
hookVars == <<hook, sent, fresh>>
vars == <<cliVars, hookVars, sidecar, rows, early, faults, kills>>

File == SubSeq(log, 1, flushed)

Init ==
  /\ format \in Formats
  /\ log = <<>> /\ flushed = 0 /\ cli = "idle"
  /\ hook = "off" /\ sent = {} /\ fresh = {}
  /\ sidecar = {} /\ rows = [k \in {} |-> 0] /\ early = {}
  /\ faults = 0 /\ kills = 0

-----------------------------------------------------------------------------
(* The agent CLI, as far as its transcript and its hooks show it. *)

\* Where the lines of a kind are, and what the calls or results among them name.
Of(lines, kind) == {i \in DOMAIN lines : lines[i].kind = kind}

Names(lines, kind) == {lines[i].id : i \in Of(lines, kind)}

Turns(lines) == {lines[i].turn : i \in DOMAIN lines} \ {NoTurn}

Line(kind, t, s, c, n) ==
  [kind |-> kind, turn |-> t, step |-> s, id |-> c, tokens |-> n]

NoStep == <<0, 0>>
NoCall == 0

\* The calls of the turn in flight that have not returned.
Outstanding ==
  {log[i].id : i \in {j \in Of(log, "call") : log[j].turn = Last(log).turn}}
    \ Names(log, "result")

\* The message a new line of the model belongs to. Claude's next one begins
\* when the calls of the last have returned.
Message ==
  LET t == Last(log).turn
      steps == {log[i].step : i \in {j \in DOMAIN log : log[j].turn = t}} \ {NoStep}
  IN  IF format # "claude" THEN <<t, 0>>
      ELSE IF Last(log).kind \in {"text", "call"} THEN Last(log).step
      ELSE <<t, Cardinality(steps) + 1>>

\* The lines that are step s.
Answers(lines, s) ==
  {i \in DOMAIN lines : lines[i].kind \in {"text", "call"} /\ lines[i].step = s}

\* How many lines the message has, this one included: what claude counts its
\* usage by. Codex counts in lines of their own.
Tokens(s) == IF format # "claude" THEN 0 ELSE 1 + Cardinality(Answers(log, s))

\* A step that writes to the log, as far as it may be ahead of the file.
OnlyLog ==
  /\ Len(log') <= flushed + MaxUnflushed
  /\ UNCHANGED <<format, flushed, hookVars, sidecar, rows, early, faults, kills>>

\* The hook's process ends, and what it held with it.
Exits == hook' = "off" /\ sent' = {} /\ fresh' = {}

Ask ==
  LET t == Cardinality(Turns(log)) + 1
      delimiter == Line("context", IF format = "codex" THEN t ELSE NoTurn,
                        NoStep, NoCall, 0)
      prompt == Line("prompt", t, NoStep, NoCall, 0)
  IN  /\ cli = "idle" /\ t <= MaxTurns
      /\ log' = log \o IF format = "claude" THEN <<prompt>> ELSE <<delimiter, prompt>>
      /\ cli' = "turn"
      /\ OnlyLog

\* Codex may name the turn in flight again.
NameAgain ==
  /\ cli = "turn" /\ format = "codex" /\ Last(log).kind # "context"
  /\ ~\E i, j \in DOMAIN log : i < j /\ log[i].kind = "context"
                                /\ log[j].kind = "context" /\ log[i].turn = log[j].turn
  /\ log' = Append(log, Line("context", Last(log).turn, NoStep, NoCall, 0))
  /\ UNCHANGED cli /\ OnlyLog

MayAnswer == cli = "turn" /\ (Last(log).kind = "result" => Outstanding = {})

Write ==
  /\ MayAnswer /\ Cardinality(Of(log, "text")) < MaxTexts
  /\ log' = Append(log, Line("text", Last(log).turn, Message, NoCall, Tokens(Message)))
  /\ UNCHANGED cli /\ OnlyLog

Call ==
  LET c == Cardinality(Names(log, "call")) + 1
  IN  /\ MayAnswer /\ c <= MaxCalls
      /\ log' = Append(log, Line("call", Last(log).turn, Message, c, Tokens(Message)))
      /\ UNCHANGED cli /\ OnlyLog

Return ==
  \E c \in Outstanding :
    /\ cli = "turn"
    /\ log' = Append(log, Line("result", Last(log).turn, NoStep, c, 0))
    /\ UNCHANGED cli /\ OnlyLog

Flush ==
  /\ flushed < Len(log) /\ flushed' = flushed + 1
  /\ UNCHANGED <<format, log, cli, hookVars, sidecar, rows, early, faults, kills>>

\* The turn completes with the model's last text. Codex writes the usage and
\* all of the rollout before it runs the hook; claude runs it with lines still
\* unflushed.
Stop ==
  /\ cli = "turn" /\ Last(log).kind = "text"
  /\ IF format = "claude"
     THEN UNCHANGED <<log, flushed>>
     ELSE /\ log' = Append(log, Line("usage", Last(log).turn, NoStep, NoCall,
                                     Cardinality({i \in Of(log, "text") :
                                                    log[i].turn = Last(log).turn})))
          /\ flushed' = Len(log')
  /\ cli' = "stopped" /\ hook' = "load"
  /\ UNCHANGED <<format, sent, fresh, sidecar, rows, early, faults, kills>>

\* The session ends, between turns or in one.
SessionEnd ==
  /\ format = "claude" /\ cli \in {"idle", "turn"} /\ log # <<>>
  /\ cli' = "ending" /\ hook' = "load"
  /\ UNCHANGED <<format, log, flushed, sent, fresh, sidecar, rows, early, faults, kills>>

\* MUTANT: the CLI does not wait for its hook.
HookOverEarly ==
  /\ cli \in {"stopped", "ending"}
  /\ cli' = IF cli = "stopped" THEN "idle" ELSE "gone"
  /\ UNCHANGED <<format, log, flushed, hookVars, sidecar, rows, early, faults, kills>>

\* The CLI waits for its hook.
HookOver ==
  /\ cli \in {"stopped", "ending"} /\ hook = "off"
  /\ cli' = IF cli = "stopped" THEN "idle" ELSE "gone"
  /\ UNCHANGED <<format, log, flushed, hookVars, sidecar, rows, early, faults, kills>>

\* The workload is killed, and what was not flushed is lost with it.
Kill ==
  /\ kills < MaxKills /\ cli # "gone"
  /\ log' = File /\ cli' = "gone"
  /\ Exits
  /\ kills' = kills + 1
  /\ UNCHANGED <<format, flushed, sidecar, rows, early, faults>>

Resume ==
  /\ cli = "gone" /\ cli' = "idle"
  /\ UNCHANGED <<format, log, flushed, hookVars, sidecar, rows, early, faults, kills>>

-----------------------------------------------------------------------------
(* The hook: run, settledTurns, unsent, recordSent. *)

Unsent(turns) == {t \in Range(turns) : t.id \notin sent}

Finished(turns) == \E t \in turns : t.ended

\* Of the items a step was shown, those after the first known ones are new.
ContextEvents(step) == <<step.known, step.shown>>

ToolCallsAttr(calls) == [j \in DOMAIN calls |-> calls[j].id]

\* Exporter.turnSpans: a step and each of its calls is a span, under an identity
\* made of the turn's id and their places in it.
StepSpan(step) ==
  [of |-> step.id, said |-> step.said, usage |-> step.usage,
   calls |-> ToolCallsAttr(step.calls), context |-> ContextEvents(step)]

ToolSpan(call) == [of |-> call.id, done |-> call.done]

SpanIDs(turn) ==
  UNION {{<<turn.id, i, j>> : j \in 0..Len(turn.steps[i].calls)}
           : i \in DOMAIN turn.steps}

TurnSpans(turn) ==
  [k \in SpanIDs(turn) |->
     IF k[3] = 0 THEN StepSpan(turn.steps[k[2]])
                 ELSE ToolSpan(turn.steps[k[2]].calls[k[3]])]

\* MUTANT: a turn's spans are named by its place in the request.
LandedByPlace(turns) ==
  LET Place(t) == Cardinality({u \in turns : u.id <= t.id})
      placed   == {[t EXCEPT !.id = Place(t)] : t \in turns}
      made     == UNION {SpanIDs(t) : t \in placed}
  IN  [k \in DOMAIN rows \union made |->
         IF k \in made THEN TurnSpans(CHOOSE t \in placed : k \in SpanIDs(t))[k] ELSE rows[k]]

\* Exporter.Turns, as the service takes it: each span replaces the one of its
\* identity.
Landed(turns) ==
  LET made == UNION {SpanIDs(t) : t \in turns}
  IN  [k \in DOMAIN rows \union made |->
         IF k \in made THEN TurnSpans(CHOOSE t \in turns : k \in SpanIDs(t))[k] ELSE rows[k]]

\* loadSent. A sidecar that cannot be read is taken for empty.
LoadSent ==
  /\ hook = "load"
  /\ \/ sent' = sidecar /\ UNCHANGED faults
     \/ sent' = {} /\ faults < MaxFaults /\ faults' = faults + 1
  /\ hook' = "settle"
  /\ UNCHANGED <<cliVars, fresh, sidecar, rows, early, kills>>

\* Turns that look finished although lines of theirs are still to come.
ReadEarly(turns) ==
  {t.id : t \in {u \in turns :
     u.ended /\ \E m \in flushed + 1..Len(log) : log[m].turn = u.id}}

\* settledTurns reads until some turn it has not sent is finished. The reads
\* that find none change nothing.
Settle ==
  LET turns == Unsent(Parse(format, File))
  IN  /\ hook = "settle" /\ Finished(turns)
      /\ fresh' = turns /\ hook' = "export"
      /\ early' = early \union ReadEarly(turns)
      /\ UNCHANGED <<cliVars, sent, sidecar, rows, faults, kills>>

\* The deadline passes: what there is has to do, unless there is nothing.
GiveUp ==
  LET turns == Unsent(Parse(format, File))
  IN  /\ hook = "settle" /\ ~Finished(turns)
      /\ IF turns = {}
         THEN Exits
         ELSE fresh' = turns /\ hook' = "export" /\ UNCHANGED sent
      /\ UNCHANGED <<cliVars, sidecar, rows, early, faults, kills>>

\* The hook's payload or its transcript cannot be read, or the trace or its
\* exporter not be had.
Refused ==
  /\ hook \in {"load", "settle", "export"} /\ faults < MaxFaults
  /\ Exits /\ faults' = faults + 1
  /\ UNCHANGED <<cliVars, sidecar, rows, early, kills>>

Export ==
  /\ hook = "export" /\ rows' = Landed(fresh) /\ hook' = "truncate"
  /\ UNCHANGED <<cliVars, sent, fresh, sidecar, early, faults, kills>>

\* An export that fails may have landed all the same. Nothing is recorded.
ExportFails ==
  /\ hook = "export" /\ faults < MaxFaults
  /\ rows' = Landed(fresh) /\ Exits /\ faults' = faults + 1
  /\ UNCHANGED <<cliVars, sidecar, early, kills>>

\* recordSent: os.WriteFile truncates the sidecar and then writes it.
Truncate ==
  /\ hook = "truncate" /\ sidecar' = {} /\ hook' = "write"
  /\ UNCHANGED <<cliVars, sent, fresh, rows, early, faults, kills>>

\* MUTANT: a turn still running is recorded as sent.
RecordedAll(turns) == sent \union {t.id : t \in turns}

\* MUTANT: what was recorded before is not written back.
RecordedFresh(turns) == {t.id : t \in {u \in turns : u.ended}}

\* Every turn sent before, and of those just sent the ones that are over.
Recorded(turns) == sent \union {t.id : t \in {u \in turns : u.ended}}

RecordSent ==
  /\ hook = "write" /\ sidecar' = Recorded(fresh) /\ Exits
  /\ UNCHANGED <<cliVars, rows, early, faults, kills>>

\* The sidecar cannot be opened, or not be written once truncated.
RecordFails ==
  /\ hook \in {"truncate", "write"} /\ faults < MaxFaults
  /\ Exits /\ faults' = faults + 1
  /\ UNCHANGED <<cliVars, sidecar, rows, early, kills>>

Hook ==
  \/ LoadSent \/ Settle \/ GiveUp \/ Refused \/ Export \/ ExportFails
  \/ Truncate \/ RecordSent \/ RecordFails

Cli ==
  \/ Ask \/ NameAgain \/ Write \/ Call \/ Return \/ Flush \/ Stop
  \/ SessionEnd \/ HookOver \/ Kill \/ Resume

Next == Cli \/ Hook

Spec == Init /\ [][Next]_vars

-----------------------------------------------------------------------------
(* What the lines of a transcript say, without reading them in order: here each
   line knows its turn and its message, which a parser has to find out. *)

\* The lines by which the model works on turn t.
Works(lines, t) ==
  {i \in DOMAIN lines : /\ lines[i].turn = t
                        /\ \/ lines[i].kind \in {"text", "call"}
                           \/ format = "codex" /\ lines[i].kind = "prompt"}

Texts(lines, s) == {i \in Answers(lines, s) : lines[i].kind = "text"}

\* The calls that step s had made before line r.
CallsBefore(lines, s, r) ==
  {lines[i].id : i \in {j \in Answers(lines, s) : j < r /\ lines[j].kind = "call"}}

FirstOf(S) == CHOOSE i \in S : \A j \in S : i <= j

\* How many things the model has been shown, and had when it began step s.
Items(lines) ==
  {i \in DOMAIN lines : lines[i].kind \in {"prompt", "text", "call", "result"}}

ShownBefore(lines, s) ==
  Cardinality({i \in Items(lines) : i < FirstOf(Answers(lines, s))})

\* A call's result is kept unless the step, by the time it came, had made more
\* calls than there was room for when the call itself was made.
ResultKept(lines, s, c) ==
  \E r \in DOMAIN lines :
    /\ lines[r].kind = "result" /\ lines[r].id = c
    /\ LET calls == CallsBefore(lines, s, r)
       IN  Cardinality(calls) <= Capacity(Cardinality({d \in calls : d <= c}))

\* Claude counts in the lines of a message, codex once at the turn's end.
UsageOf(lines, s) ==
  IF format = "claude" THEN Cardinality(Answers(lines, s))
  ELSE IF \E i \in DOMAIN lines : lines[i].kind = "usage" /\ lines[i].turn = s[1]
       THEN Cardinality(Texts(lines, s))
       ELSE 0

StepAsWritten(lines, step) ==
  /\ step.said = Cardinality(Texts(lines, step.id))
  /\ {step.calls[j].id : j \in DOMAIN step.calls}
       = CallsBefore(lines, step.id, Len(lines) + 1)
  /\ \A j \in DOMAIN step.calls :
       /\ \A i \in 1..j - 1 : step.calls[i].id < step.calls[j].id
       /\ step.calls[j].done = ResultKept(lines, step.id, step.calls[j].id)
  /\ step.usage = UsageOf(lines, step.id)
  /\ step.shown = ShownBefore(lines, step.id)

TurnAsWritten(lines, turn) ==
  /\ turn.ended = (Works(lines, turn.id) # {})
  /\ {turn.steps[k].id : k \in DOMAIN turn.steps}
       = {lines[i].step : i \in Works(lines, turn.id)} \ {NoStep}
  /\ \A k \in DOMAIN turn.steps :
       /\ \A j \in 1..k - 1 : FirstOf(Answers(lines, turn.steps[j].id))
                                < FirstOf(Answers(lines, turn.steps[k].id))
       /\ StepAsWritten(lines, turn.steps[k])

\* The turns whose opening is there: codex's delimiter, else the prompt.
TurnsWritten(lines) ==
  {lines[i].turn : i \in {j \in DOMAIN lines :
     lines[j].kind = IF format = "codex" THEN "context" ELSE "prompt"}}

\* x is what the last step of the first n turns had been shown: 0 if there is none.
LastShown(turns, n, x) ==
  \/ x = 0 /\ \A m \in 1..n : turns[m].steps = <<>>
  \/ \E m \in 1..n :
       /\ turns[m].steps # <<>> /\ x = Last(turns[m].steps).shown
       /\ \A j \in m + 1..n : turns[j].steps = <<>>

\* The steps of a session in order: each was known what the one before had been
\* shown, so that each item is new to one step at most.
ContextsMeet(turns) ==
  \A n \in DOMAIN turns : \A k \in DOMAIN turns[n].steps :
    IF k = 1 THEN LastShown(turns, n - 1, turns[n].steps[k].known)
    ELSE turns[n].steps[k].known = turns[n].steps[k - 1].shown

-----------------------------------------------------------------------------
\* The type of the variables.
TypeOK ==
  /\ format \in Formats
  /\ \A i \in DOMAIN log :
       /\ log[i].kind \in {"context", "prompt", "text", "call", "result", "usage"}
       /\ log[i].turn \in 0..MaxTurns /\ log[i].id \in 0..MaxCalls
  /\ flushed \in 0..Len(log)
  /\ cli \in {"idle", "turn", "stopped", "ending", "gone"}
  /\ hook \in {"off", "load", "settle", "export", "truncate", "write"}
  /\ hook # "off" => cli \in {"stopped", "ending"}
  /\ {sent, sidecar, early} \subseteq SUBSET (1..MaxTurns)
  /\ \A t \in fresh : t.id \in 1..MaxTurns
  /\ \A k \in DOMAIN rows : k[1] \in 1..MaxTurns
  /\ faults \in 0..MaxFaults /\ kills \in 0..MaxKills

\* The spans of a turn as the service holds them, and as they ought to be.
Held(t) == [k \in {k \in DOMAIN rows : k[1] = t} |-> rows[k]]

Due(t) ==
  LET turns == Parse(format, File)
  IN  TurnSpans(turns[CHOOSE i \in DOMAIN turns : turns[i].id = t])

\* However its lines are interleaved, and wherever the file is cut off, a
\* transcript is read as it was written: each turn with its messages as steps,
\* each text and call in its step, each result at its call (unless its array was
\* left), the usage, and a context that begins where the last one ended.
ParsedAsWritten ==
  \E lines \in {File} : \E turns \in {Parse(format, lines)} :
    /\ {turns[n].id : n \in DOMAIN turns} = TurnsWritten(lines)
    /\ \A n \in DOMAIN turns : /\ \A m \in 1..n - 1 : turns[m].id < turns[n].id
                               /\ TurnAsWritten(lines, turns[n])
    /\ ContextsMeet(turns)

\* A turn that the sidecar names will not be exported again, so the service
\* holds all that the transcript says of it, whatever export failed, landed
\* unanswered or was cut off by a kill on the way; except for lines that were
\* not in the file when the hook read it.
RecordedWhole == \A t \in sidecar \ early : Held(t) = Due(t)

\* What a span describes never changes, and an export takes nothing back from
\* an earlier one: a resumed session, a retry or a lost sidecar lands on the
\* rows already written, and completes them.
RowsOnlyGrow ==
  [][\A k \in DOMAIN rows :
       /\ k \in DOMAIN rows' /\ rows'[k].of = rows[k].of
       /\ k[3] = 0 => /\ rows[k].said <= rows'[k].said
                      /\ rows[k].usage <= rows'[k].usage
                      /\ IsPrefix(rows[k].calls, rows'[k].calls)
                      /\ rows[k].context = rows'[k].context
       /\ k[3] > 0 => (rows[k].done => rows'[k].done)]_vars

\* A hook that gets as far as the sidecar leaves every turn in it of which the
\* service holds anything: what an earlier hook recorded, exported without
\* recording, or recorded in a sidecar since lost or unreadable.
SidecarMadeWhole ==
  [][hook = "write" /\ sidecar' # sidecar
       => \A k \in DOMAIN rows : k[1] \in sidecar']_vars

\* Once all of it is in the file, a turn that the sidecar names is exported
\* with its reply (main.go:216-218 and main_test.go:103-105).
NoReplyLost == flushed = Len(log) => \A t \in sidecar : Held(t) = Due(t)
=============================================================================
