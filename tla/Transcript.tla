----------------------------- MODULE Transcript -----------------------------
(***************************************************************************)
(* internal/transcript: the turns that a session's transcript tells of.    *)
(*                                                                         *)
(* A transcript is a sequence of lines, each a record:                     *)
(*   kind    what it carries: a "prompt", a "text" or a "call" of a tool by *)
(*           the model, the "result" of a call, and for codex a "context",  *)
(*           which names a turn, and "usage" counts                         *)
(*   turn    the turn the line belongs to                                   *)
(*   step    the model message it belongs to                                *)
(*   id      of a call or a result, the call                                *)
(*   tokens  the usage counted so far                                       *)
(* Wording is left out: a step's text is the number of pieces it was       *)
(* written in, its context the number of items the model had been shown.   *)
(* A line the parsers cannot decode is passed over, so a file read in the  *)
(* middle of a write is one that ends a line earlier.                      *)
(***************************************************************************)
EXTENDS Naturals, SequencesExt

\* How many calls the arrays hold that append gives a slice of them, as it grows
\* one call at a time. The language leaves them to the build.
CONSTANT Sizes

ASSUME SizesAssumption == Sizes \subseteq Nat

NoTurn == 0

\* Where a call's result will be written: a Go pointer to its element of a
\* step's slice. It is good while the slice has not moved to a larger array,
\* which append does when one is full, and only then: n calls are in the
\* smallest array that holds them. Past the largest, each call moves the slice.
Capacity(n) ==
  IF \E c \in Sizes : n <= c
  THEN CHOOSE c \in Sizes : n <= c /\ \A d \in Sizes : n <= d => c <= d
  ELSE n

\* What a parser holds: the turns read so far, of which the last is in flight;
\* the calls whose result has not been read; how many context items it has
\* seen, and how many the last step to open had been shown.
NothingRead == [turns |-> <<>>, pending |-> {}, seen |-> 0, sent |-> 0]

Current(p) == Last(p.turns)

\* history.add
Shown(p) == [p EXCEPT !.seen = @ + 1]

\* A turn that a prompt or a delimiter opens; the one in flight stays as it is.
Opened(p, t) ==
  [p EXCEPT !.turns = Append(@, [id |-> t, ended |-> FALSE, steps |-> <<>>])]

\* turn.EndedAt moves to each line that belongs to the turn's work.
Ended(p) == [p EXCEPT !.turns[Len(p.turns)].ended = TRUE]

StepIndex(p, s) ==
  CHOOSE k \in DOMAIN Current(p).steps : Current(p).steps[k].id = s

\* MUTANT: what a step was shown is not remembered.
SnapshotForgotten(p) == p

\* history.snapshot: what has been seen by now is new to nobody after.
Snapshot(p) == [p EXCEPT !.sent = p.seen]

\* The step s of the turn in flight, opened if it has no such step, with the
\* context as it stood before the model answered.
InStep(p, s) ==
  IF \E k \in DOMAIN Current(p).steps : Current(p).steps[k].id = s
  THEN p
  ELSE Snapshot([p EXCEPT !.turns[Len(p.turns)].steps =
                   Append(@, [id |-> s, said |-> 0, calls |-> <<>>, usage |-> 0,
                              known |-> p.sent, shown |-> p.seen])])

WithStep(p, n, k, step) == [p EXCEPT !.turns[n].steps[k] = step]

\* A text or a call added to step s, and to what the model will be shown.
Said(p, s) ==
  LET k == StepIndex(p, s)
  IN  Shown(WithStep(p, Len(p.turns), k, [Current(p).steps[k] EXCEPT !.said = @ + 1]))

Called(p, s, c) ==
  LET n    == Len(p.turns)
      k    == StepIndex(p, s)
      step == Current(p).steps[k]
      last == Len(step.calls) + 1
      on   == WithStep(p, n, k,
                       [step EXCEPT !.calls = Append(@, [id |-> c, done |-> FALSE])])
  IN  Shown([on EXCEPT !.pending = @ \union
               {[id |-> c, turn |-> n, step |-> k, call |-> last,
                 room |-> Capacity(last)]}])

Answered(p, l, s) ==
  IF l.kind = "text" THEN Said(InStep(p, s), s) ELSE Called(InStep(p, s), s, l.id)

\* Whether a call is still held where its step's calls are.
HeldThere(w, calls) == w.room = Capacity(Len(calls))

\* A result goes to the call it names, if that is still held. Through a pointer
\* into an array that the slice has left, it is written where nobody reads.
Returned(p, c) ==
  IF \A w \in p.pending : w.id # c
  THEN p
  ELSE LET w       == CHOOSE w \in p.pending : w.id = c
           step    == p.turns[w.turn].steps[w.step]
           current == HeldThere(w, step.calls)
           on      == WithStep(p, w.turn, w.step,
                               [step EXCEPT !.calls[w.call].done = @ \/ current])
       IN  Shown([on EXCEPT !.pending = @ \ {w}])

\* The usage of a step: Claude's is the highest that one of its lines reports,
\* codex's the last that was reported for the turn.
UsageAtLeast(p, s, n) ==
  LET k == StepIndex(p, s)
  IN  WithStep(p, Len(p.turns), k,
               [Current(p).steps[k] EXCEPT !.usage = IF n > @ THEN n ELSE @])

UsageIs(p, n) ==
  LET k == Len(Current(p).steps)
  IN  WithStep(p, Len(p.turns), k, [Current(p).steps[k] EXCEPT !.usage = n])

\* One line of a Claude transcript. A prompt opens a turn under its own id;
\* lines of one message are one step.
ClaudeLine(p, l) ==
  CASE l.kind = "prompt" -> Opened(Shown(p), l.turn)
    [] l.kind = "result" -> Returned(p, l.id)
    [] l.kind \in {"text", "call"} /\ p.turns # <<>> ->
         Ended(UsageAtLeast(Answered(p, l, l.step), l.step, l.tokens))
    [] OTHER -> p

\* Whether a rollout names its turns: else it is of an older codex, and each
\* prompt opens one.
HasCodexTurnIDs(lines) ==
  \E i \in DOMAIN lines : lines[i].kind = "context" /\ lines[i].turn # NoTurn

\* Codex does not delimit its model calls: all of a turn is one step.
CodexStep(p) == <<Current(p).id, 0>>

\* One line of a codex rollout. A delimiter that names the turn in flight again
\* opens nothing, and so does a prompt where delimiters do.
CodexLine(delimited, p, l) ==
  CASE l.kind = "context" /\ l.turn # NoTurn
         /\ (p.turns # <<>> => Current(p).id # l.turn) -> Opened(p, l.turn)
    [] l.kind = "prompt" /\ ~delimited -> Opened(Shown(p), l.turn)
    [] l.kind = "prompt" /\ delimited ->
         IF p.turns = <<>> THEN Shown(p) ELSE Ended(Shown(p))
    [] l.kind \in {"text", "call"} /\ p.turns # <<>> ->
         Ended(Answered(p, l, CodexStep(p)))
    [] l.kind = "result" /\ p.turns # <<>> ->
         Ended(Returned(InStep(p, CodexStep(p)), l.id))
    [] l.kind = "usage" /\ p.turns # <<>> ->
         IF Current(p).steps = <<>> THEN p ELSE UsageIs(p, l.tokens)
    [] OTHER -> p

LineRead(format, delimited, p, l) ==
  IF format = "claude" THEN ClaudeLine(p, l) ELSE CodexLine(delimited, p, l)

\* parseClaude and parseCodex: what the parser holds after each of the lines.
Reading(format, lines) ==
  LET delimited == HasCodexTurnIDs(lines)
      after[i \in 0..Len(lines)] ==
        IF i = 0 THEN NothingRead
        ELSE LineRead(format, delimited, after[i - 1], lines[i])
  IN  after

Parse(format, lines) == Reading(format, lines)[Len(lines)].turns
=============================================================================
