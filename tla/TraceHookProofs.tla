-------------------------- MODULE TraceHookProofs --------------------------
(***************************************************************************)
(* What TLAPS proves of TraceHook: the parsers make of a transcript what   *)
(* its lines say of themselves, what the hook records as sent the service  *)
(* holds whole, and what an export wrote no later one takes back. For      *)
(* sessions of any length and any format, any number of failures and       *)
(* kills, and a transcript read at any point of its writing.               *)
(*                                                                         *)
(* The first part is about reading on: a line keeps every turn, step and   *)
(* call read before it at its place. The second is about reading right:    *)
(* what the parser holds after each line is what the lines so far say.     *)
(***************************************************************************)
EXTENDS TraceHook, WellFoundedInduction, FiniteSetTheorems, TLAPS

-----------------------------------------------------------------------------
(* Induction, by the least number of which something fails. *)

LEMMA HasLeast ==
  ASSUME NEW S \in SUBSET Nat, S # {}
  PROVE  \E m \in S : \A k \in S : m <= k
<1> DEFINE R == {ss \in Nat \X Nat : ss[1] < ss[2]}
<1>1. IsWellFoundedOn(R, Nat)
  BY NatLessThanWellFounded DEF OpToRel
<1> HIDE DEF R
<1>2. PICK m \in S : \A k \in S : ~ (<<k, m>> \in R)
  BY <1>1, WFMin
<1>3. ASSUME NEW k \in S PROVE m <= k
  <2>1. <<k, m>> \in Nat \X Nat /\ ~(<<k, m>> \in R)
    BY <1>2
  <2>2. ~(k < m)
    BY <2>1 DEF R
  <2>3. QED
    BY <2>2
<1>4. QED
  BY <1>3

LEMMA HoldsForAll ==
  ASSUME NEW n \in Nat, NEW S \in SUBSET 0..n, 0 \in S,
         \A m \in S : m < n => m + 1 \in S
  PROVE  S = 0..n
<1> DEFINE T == 0..n \ S
<1> SUFFICES ASSUME T # {} PROVE FALSE
  OBVIOUS
<1>1. T \in SUBSET Nat
  OBVIOUS
<1> HIDE DEF T
<1>2. PICK m \in T : \A k \in T : m <= k
  BY <1>1, HasLeast
<1> USE DEF T
<1>3. m # 0 /\ m - 1 \in 0..n
  BY <1>2
<1>4. m - 1 \in S
  BY <1>2, <1>3
<1>5. QED
  BY <1>2, <1>3, <1>4

-----------------------------------------------------------------------------
(* What the parser holds after each line. *)

Follows(f, format_, d, lines, n) ==
  f = [i \in 0..n |-> IF i = 0 THEN NothingRead
                      ELSE LineRead(format_, d, f[i - 1], lines[i])]

LEMMA CanFollow ==
  ASSUME NEW format_, NEW d, NEW lines, NEW n \in Nat
  PROVE  \E f : Follows(f, format_, d, lines, n)
<1> DEFINE S == {m \in 0..n : \E f : Follows(f, format_, d, lines, m)}
<1>1. 0 \in S
  <2>1. PICK f : f = [i \in 0..0 |-> NothingRead]
    OBVIOUS
  <2>2. Follows(f, format_, d, lines, 0)
    BY <2>1 DEF Follows
  <2>3. QED
    BY <2>2
<1>2. ASSUME NEW m \in S, m < n PROVE m + 1 \in S
  <2>1. PICK f : Follows(f, format_, d, lines, m)
    OBVIOUS
  <2>2. PICK g : g = [i \in 0..m + 1 |-> IF i <= m THEN f[i]
                                         ELSE LineRead(format_, d, f[m], lines[m + 1])]
    OBVIOUS
  <2>3. \A i \in 0..m + 1 : g[i] = IF i = 0 THEN NothingRead
                                   ELSE LineRead(format_, d, g[i - 1], lines[i])
    BY <2>1, <2>2 DEF Follows
  <2>4. Follows(g, format_, d, lines, m + 1)
    BY <2>2, <2>3 DEF Follows
  <2>5. QED
    BY <1>2, <2>4
<1>3. S = 0..n
  <2> HIDE DEF S
  <2>1. S \in SUBSET (0..n)
    BY DEF S
  <2>2. QED
    BY <1>1, <1>2, <2>1, HoldsForAll
<1>4. QED
  BY <1>3

LEMMA FollowsOne ==
  ASSUME NEW format_, NEW d, NEW lines, NEW more, NEW n \in Nat, NEW m \in Nat, NEW f, NEW g,
         Follows(f, format_, d, lines, n), Follows(g, format_, d, more, m),
         NEW j \in 0..n, j <= m, \A i \in 1..j : lines[i] = more[i]
  PROVE  f[j] = g[j]
<1> DEFINE S == {i \in 0..j : f[i] = g[i]}
<1>1. 0 \in S
  BY DEF Follows
<1>2. ASSUME NEW i \in S, i < j PROVE i + 1 \in S
  <2>1. /\ f[i + 1] = LineRead(format_, d, f[i], lines[i + 1])
        /\ g[i + 1] = LineRead(format_, d, g[i], more[i + 1])
    BY <1>2 DEF Follows
  <2>2. lines[i + 1] = more[i + 1]
    BY <1>2
  <2>3. QED
    BY <1>2, <2>1, <2>2
<1>3. S = 0..j
  <2> HIDE DEF S
  <2>1. S \in SUBSET (0..j)
    BY DEF S
  <2>2. QED
    BY <1>1, <1>2, <2>1, HoldsForAll
<1>4. QED
  BY <1>3

LEMMA ReadingFollows ==
  ASSUME NEW format_, NEW lines, Len(lines) \in Nat
  PROVE  Follows(Reading(format_, lines), format_, HasCodexTurnIDs(lines), lines, Len(lines))
<1>1. PICK f : Follows(f, format_, HasCodexTurnIDs(lines), lines, Len(lines))
  BY CanFollow
<1>2. QED
  BY <1>1 DEF Follows, Reading

-----------------------------------------------------------------------------
(* What a line does to the turns read so far. *)

CallRecs == [id : Nat, done : BOOLEAN]
StepRecs == [id : Nat \X Nat, said : Nat, calls : Seq(CallRecs), usage : Nat,
             known : Nat, shown : Nat]
TurnRecs == [id : Nat, ended : BOOLEAN, steps : Seq(StepRecs)]

ParserOK(p) ==
  /\ p = [turns |-> p.turns, pending |-> p.pending, seen |-> p.seen, sent |-> p.sent]
  /\ p.turns \in Seq(TurnRecs) /\ p.seen \in Nat /\ p.sent \in Nat

StepGrows(a, b) ==
  /\ b.id = a.id /\ b.known = a.known /\ b.shown = a.shown
  /\ a.said <= b.said /\ a.usage <= b.usage /\ Len(a.calls) <= Len(b.calls)
  /\ \A j \in DOMAIN a.calls : /\ b.calls[j].id = a.calls[j].id
                               /\ a.calls[j].done => b.calls[j].done

TurnGrows(a, b) ==
  /\ b.id = a.id /\ (a.ended => b.ended) /\ Len(a.steps) <= Len(b.steps)
  /\ \A k \in DOMAIN a.steps : StepGrows(a.steps[k], b.steps[k])

\* Only the turns in which may change, and they grow.
Edits(p, q, which) ==
  /\ ParserOK(q) /\ Len(q.turns) = Len(p.turns)
  /\ \A n \in DOMAIN p.turns : /\ TurnGrows(p.turns[n], q.turns[n])
                               /\ n \notin which => q.turns[n] = p.turns[n]

LEMMA StepsGrow ==
  ASSUME NEW a \in StepRecs
  PROVE  StepGrows(a, a)
BY DEF StepGrows, StepRecs

LEMMA StepsGrowOn ==
  ASSUME NEW a \in StepRecs, NEW b \in StepRecs, NEW c \in StepRecs,
         StepGrows(a, b), StepGrows(b, c)
  PROVE  StepGrows(a, c)
<1>1. a.calls \in Seq(CallRecs) /\ b.calls \in Seq(CallRecs) /\ c.calls \in Seq(CallRecs)
  BY DEF StepRecs
<1>2. DOMAIN a.calls \subseteq DOMAIN b.calls /\ Len(a.calls) <= Len(c.calls)
  BY <1>1 DEF StepGrows
<1>3. QED
  BY <1>2 DEF StepGrows, StepRecs

LEMMA TurnsGrow ==
  ASSUME NEW a \in TurnRecs
  PROVE  TurnGrows(a, a)
<1>1. a.steps \in Seq(StepRecs)
  BY DEF TurnRecs
<1>2. \A k \in DOMAIN a.steps : a.steps[k] \in StepRecs
  BY <1>1
<1>3. QED
  BY <1>1, <1>2, StepsGrow DEF TurnGrows

LEMMA TurnsGrowOn ==
  ASSUME NEW a \in TurnRecs, NEW b \in TurnRecs, NEW c \in TurnRecs,
         TurnGrows(a, b), TurnGrows(b, c)
  PROVE  TurnGrows(a, c)
<1>1. a.steps \in Seq(StepRecs) /\ b.steps \in Seq(StepRecs) /\ c.steps \in Seq(StepRecs)
  BY DEF TurnRecs
<1>2. /\ DOMAIN a.steps \subseteq DOMAIN b.steps /\ Len(a.steps) <= Len(c.steps)
      /\ DOMAIN b.steps \subseteq DOMAIN c.steps
  BY <1>1 DEF TurnGrows
<1>3. ASSUME NEW k \in DOMAIN a.steps PROVE StepGrows(a.steps[k], c.steps[k])
  <2>1. a.steps[k] \in StepRecs /\ b.steps[k] \in StepRecs /\ c.steps[k] \in StepRecs
    BY <1>1, <1>2
  <2>2. StepGrows(a.steps[k], b.steps[k]) /\ StepGrows(b.steps[k], c.steps[k])
    BY <1>2 DEF TurnGrows
  <2>3. QED
    BY <2>1, <2>2, StepsGrowOn
<1>4. QED
  BY <1>2, <1>3 DEF TurnGrows

LEMMA TurnsAreTurns ==
  ASSUME NEW p, ParserOK(p)
  PROVE  /\ Len(p.turns) \in Nat /\ DOMAIN p.turns = 1..Len(p.turns)
         /\ \A n \in DOMAIN p.turns : p.turns[n] \in TurnRecs
BY DEF ParserOK

LEMMA EditsOn ==
  ASSUME NEW p, ParserOK(p), NEW q, NEW r, NEW which, Edits(p, q, which), Edits(q, r, which)
  PROVE  Edits(p, r, which)
<1>1. ParserOK(q) /\ ParserOK(r) /\ Len(r.turns) = Len(p.turns) /\ Len(q.turns) = Len(p.turns)
  BY DEF Edits
<1>2. DOMAIN q.turns = DOMAIN p.turns /\ DOMAIN r.turns = DOMAIN p.turns
  BY <1>1, TurnsAreTurns
<1>3. ASSUME NEW n \in DOMAIN p.turns
      PROVE  TurnGrows(p.turns[n], r.turns[n]) /\ (n \notin which => r.turns[n] = p.turns[n])
  <2>1. p.turns[n] \in TurnRecs /\ q.turns[n] \in TurnRecs /\ r.turns[n] \in TurnRecs
    BY <1>1, <1>2, TurnsAreTurns
  <2>2. TurnGrows(p.turns[n], q.turns[n]) /\ TurnGrows(q.turns[n], r.turns[n])
    BY <1>2 DEF Edits
  <2>3. n \notin which => r.turns[n] = p.turns[n]
    BY <1>2 DEF Edits
  <2>4. QED
    BY <2>1, <2>2, <2>3, TurnsGrowOn
<1>4. QED
  BY <1>1, <1>3 DEF Edits

\* p with t for its turn n.
WithTurn(p, n, t) == [p EXCEPT !.turns = [@ EXCEPT ![n] = t]]

LEMMA WithTurnEdits ==
  ASSUME NEW p, ParserOK(p), NEW n, n \in DOMAIN p.turns, NEW t, t \in TurnRecs,
         TurnGrows(p.turns[n], t)
  PROVE  /\ Edits(p, WithTurn(p, n, t), {n}) /\ WithTurn(p, n, t).turns[n] = t
         /\ WithTurn(p, n, t).pending = p.pending
         /\ WithTurn(p, n, t).seen = p.seen /\ WithTurn(p, n, t).sent = p.sent
<1>0. PICK q : q = WithTurn(p, n, t)
  OBVIOUS
<1>1. /\ q.turns = [p.turns EXCEPT ![n] = t]
      /\ q.pending = p.pending /\ q.seen = p.seen /\ q.sent = p.sent
      /\ q = [turns |-> q.turns, pending |-> q.pending, seen |-> q.seen, sent |-> q.sent]
  BY <1>0 DEF ParserOK, WithTurn
<1>2. p.turns \in Seq(TurnRecs)
  BY DEF ParserOK
<1>3. q.turns \in Seq(TurnRecs) /\ Len(q.turns) = Len(p.turns)
  BY <1>1, <1>2
<1>4. ParserOK(q)
  BY <1>1, <1>3 DEF ParserOK
<1>5. q.turns[n] = t /\ \A m \in DOMAIN p.turns \ {n} : q.turns[m] = p.turns[m]
  BY <1>1, <1>2
<1>6. \A m \in DOMAIN p.turns : TurnGrows(p.turns[m], q.turns[m])
  BY <1>5, TurnsGrow, TurnsAreTurns
<1>7. QED
  BY <1>0, <1>1, <1>3, <1>4, <1>5, <1>6 DEF Edits

LEMMA WithStepEdits ==
  ASSUME NEW p, ParserOK(p), NEW n \in DOMAIN p.turns, NEW k \in DOMAIN p.turns[n].steps,
         NEW step \in StepRecs, StepGrows(p.turns[n].steps[k], step)
  PROVE  LET q == WithStep(p, n, k, step)
         IN  /\ Edits(p, q, {n}) /\ q.pending = p.pending
             /\ q.turns[n].ended = p.turns[n].ended
             /\ q.turns[n].steps = [p.turns[n].steps EXCEPT ![k] = step]
<1>0. PICK q : q = WithStep(p, n, k, step)
  OBVIOUS
<1>1. p.turns[n] \in TurnRecs
  BY TurnsAreTurns
<1>2. PICK t : t = [p.turns[n] EXCEPT !.steps = [@ EXCEPT ![k] = step]]
  OBVIOUS
<1>3. /\ t.id = p.turns[n].id /\ t.ended = p.turns[n].ended
      /\ t.steps = [p.turns[n].steps EXCEPT ![k] = step]
      /\ p.turns[n].steps \in Seq(StepRecs)
  BY <1>1, <1>2 DEF TurnRecs
<1>4. t.steps \in Seq(StepRecs) /\ Len(t.steps) = Len(p.turns[n].steps)
  BY <1>3
<1>5. t \in TurnRecs
  BY <1>1, <1>2, <1>3, <1>4 DEF TurnRecs
<1>6. \A j \in DOMAIN p.turns[n].steps : StepGrows(p.turns[n].steps[j], t.steps[j])
  <2>1. \A j \in DOMAIN p.turns[n].steps : p.turns[n].steps[j] \in StepRecs
    BY <1>3
  <2>2. \A j \in DOMAIN p.turns[n].steps : t.steps[j] = IF j = k THEN step ELSE p.turns[n].steps[j]
    BY <1>3
  <2>3. QED
    BY <2>1, <2>2, StepsGrow
<1>7. TurnGrows(p.turns[n], t)
  BY <1>3, <1>4, <1>6 DEF TurnGrows
<1>8. q = WithTurn(p, n, t)
  BY <1>0, <1>2 DEF WithStep, WithTurn
<1>9. n \in DOMAIN p.turns /\ ParserOK(p)
  OBVIOUS
<1>10. /\ Edits(p, WithTurn(p, n, t), {n}) /\ WithTurn(p, n, t).turns[n] = t
       /\ WithTurn(p, n, t).pending = p.pending
       /\ WithTurn(p, n, t).seen = p.seen /\ WithTurn(p, n, t).sent = p.sent
  BY ONLY <1>5, <1>7, <1>9, WithTurnEdits
<1>11. QED
  BY <1>0, <1>3, <1>8, <1>10

LEMMA ShownEdits ==
  ASSUME NEW p, ParserOK(p), NEW which, NEW q, q = Shown(p)
  PROVE  Edits(p, q, which) /\ q.turns = p.turns /\ q.pending = p.pending
<1>1. ParserOK(q) /\ q.turns = p.turns /\ q.pending = p.pending
  BY DEF ParserOK, Shown
<1>2. QED
  BY <1>1, TurnsGrow, TurnsAreTurns DEF Edits

LEMMA EndedEdits ==
  ASSUME NEW p, ParserOK(p), p.turns # <<>>, NEW q, q = Ended(p)
  PROVE  /\ Edits(p, q, {Len(p.turns)}) /\ q.pending = p.pending
         /\ q.turns[Len(p.turns)].ended
         /\ q.turns[Len(p.turns)].steps = p.turns[Len(p.turns)].steps
<1>1. PICK n : n = Len(p.turns)
  OBVIOUS
<1>2. n \in DOMAIN p.turns /\ p.turns[n] \in TurnRecs
  BY <1>1 DEF ParserOK
<1>3. PICK t : t = [p.turns[n] EXCEPT !.ended = TRUE]
  OBVIOUS
<1>4. t \in TurnRecs /\ t.id = p.turns[n].id /\ t.ended /\ t.steps = p.turns[n].steps
  BY <1>2, <1>3 DEF TurnRecs
<1>5. TurnGrows(p.turns[n], p.turns[n])
  BY <1>2, TurnsGrow
<1>6. TurnGrows(p.turns[n], t)
  BY <1>4, <1>5 DEF TurnGrows
<1>7. q = WithTurn(p, n, t)
  BY <1>1, <1>3 DEF Ended, WithTurn
<1>8. Edits(p, q, {n}) /\ q.turns[n] = t /\ q.pending = p.pending
  BY <1>2, <1>4, <1>6, <1>7, WithTurnEdits
<1>9. QED
  BY <1>1, <1>4, <1>8

\* The step s of the turn in flight is there.
HasStep(p, s) == \E k \in DOMAIN Current(p).steps : Current(p).steps[k].id = s

LEMMA StepIsThere ==
  ASSUME NEW p, NEW s, HasStep(p, s)
  PROVE  StepIndex(p, s) \in DOMAIN Current(p).steps
BY DEF HasStep, StepIndex

LEMMA StepIsStep ==
  ASSUME NEW p, ParserOK(p), p.turns # <<>>
  PROVE  /\ Len(p.turns) \in DOMAIN p.turns /\ Current(p) = p.turns[Len(p.turns)]
         /\ Current(p) \in TurnRecs /\ Current(p).steps \in Seq(StepRecs)
         /\ \A k \in DOMAIN Current(p).steps : Current(p).steps[k] \in StepRecs
<1>1. Len(p.turns) \in DOMAIN p.turns /\ p.turns[Len(p.turns)] \in TurnRecs
  BY DEF ParserOK
<1>2. Current(p) = p.turns[Len(p.turns)]
  BY DEF Current, Last
<1>3. Current(p).steps \in Seq(StepRecs)
  BY <1>1, <1>2 DEF TurnRecs
<1>4. QED
  BY <1>1, <1>2, <1>3

LEMMA InStepEdits ==
  ASSUME NEW p, ParserOK(p), p.turns # <<>>, NEW s \in Nat \X Nat, NEW q, q = InStep(p, s)
  PROVE  Edits(p, q, {Len(p.turns)}) /\ q.pending = p.pending /\ HasStep(q, s)
<1>1. PICK n : n = Len(p.turns)
  OBVIOUS
<1>2. n \in DOMAIN p.turns /\ Current(p) = p.turns[n] /\ p.turns[n] \in TurnRecs
      /\ p.turns[n].steps \in Seq(StepRecs)
  BY <1>1, StepIsStep
<1>3. CASE HasStep(p, s)
  <2>1. q = p
    BY <1>3 DEF HasStep, InStep
  <2>2. QED
    BY <1>3, <2>1, TurnsGrow, TurnsAreTurns DEF Edits
<1>4. CASE ~HasStep(p, s)
  <2>1. PICK step : step = [id |-> s, said |-> 0, calls |-> <<>>, usage |-> 0,
                            known |-> p.sent, shown |-> p.seen]
    OBVIOUS
  <2>2. step \in StepRecs /\ step.id = s
    BY <2>1 DEF ParserOK, StepRecs
  <2>3. PICK t : t = [p.turns[n] EXCEPT !.steps = Append(@, step)]
    OBVIOUS
  <2>4. /\ t.id = p.turns[n].id /\ t.ended = p.turns[n].ended
        /\ t.steps = Append(p.turns[n].steps, step)
    BY <1>2, <2>3 DEF TurnRecs
  <2>5. /\ t.steps \in Seq(StepRecs) /\ Len(t.steps) = Len(p.turns[n].steps) + 1
        /\ t.steps[Len(t.steps)] = step
        /\ \A k \in DOMAIN p.turns[n].steps :
             t.steps[k] = p.turns[n].steps[k] /\ p.turns[n].steps[k] \in StepRecs
    BY <1>2, <2>2, <2>4
  <2>6. t \in TurnRecs
    BY <1>2, <2>3, <2>4, <2>5 DEF TurnRecs
  <2>7. TurnGrows(p.turns[n], t)
    <3>1. Len(p.turns[n].steps) \in Nat
      BY <1>2
    <3>2. \A k \in DOMAIN p.turns[n].steps : StepGrows(p.turns[n].steps[k], t.steps[k])
      BY <2>5, StepsGrow
    <3>3. t.id = p.turns[n].id /\ (p.turns[n].ended => t.ended)
      BY ONLY <2>4
    <3>4. Len(p.turns[n].steps) <= Len(t.steps)
      BY ONLY <2>5, <3>1, SMTT(30)
    <3>5. QED
      BY ONLY <3>2, <3>3, <3>4, Zenon DEF TurnGrows
  <2>8. PICK r : r = WithTurn(p, n, t)
    OBVIOUS
  <2>9. Edits(p, r, {n}) /\ r.turns[n] = t /\ r.pending = p.pending
    <3>1. ParserOK(p)
      OBVIOUS
    <3>2. QED
      BY ONLY <1>2, <2>6, <2>7, <2>8, <3>1, WithTurnEdits
  <2>10. q = Snapshot(r)
    BY <1>1, <1>4, <2>1, <2>3, <2>8 DEF HasStep, InStep, WithTurn
  <2>11. ParserOK(q) /\ q.turns = r.turns /\ q.pending = r.pending
    BY <2>9, <2>10 DEF Edits, ParserOK, Snapshot
  <2>12. Edits(p, q, {n})
    BY <2>9, <2>11 DEF Edits
  <2>13. Current(q) = t
    <3>1. Len(q.turns) = n
      BY <1>1, <2>12 DEF Edits
    <3>2. QED
      BY <2>9, <2>11, <3>1 DEF Current, Last
  <2>14. HasStep(q, s)
    <3>1. Len(t.steps) \in DOMAIN t.steps
      BY <1>2, <2>5
    <3>2. QED
      BY <2>2, <2>5, <2>13, <3>1 DEF HasStep
  <2>15. QED
    BY <1>1, <2>9, <2>11, <2>12, <2>14
<1>5. QED
  BY <1>3, <1>4

-----------------------------------------------------------------------------
(* Steps whose usage has not been counted stay so, but for the line that counts. *)

Uncounted(t) == \A k \in DOMAIN t.steps : t.steps[k].usage = 0

Quiet(p, q) == \A n \in DOMAIN p.turns : Uncounted(p.turns[n]) => Uncounted(q.turns[n])

\* Nothing opened and nothing ended.
Stays(p, q) ==
  \A n \in DOMAIN p.turns : /\ q.turns[n].ended = p.turns[n].ended
                            /\ DOMAIN q.turns[n].steps = DOMAIN p.turns[n].steps

LEMMA EditedQuietly ==
  ASSUME NEW p, NEW q, NEW n, Edits(p, q, {n}),
         Uncounted(p.turns[n]) => Uncounted(q.turns[n])
  PROVE  Quiet(p, q)
BY Zenon DEF Edits, Quiet

LEMMA QuietOn ==
  ASSUME NEW p, ParserOK(p), NEW q, NEW r, NEW which, Edits(p, q, which), Quiet(p, q), Quiet(q, r)
  PROVE  Quiet(p, r)
<1>1. DOMAIN q.turns = DOMAIN p.turns
  BY TurnsAreTurns DEF Edits
<1>2. QED
  BY <1>1 DEF Quiet

LEMMA SameTurnsQuiet ==
  ASSUME NEW p, NEW q, q.turns = p.turns
  PROVE  Quiet(p, q)
BY DEF Quiet

LEMMA WithStepQuiet ==
  ASSUME NEW p, ParserOK(p), NEW n \in DOMAIN p.turns, NEW k \in DOMAIN p.turns[n].steps,
         NEW step, NEW q, Edits(p, q, {n}),
         q.turns[n].steps = [p.turns[n].steps EXCEPT ![k] = step],
         step.usage = p.turns[n].steps[k].usage
  PROVE  Quiet(p, q)
<1>1. p.turns[n].steps \in Seq(StepRecs)
  BY TurnsAreTurns DEF TurnRecs
<1>2. Uncounted(p.turns[n]) => Uncounted(q.turns[n])
  BY <1>1 DEF Uncounted
<1>3. QED
  BY <1>2, EditedQuietly

-----------------------------------------------------------------------------
(* The edits of a step, each with what it leaves. *)

\* The step that an edit of the turn in flight goes to.
LEMMA StepInFlight ==
  ASSUME NEW p, ParserOK(p), p.turns # <<>>, NEW s, HasStep(p, s)
  PROVE  LET n == Len(p.turns)  k == StepIndex(p, s)
         IN  /\ n \in DOMAIN p.turns /\ k \in DOMAIN p.turns[n].steps
             /\ p.turns[n].steps[k] \in StepRecs /\ Current(p) = p.turns[n]
BY StepIsStep, StepIsThere

LEMMA ShownWaits ==
  ASSUME NEW p, ParserOK(p)
  PROVE  Shown(p).turns = p.turns /\ Shown(p).pending = p.pending
BY DEF ParserOK, Shown

LEMMA SaidEdits ==
  ASSUME NEW p, ParserOK(p), p.turns # <<>>, NEW s, HasStep(p, s), NEW q, q = Said(p, s)
  PROVE  Edits(p, q, {Len(p.turns)}) /\ Quiet(p, q) /\ q.pending = p.pending
<1>1. PICK n, k : n = Len(p.turns) /\ k = StepIndex(p, s)
  OBVIOUS
<1>2. /\ n \in DOMAIN p.turns /\ k \in DOMAIN p.turns[n].steps
      /\ p.turns[n].steps[k] \in StepRecs /\ Current(p) = p.turns[n]
  BY <1>1, StepInFlight
<1>3. PICK step : step = [p.turns[n].steps[k] EXCEPT !.said = @ + 1]
  OBVIOUS
<1>4. /\ step \in StepRecs /\ step.usage = p.turns[n].steps[k].usage
      /\ StepGrows(p.turns[n].steps[k], step)
  <2>1. PICK a : a = p.turns[n].steps[k]
    OBVIOUS
  <2>2. a \in StepRecs /\ step = [a EXCEPT !.said = @ + 1]
    BY <1>2, <1>3, <2>1
  <2>3. step \in StepRecs /\ StepGrows(a, step) /\ step.usage = a.usage
    BY ONLY <2>2, StepsGrow, SMTT(30) DEF StepRecs, StepGrows
  <2>4. QED
    BY <2>1, <2>3
<1>5. PICK r : r = WithStep(p, n, k, step)
  OBVIOUS
<1>6. ParserOK(p)
  OBVIOUS
<1>7. /\ Edits(p, r, {n}) /\ r.pending = p.pending
      /\ r.turns[n].steps = [p.turns[n].steps EXCEPT ![k] = step]
  BY ONLY <1>2, <1>4, <1>5, <1>6, WithStepEdits
<1>8. Quiet(p, r)
  BY ONLY <1>2, <1>4, <1>6, <1>7, WithStepQuiet
<1>9. q = Shown(r)
  BY <1>1, <1>2, <1>3, <1>5 DEF Said
<1>10. Edits(r, q, {n}) /\ q.turns = r.turns /\ q.pending = r.pending
  BY <1>7, <1>9, ShownEdits DEF Edits
<1>11. Edits(p, q, {n})
  BY ONLY <1>6, <1>7, <1>10, EditsOn
<1>12. Quiet(p, q)
  BY <1>8, <1>10 DEF Quiet
<1>13. QED
  BY <1>1, <1>7, <1>10, <1>11, <1>12

LEMMA UsageAtLeastEdits ==
  ASSUME NEW p, ParserOK(p), p.turns # <<>>, NEW s, HasStep(p, s), NEW u \in Nat,
         NEW q, q = UsageAtLeast(p, s, u)
  PROVE  Edits(p, q, {Len(p.turns)}) /\ q.pending = p.pending
<1>1. PICK n, k : n = Len(p.turns) /\ k = StepIndex(p, s)
  OBVIOUS
<1>2. /\ n \in DOMAIN p.turns /\ k \in DOMAIN p.turns[n].steps
      /\ p.turns[n].steps[k] \in StepRecs /\ Current(p) = p.turns[n]
  BY <1>1, StepInFlight
<1>3. PICK step : step = [p.turns[n].steps[k] EXCEPT !.usage = IF u > @ THEN u ELSE @]
  OBVIOUS
<1>4. step \in StepRecs /\ StepGrows(p.turns[n].steps[k], step)
  <2>1. PICK a : a = p.turns[n].steps[k]
    OBVIOUS
  <2>2. a \in StepRecs /\ step = [a EXCEPT !.usage = IF u > @ THEN u ELSE @] /\ u \in Nat
    BY <1>2, <1>3, <2>1
  <2>3. step \in StepRecs /\ StepGrows(a, step)
    BY ONLY <2>2, StepsGrow DEF StepRecs, StepGrows
  <2>4. QED
    BY <2>1, <2>3
<1>5. q = WithStep(p, n, k, step)
  BY <1>1, <1>2, <1>3 DEF UsageAtLeast
<1>6. ParserOK(p)
  OBVIOUS
<1>7. /\ Edits(p, q, {n}) /\ q.pending = p.pending
      /\ q.turns[n].steps = [p.turns[n].steps EXCEPT ![k] = step]
  BY ONLY <1>2, <1>4, <1>5, <1>6, WithStepEdits
<1>8. QED
  BY <1>1, <1>7

LEMMA UsageIsEdits ==
  ASSUME NEW p, ParserOK(p), p.turns # <<>>, Current(p).steps # <<>>, Uncounted(Current(p)),
         NEW u \in Nat, NEW q, q = UsageIs(p, u)
  PROVE  Edits(p, q, {Len(p.turns)}) /\ q.pending = p.pending /\ Stays(p, q)
<1>1. PICK n, k : n = Len(p.turns) /\ k = Len(Current(p).steps)
  OBVIOUS
<1>2. /\ n \in DOMAIN p.turns /\ k \in DOMAIN p.turns[n].steps
      /\ p.turns[n].steps[k] \in StepRecs /\ Current(p) = p.turns[n]
  BY <1>1, StepIsStep
<1>3. PICK step : step = [p.turns[n].steps[k] EXCEPT !.usage = u]
  OBVIOUS
<1>4. p.turns[n].steps[k].usage = 0
  BY <1>2 DEF Uncounted
<1>5. step \in StepRecs /\ StepGrows(p.turns[n].steps[k], step)
  <2>1. PICK a : a = p.turns[n].steps[k]
    OBVIOUS
  <2>2. a \in StepRecs /\ a.usage = 0 /\ step = [a EXCEPT !.usage = u] /\ u \in Nat
    BY <1>2, <1>3, <1>4, <2>1
  <2>3. step \in StepRecs /\ StepGrows(a, step)
    BY ONLY <2>2, StepsGrow DEF StepRecs, StepGrows
  <2>4. QED
    BY <2>1, <2>3
<1>6. q = WithStep(p, n, k, step)
  BY <1>1, <1>2, <1>3 DEF UsageIs
<1>7. ParserOK(p)
  OBVIOUS
<1>8. /\ Edits(p, q, {n}) /\ q.pending = p.pending /\ q.turns[n].ended = p.turns[n].ended
      /\ q.turns[n].steps = [p.turns[n].steps EXCEPT ![k] = step]
  BY ONLY <1>2, <1>5, <1>6, <1>7, WithStepEdits
<1>9. Stays(p, q)
  <2>1. DOMAIN q.turns[n].steps = DOMAIN p.turns[n].steps
    BY <1>8
  <2>2. \A m \in DOMAIN p.turns : m # n => q.turns[m] = p.turns[m]
    BY <1>8 DEF Edits
  <2>3. QED
    BY ONLY <1>8, <2>1, <2>2, Zenon DEF Stays
<1>10. QED
  BY <1>1, <1>8, <1>9

-----------------------------------------------------------------------------
(* The calls whose result is awaited. *)

WaitsOK(p) ==
  \A w \in p.pending :
    /\ w.turn \in DOMAIN p.turns /\ w.step \in DOMAIN p.turns[w.turn].steps
    /\ w.call \in DOMAIN p.turns[w.turn].steps[w.step].calls

LEMMA CallGrowsIn ==
  ASSUME NEW a, a \in StepRecs, NEW b, b \in StepRecs, StepGrows(a, b)
  PROVE  DOMAIN a.calls \subseteq DOMAIN b.calls
<1>1. a.calls \in Seq(CallRecs) /\ b.calls \in Seq(CallRecs)
  BY DEF StepRecs
<1>2. QED
  BY <1>1 DEF StepGrows

LEMMA StepsGrowIn ==
  ASSUME NEW a, a \in TurnRecs, NEW b, b \in TurnRecs, TurnGrows(a, b)
  PROVE  /\ DOMAIN a.steps \subseteq DOMAIN b.steps
         /\ \A k \in DOMAIN a.steps : DOMAIN a.steps[k].calls \subseteq DOMAIN b.steps[k].calls
<1>1. a.steps \in Seq(StepRecs) /\ b.steps \in Seq(StepRecs)
  BY DEF TurnRecs
<1>2. DOMAIN a.steps \subseteq DOMAIN b.steps
  BY <1>1 DEF TurnGrows
<1>3. ASSUME NEW k \in DOMAIN a.steps
      PROVE  DOMAIN a.steps[k].calls \subseteq DOMAIN b.steps[k].calls
  <2>1. a.steps[k] \in StepRecs /\ b.steps[k] \in StepRecs
    BY <1>1, <1>2
  <2>2. StepGrows(a.steps[k], b.steps[k])
    BY DEF TurnGrows
  <2>3. QED
    BY <2>1, <2>2, CallGrowsIn
<1>4. QED
  BY <1>2, <1>3

LEMMA WaitsKept ==
  ASSUME NEW p, ParserOK(p), WaitsOK(p), NEW q, NEW which, Edits(p, q, which),
         q.pending \subseteq p.pending
  PROVE  WaitsOK(q)
<1>1. DOMAIN q.turns = DOMAIN p.turns /\ ParserOK(q)
  BY TurnsAreTurns DEF Edits
<1>2. ASSUME NEW w \in q.pending
      PROVE  /\ w.turn \in DOMAIN q.turns /\ w.step \in DOMAIN q.turns[w.turn].steps
             /\ w.call \in DOMAIN q.turns[w.turn].steps[w.step].calls
  <2>1. /\ w.turn \in DOMAIN p.turns /\ w.step \in DOMAIN p.turns[w.turn].steps
        /\ w.call \in DOMAIN p.turns[w.turn].steps[w.step].calls
    BY DEF WaitsOK
  <2>2. p.turns[w.turn] \in TurnRecs /\ q.turns[w.turn] \in TurnRecs
    BY <1>1, <2>1, TurnsAreTurns
  <2>3. TurnGrows(p.turns[w.turn], q.turns[w.turn])
    BY <2>1 DEF Edits
  <2>4. /\ DOMAIN p.turns[w.turn].steps \subseteq DOMAIN q.turns[w.turn].steps
        /\ \A k \in DOMAIN p.turns[w.turn].steps :
             DOMAIN p.turns[w.turn].steps[k].calls \subseteq DOMAIN q.turns[w.turn].steps[k].calls
    BY ONLY <2>2, <2>3, StepsGrowIn
  <2>5. QED
    BY <1>1, <2>1, <2>4
<1>3. QED
  BY <1>2 DEF WaitsOK

LEMMA OneMore ==
  ASSUME NEW S, NEW s, s \in Seq(S), NEW e, e \in S, NEW t, t = Append(s, e)
  PROVE  /\ t \in Seq(S) /\ Len(s) \in Nat /\ Len(t) = Len(s) + 1 /\ Len(s) <= Len(t)
         /\ Len(t) \in DOMAIN t /\ t[Len(t)] = e /\ \A j \in DOMAIN s : t[j] = s[j]
OBVIOUS

\* What is awaited was before, or is the call c of the turn in flight.
AwaitsToo(p, q, c) ==
  \A w \in q.pending : w \in p.pending \/ (w.id = c /\ w.turn = Len(p.turns))

LEMMA CalledEdits ==
  ASSUME NEW p, ParserOK(p), p.turns # <<>>, WaitsOK(p), NEW s, HasStep(p, s),
         NEW c \in Nat, NEW q, q = Called(p, s, c)
  PROVE  Edits(p, q, {Len(p.turns)}) /\ Quiet(p, q) /\ WaitsOK(q) /\ AwaitsToo(p, q, c)
<1>1. PICK n, k : n = Len(p.turns) /\ k = StepIndex(p, s)
  OBVIOUS
<1>2. /\ n \in DOMAIN p.turns /\ k \in DOMAIN p.turns[n].steps
      /\ p.turns[n].steps[k] \in StepRecs /\ Current(p) = p.turns[n]
  BY <1>1, StepInFlight
<1>3. PICK step, call : /\ call = [id |-> c, done |-> FALSE]
                        /\ step = [p.turns[n].steps[k] EXCEPT !.calls = Append(@, call)]
  OBVIOUS
<1>4. /\ step.calls = Append(p.turns[n].steps[k].calls, call) /\ call \in CallRecs
      /\ p.turns[n].steps[k].calls \in Seq(CallRecs)
      /\ step.usage = p.turns[n].steps[k].usage
  BY <1>2, <1>3 DEF StepRecs, CallRecs
<1>5. /\ step.calls \in Seq(CallRecs)
      /\ Len(step.calls) = Len(p.turns[n].steps[k].calls) + 1
      /\ Len(p.turns[n].steps[k].calls) <= Len(step.calls)
      /\ Len(step.calls) \in DOMAIN step.calls
      /\ \A j \in DOMAIN p.turns[n].steps[k].calls :
           step.calls[j] = p.turns[n].steps[k].calls[j]
  <2>1. PICK was, is : was = p.turns[n].steps[k].calls /\ is = step.calls
    OBVIOUS
  <2>2. was \in Seq(CallRecs) /\ call \in CallRecs /\ is = Append(was, call)
    BY <1>4, <2>1
  <2>3. /\ is \in Seq(CallRecs) /\ Len(was) \in Nat /\ Len(is) = Len(was) + 1
        /\ Len(was) <= Len(is) /\ Len(is) \in DOMAIN is
        /\ is[Len(is)] = call /\ \A j \in DOMAIN was : is[j] = was[j]
    BY ONLY <2>2, OneMore
  <2>4. QED
    BY <2>1, <2>3
<1>6. step \in StepRecs
  BY <1>2, <1>3, <1>4, <1>5 DEF StepRecs
<1>7. StepGrows(p.turns[n].steps[k], step)
  <2>1. /\ step.id = p.turns[n].steps[k].id /\ step.known = p.turns[n].steps[k].known
        /\ step.shown = p.turns[n].steps[k].shown
        /\ p.turns[n].steps[k].said <= step.said /\ p.turns[n].steps[k].usage <= step.usage
    BY <1>2, <1>3 DEF StepRecs
  <2>2. Len(p.turns[n].steps[k].calls) <= Len(step.calls)
    BY <1>5
  <2>3. QED
    BY ONLY <1>5, <2>1, <2>2, Zenon DEF StepGrows
<1>8. PICK r : r = WithStep(p, n, k, step)
  OBVIOUS
<1>9. ParserOK(p)
  OBVIOUS
<1>10. /\ Edits(p, r, {n}) /\ r.pending = p.pending
       /\ r.turns[n].steps = [p.turns[n].steps EXCEPT ![k] = step]
  BY ONLY <1>2, <1>6, <1>7, <1>8, <1>9, WithStepEdits
<1>11. Quiet(p, r)
  BY ONLY <1>2, <1>4, <1>9, <1>10, WithStepQuiet
<1>12. PICK w : w = [id |-> c, turn |-> n, step |-> k, call |-> Len(step.calls),
                     room |-> Capacity(Len(step.calls))]
  OBVIOUS
<1>13. PICK on : on = [r EXCEPT !.pending = @ \union {w}]
  OBVIOUS
<1>14. q = Shown(on)
  BY <1>1, <1>2, <1>3, <1>5, <1>8, <1>12, <1>13 DEF Called
<1>15. ParserOK(on) /\ on.turns = r.turns /\ on.pending = p.pending \union {w}
  BY <1>10, <1>13 DEF Edits, ParserOK
<1>16. Edits(on, q, {n}) /\ q.turns = on.turns /\ q.pending = on.pending
  BY <1>14, <1>15, ShownEdits
<1>17. Edits(p, q, {n})
  <2>1. ParserOK(q)
    BY <1>16 DEF Edits
  <2>2. QED
    BY <1>10, <1>15, <1>16, <2>1 DEF Edits
<1>18. Quiet(p, q)
  BY <1>11, <1>15, <1>16 DEF Quiet
<1>19. WaitsOK(r)
  BY <1>10, WaitsKept
<1>20. WaitsOK(q)
  <2>1. p.turns[n].steps \in Seq(StepRecs)
    BY <1>2, TurnsAreTurns DEF TurnRecs
  <2>2. r.turns[n].steps[k] = step /\ k \in DOMAIN r.turns[n].steps
    BY <1>2, <1>10, <2>1
  <2>3. n \in DOMAIN r.turns
    BY <1>2, <1>10, TurnsAreTurns DEF Edits
  <2>4. Len(step.calls) \in DOMAIN step.calls
    BY <1>5
  <2>5. w.turn = n /\ w.step = k /\ w.call = Len(step.calls)
    BY <1>12
  <2>6. \A v \in q.pending : v \in r.pending \/ v = w
    BY <1>10, <1>15, <1>16
  <2>7. q.turns = r.turns
    BY <1>15, <1>16
  <2>8. QED
    BY ONLY <1>19, <2>2, <2>3, <2>4, <2>5, <2>6, <2>7 DEF WaitsOK
<1>21. \A v \in q.pending : v \in p.pending \/ (v.id = c /\ v.turn = n)
  BY <1>12, <1>15, <1>16
<1>22. QED
  BY <1>1, <1>17, <1>18, <1>20, <1>21 DEF AwaitsToo

LEMMA ReturnedEdits ==
  ASSUME NEW p, ParserOK(p), WaitsOK(p), NEW c, NEW q, q = Returned(p, c)
  PROVE  /\ \E which : /\ Edits(p, q, which)
                       /\ \A n \in which : \E w \in p.pending : w.id = c /\ w.turn = n
         /\ Quiet(p, q) /\ Stays(p, q) /\ q.pending \subseteq p.pending
<1>1. CASE \A w \in p.pending : w.id # c
  <2>1. q = p
    BY <1>1 DEF Returned, HeldThere
  <2>2. Edits(p, q, {})
    BY <2>1, TurnsGrow, TurnsAreTurns DEF Edits
  <2>3. Quiet(p, q) /\ Stays(p, q)
    BY <2>1 DEF Quiet, Stays
  <2>4. QED
    BY <2>1, <2>2, <2>3
<1>2. CASE ~ \A w \in p.pending : w.id # c
  <2>1. PICK w : w = CHOOSE v \in p.pending : v.id = c
    OBVIOUS
  <2>2. w \in p.pending /\ w.id = c
    BY <1>2, <2>1
  <2>3. PICK n, k, j : n = w.turn /\ k = w.step /\ j = w.call
    OBVIOUS
  <2>4. /\ n \in DOMAIN p.turns /\ k \in DOMAIN p.turns[n].steps
        /\ j \in DOMAIN p.turns[n].steps[k].calls
    BY <2>2, <2>3 DEF WaitsOK
  <2>5. p.turns[n].steps \in Seq(StepRecs) /\ p.turns[n].steps[k] \in StepRecs
    BY <2>4, TurnsAreTurns DEF TurnRecs
  <2>6. PICK was : was = p.turns[n].steps[k].calls
    OBVIOUS
  <2>7. was \in Seq(CallRecs) /\ was[j] \in CallRecs
    BY <2>4, <2>5, <2>6 DEF StepRecs
  <2>8. PICK current : current = (w.room = Capacity(Len(was)))
    OBVIOUS
  <2>9. PICK done : done = (was[j].done \/ current)
    OBVIOUS
  <2>10. PICK call : call = [was[j] EXCEPT !.done = done]
    OBVIOUS
  <2>11. done \in BOOLEAN /\ (was[j].done => done)
    BY <2>9, Zenon
  <2>12. call \in CallRecs /\ call.id = was[j].id /\ call.done = done
    BY <2>7, <2>10, <2>11 DEF CallRecs
  <2>13. PICK is : is = [was EXCEPT ![j] = call]
    OBVIOUS
  <2>14. /\ is \in Seq(CallRecs) /\ Len(is) = Len(was) /\ Len(was) \in Nat
         /\ DOMAIN is = DOMAIN was
         /\ \A i \in DOMAIN was : is[i] = IF i = j THEN call ELSE was[i]
    <3>1. was \in Seq(CallRecs) /\ call \in CallRecs /\ is = [was EXCEPT ![j] = call]
      BY <2>7, <2>12, <2>13
    <3>2. Len(was) \in Nat /\ was \in [1..Len(was) -> CallRecs]
      BY ONLY <3>1
    <3>3. /\ is \in [1..Len(was) -> CallRecs]
          /\ \A i \in 1..Len(was) : is[i] = IF i = j THEN call ELSE was[i]
      BY ONLY <3>1, <3>2
    <3>4. is \in Seq(CallRecs) /\ Len(is) = Len(was)
      BY ONLY <3>2, <3>3
    <3>5. QED
      BY ONLY <3>2, <3>3, <3>4
  <2>15. PICK step : step = [p.turns[n].steps[k] EXCEPT !.calls = is]
    OBVIOUS
  <2>16. step \in StepRecs /\ step.usage = p.turns[n].steps[k].usage /\ step.calls = is
    BY <2>5, <2>14, <2>15 DEF StepRecs
  <2>17. StepGrows(p.turns[n].steps[k], step)
    <3>1. /\ step.id = p.turns[n].steps[k].id /\ step.known = p.turns[n].steps[k].known
          /\ step.shown = p.turns[n].steps[k].shown
          /\ p.turns[n].steps[k].said <= step.said /\ p.turns[n].steps[k].usage <= step.usage
      <4>1. PICK a : a = p.turns[n].steps[k]
        OBVIOUS
      <4>2. a \in StepRecs
        BY <2>5, <4>1
      <4>3. step = [a EXCEPT !.calls = is]
        BY <2>15, <4>1
      <4>4. step = [id |-> a.id, said |-> a.said, calls |-> is, usage |-> a.usage,
                    known |-> a.known, shown |-> a.shown]
        BY ONLY <4>2, <4>3 DEF StepRecs
      <4>5. a.said \in Nat /\ a.usage \in Nat
        BY ONLY <4>2 DEF StepRecs
      <4>6. QED
        BY ONLY <4>1, <4>4, <4>5
    <3>2. Len(was) <= Len(is)
      BY <2>14
    <3>3. ASSUME NEW i \in DOMAIN was
          PROVE  is[i].id = was[i].id /\ (was[i].done => is[i].done)
      <4>1. CASE i = j
        <5>1. is[i] = call
          BY <2>14, <4>1
        <5>2. QED
          BY <2>11, <2>12, <4>1, <5>1, Zenon
      <4>2. CASE i # j
        <5>1. is[i] = was[i]
          BY <2>14, <4>2
        <5>2. QED
          BY <5>1, Zenon
      <4>3. QED
        BY <4>1, <4>2
    <3>4. QED
      BY ONLY <2>6, <2>16, <3>1, <3>2, <3>3, Zenon DEF StepGrows
  <2>18. PICK r : r = WithStep(p, n, k, step)
    OBVIOUS
  <2>19. ParserOK(p)
    OBVIOUS
  <2>20. /\ Edits(p, r, {n}) /\ r.pending = p.pending
         /\ r.turns[n].ended = p.turns[n].ended
         /\ r.turns[n].steps = [p.turns[n].steps EXCEPT ![k] = step]
    BY ONLY <2>4, <2>16, <2>17, <2>18, <2>19, WithStepEdits
  <2>21. Quiet(p, r)
    BY ONLY <2>4, <2>16, <2>19, <2>20, WithStepQuiet
  <2>22. PICK on : on = [r EXCEPT !.pending = @ \ {w}]
    OBVIOUS
  <2>23. q = Shown(on)
    <3>1. step = [p.turns[w.turn].steps[w.step] EXCEPT !.calls[w.call].done =
                    @ \/ w.room = Capacity(Len(p.turns[w.turn].steps[w.step].calls))]
      BY <2>3, <2>6, <2>8, <2>9, <2>10, <2>13, <2>15
    <3>2. r = WithStep(p, w.turn, w.step, step)
      BY <2>3, <2>18
    <3>3. QED
      BY <1>2, <2>1, <2>22, <3>1, <3>2 DEF Returned, HeldThere
  <2>24. ParserOK(on) /\ on.turns = r.turns /\ on.pending = p.pending \ {w}
    BY <2>20, <2>22 DEF Edits, ParserOK
  <2>25. Edits(on, q, {n}) /\ q.turns = on.turns /\ q.pending = on.pending
    BY <2>23, <2>24, ShownEdits
  <2>26. Edits(p, q, {n})
    <3>1. ParserOK(q)
      BY <2>25 DEF Edits
    <3>2. QED
      BY <2>20, <2>24, <2>25, <3>1 DEF Edits
  <2>27. Quiet(p, q)
    BY <2>21, <2>24, <2>25 DEF Quiet
  <2>28. Stays(p, q)
    <3>1. DOMAIN r.turns[n].steps = DOMAIN p.turns[n].steps
      BY <2>20
    <3>2. \A m \in DOMAIN p.turns : m # n => r.turns[m] = p.turns[m]
      BY <2>20 DEF Edits
    <3>3. q.turns = r.turns
      BY <2>24, <2>25
    <3>4. QED
      BY ONLY <2>20, <3>1, <3>2, <3>3, Zenon DEF Stays
  <2>29. q.pending \subseteq p.pending
    BY <2>24, <2>25
  <2>30. \A m \in {n} : \E v \in p.pending : v.id = c /\ v.turn = m
    BY <2>2, <2>3
  <2>31. QED
    BY <2>26, <2>27, <2>28, <2>29, <2>30
<1>3. QED
  BY <1>1, <1>2

-----------------------------------------------------------------------------
(* The edits that make up a line. *)

LEMMA EditsKeepCurrent ==
  ASSUME NEW p, ParserOK(p), p.turns # <<>>, NEW q, NEW which, Edits(p, q, which)
  PROVE  /\ ParserOK(q) /\ q.turns # <<>> /\ Len(q.turns) = Len(p.turns)
         /\ Current(q).id = Current(p).id
         /\ \A s : HasStep(p, s) => HasStep(q, s)
<1>1. ParserOK(q) /\ Len(q.turns) = Len(p.turns)
  BY DEF Edits
<1>2. p.turns \in Seq(TurnRecs) /\ q.turns \in Seq(TurnRecs)
  BY <1>1 DEF ParserOK
<1>3. q.turns # <<>>
  BY <1>1, <1>2
<1>4. PICK a, b : a = Current(p) /\ b = Current(q)
  OBVIOUS
<1>5. a \in TurnRecs /\ b \in TurnRecs
  BY <1>1, <1>3, <1>4, StepIsStep
<1>6. a = p.turns[Len(p.turns)] /\ b = q.turns[Len(p.turns)] /\ Len(p.turns) \in DOMAIN p.turns
  BY <1>1, <1>3, <1>4, StepIsStep
<1>7. TurnGrows(a, b)
  BY <1>6 DEF Edits
<1>8. DOMAIN a.steps \subseteq DOMAIN b.steps
  BY ONLY <1>5, <1>7, StepsGrowIn
<1>9. b.id = a.id /\ \A k \in DOMAIN a.steps : b.steps[k].id = a.steps[k].id
  BY <1>7 DEF TurnGrows, StepGrows
<1>10. \A s : HasStep(p, s) => HasStep(q, s)
  BY <1>4, <1>8, <1>9 DEF HasStep
<1>11. QED
  BY <1>1, <1>3, <1>4, <1>9, <1>10

LEMMA InStepQuiet ==
  ASSUME NEW p, ParserOK(p), p.turns # <<>>, NEW s \in Nat \X Nat, NEW q, q = InStep(p, s)
  PROVE  Quiet(p, q)
<1>1. PICK n : n = Len(p.turns)
  OBVIOUS
<1>2. n \in DOMAIN p.turns /\ Current(p) = p.turns[n] /\ p.turns[n] \in TurnRecs
      /\ p.turns[n].steps \in Seq(StepRecs)
  BY <1>1, StepIsStep
<1>3. Edits(p, q, {n})
  BY <1>1, InStepEdits
<1>4. CASE HasStep(p, s)
  <2>1. q = p
    BY <1>4 DEF HasStep, InStep
  <2>2. QED
    BY <2>1 DEF Quiet
<1>5. CASE ~HasStep(p, s)
  <2>1. PICK step : step = [id |-> s, said |-> 0, calls |-> <<>>, usage |-> 0,
                            known |-> p.sent, shown |-> p.seen]
    OBVIOUS
  <2>2. q = Snapshot([p EXCEPT !.turns[n].steps = Append(@, step)])
    BY <1>1, <1>5, <2>1 DEF HasStep, InStep
  <2>3. q.turns = [p.turns EXCEPT ![n].steps = Append(@, step)]
    BY <2>2 DEF ParserOK, Snapshot
  <2>4. p.turns \in Seq(TurnRecs)
    BY DEF ParserOK
  <2>5. q.turns[n] = [p.turns[n] EXCEPT !.steps = Append(@, step)]
    BY <1>2, <2>3, <2>4
  <2>6. q.turns[n].steps = Append(p.turns[n].steps, step)
    BY <1>2, <2>5 DEF TurnRecs
  <2>7. PICK was, is : was = p.turns[n].steps /\ is = q.turns[n].steps
    OBVIOUS
  <2>8. step \in StepRecs /\ step.usage = 0
    BY <2>1 DEF ParserOK, StepRecs
  <2>9. was \in Seq(StepRecs) /\ is = Append(was, step)
    BY <1>2, <2>6, <2>7
  <2>10. \A k \in DOMAIN is : is[k] = step \/ (k \in DOMAIN was /\ is[k] = was[k])
    BY ONLY <2>8, <2>9
  <2>11. Uncounted(p.turns[n]) => Uncounted(q.turns[n])
    BY ONLY <2>7, <2>8, <2>10, Zenon DEF Uncounted
  <2>12. QED
    BY ONLY <1>3, <2>11, EditedQuietly
<1>6. QED
  BY <1>4, <1>5

LEMMA EndedQuiet ==
  ASSUME NEW p, ParserOK(p), p.turns # <<>>, NEW q, q = Ended(p)
  PROVE  Quiet(p, q)
<1>1. PICK n : n = Len(p.turns)
  OBVIOUS
<1>2. Edits(p, q, {n}) /\ q.turns[n].steps = p.turns[n].steps
  BY <1>1, EndedEdits
<1>3. Uncounted(p.turns[n]) => Uncounted(q.turns[n])
  BY ONLY <1>2, Zenon DEF Uncounted
<1>4. QED
  BY ONLY <1>2, <1>3, EditedQuietly

LEMMA AnsweredEdits ==
  ASSUME NEW p, ParserOK(p), p.turns # <<>>, WaitsOK(p), NEW l, l.id \in Nat,
         l.kind \in {"text", "call"},
         NEW s \in Nat \X Nat, NEW q, q = Answered(p, l, s)
  PROVE  /\ Edits(p, q, {Len(p.turns)}) /\ Quiet(p, q) /\ WaitsOK(q) /\ HasStep(q, s)
         /\ AwaitsToo(p, q, l.id) /\ (l.kind # "call" => q.pending \subseteq p.pending)
<1>1. PICK r, n : r = InStep(p, s) /\ n = Len(p.turns)
  OBVIOUS
<1>2. Edits(p, r, {n}) /\ r.pending = p.pending /\ HasStep(r, s) /\ Quiet(p, r)
  BY <1>1, InStepEdits, InStepQuiet
<1>3. ParserOK(r) /\ r.turns # <<>> /\ Len(r.turns) = n
  BY <1>1, <1>2, EditsKeepCurrent
<1>4. WaitsOK(r)
  BY <1>2, WaitsKept
<1>5. /\ Edits(r, q, {n}) /\ Quiet(r, q) /\ WaitsOK(q)
      /\ AwaitsToo(p, q, l.id) /\ (l.kind # "call" => q.pending \subseteq p.pending)
  <2>1. CASE l.kind = "text"
    <3>1. q = Said(r, s)
      BY <1>1, <2>1 DEF Answered
    <3>2. Edits(r, q, {n}) /\ Quiet(r, q) /\ q.pending = r.pending
      BY ONLY <1>2, <1>3, <3>1, SaidEdits
    <3>3. WaitsOK(q)
      BY ONLY <1>3, <1>4, <3>2, WaitsKept
    <3>4. QED
      BY <1>2, <3>2, <3>3 DEF AwaitsToo
  <2>2. CASE l.kind # "text"
    <3>1. q = Called(r, s, l.id)
      BY <1>1, <2>2 DEF Answered
    <3>2. PICK c : c = l.id
      OBVIOUS
    <3>3. c \in Nat /\ q = Called(r, s, c)
      BY <3>1, <3>2
    <3>4. Edits(r, q, {n}) /\ Quiet(r, q) /\ WaitsOK(q) /\ AwaitsToo(r, q, c)
      <4>1. ParserOK(r) /\ r.turns # <<>> /\ WaitsOK(r) /\ HasStep(r, s)
        BY <1>2, <1>3, <1>4
      <4>2. /\ Edits(r, q, {Len(r.turns)}) /\ Quiet(r, q) /\ WaitsOK(q)
            /\ AwaitsToo(r, q, c)
        BY ONLY <3>3, <4>1, CalledEdits
      <4>3. QED
        BY ONLY <1>3, <4>2
    <3>5. QED
      BY <1>1, <1>2, <1>3, <2>2, <3>2, <3>4 DEF AwaitsToo
  <2>3. QED
    BY <2>1, <2>2
<1>6. ParserOK(p)
  OBVIOUS
<1>7. Edits(p, q, {n})
  BY ONLY <1>2, <1>5, <1>6, EditsOn
<1>8. Quiet(p, q)
  BY ONLY <1>2, <1>5, <1>6, QuietOn
<1>9. HasStep(q, s)
  BY ONLY <1>2, <1>3, <1>5, EditsKeepCurrent
<1>10. QED
  BY <1>1, <1>5, <1>7, <1>8, <1>9

-----------------------------------------------------------------------------
(* What the parser makes of a line that is written as the log's are. *)

Kinds == {"context", "prompt", "text", "call", "result", "usage"}

LineRecs == [kind : Kinds, turn : Nat, step : Nat \X Nat, id : Nat, tokens : Nat]

\* A line such as the CLI of this format writes.
Fits(l, f) ==
  /\ l \in LineRecs
  /\ f = "claude" => l.kind \notin {"context", "usage"}
  /\ l.kind = "context" => (l.turn = NoTurn <=> f = "old codex")
  /\ l.kind # "context" => l.turn # NoTurn

\* The line belongs to the turn in flight, and cannot open one.
GoesOn(l, f) ==
  \/ l.kind \in {"text", "call", "result", "usage"}
  \/ l.kind = "prompt" /\ f = "codex"

\* Every step is one of a turn that has been seen to end.
Sound(p) == \A n \in DOMAIN p.turns : p.turns[n].steps # <<>> => p.turns[n].ended

Mine(p, t) == {n \in DOMAIN p.turns : p.turns[n].id = t}

\* The parser is where such a line finds it.
Ready(p, l, f) ==
  /\ GoesOn(l, f) => p.turns # <<>> /\ Current(p).id = l.turn
  /\ l.kind = "result" => \A w \in p.pending : w.id = l.id => w.turn \in Mine(p, l.turn)
  /\ l.kind = "usage" => Uncounted(Current(p))

Opens(p, q, t) ==
  /\ ParserOK(q) /\ q.pending = p.pending
  /\ q.turns = Append(p.turns, [id |-> t, ended |-> FALSE, steps |-> <<>>])

Reads(p, q, l, f) ==
  /\ WaitsOK(q) /\ Sound(q)
  /\ \A w \in q.pending :
       w \in p.pending \/ (l.kind = "call" /\ w.id = l.id /\ w.turn \in Mine(q, l.turn))
  /\ \/ /\ ~GoesOn(l, f) /\ (l.kind = "context" /\ p.turns # <<>> => Current(p).id # l.turn)
        /\ l.turn # NoTurn /\ Opens(p, q, l.turn)
     \/ /\ Edits(p, q, Mine(p, l.turn))
        /\ f # "claude" /\ l.kind # "usage" => Quiet(p, q)
  /\ l.turn # NoTurn => q.turns # <<>> /\ Current(q).id = l.turn

LEMMA EditsNothing ==
  ASSUME NEW p, ParserOK(p), NEW which
  PROVE  Edits(p, p, which) /\ Quiet(p, p) /\ Stays(p, p)
BY TurnsGrow, TurnsAreTurns DEF Edits, Quiet, Stays

LEMMA EditsWiden ==
  ASSUME NEW p, NEW q, NEW which, NEW more, Edits(p, q, which), which \subseteq more
  PROVE  Edits(p, q, more)
BY DEF Edits

LEMMA StaysSound ==
  ASSUME NEW p, ParserOK(p), Sound(p), NEW q, NEW which, Edits(p, q, which), Stays(p, q)
  PROVE  Sound(q)
<1>1. DOMAIN q.turns = DOMAIN p.turns /\ ParserOK(q)
  BY TurnsAreTurns DEF Edits
<1>2. ASSUME NEW n \in DOMAIN q.turns, q.turns[n].steps # <<>>
      PROVE  q.turns[n].ended
  <2>1. p.turns[n].steps \in Seq(StepRecs) /\ q.turns[n].steps \in Seq(StepRecs)
    BY <1>1, TurnsAreTurns DEF TurnRecs
  <2>2. DOMAIN q.turns[n].steps = DOMAIN p.turns[n].steps
    BY <1>1 DEF Stays
  <2>3. p.turns[n].steps # <<>>
    BY <1>2, <2>1, <2>2
  <2>4. p.turns[n].ended
    BY <1>1, <2>3 DEF Sound
  <2>5. QED
    BY <1>1, <2>4, Zenon DEF Stays
<1>3. QED
  BY <1>2 DEF Sound

\* However the turn in flight was edited: it has ended.
LEMMA EndedSound ==
  ASSUME NEW p, ParserOK(p), p.turns # <<>>, Sound(p), NEW q, Edits(p, q, {Len(p.turns)}),
         NEW r, NEW which, Edits(q, r, which), Stays(q, r), NEW s, s = Ended(r)
  PROVE  /\ Sound(s) /\ Edits(r, s, {Len(p.turns)}) /\ Quiet(r, s) /\ s.pending = r.pending
<1>1. ParserOK(q) /\ q.turns # <<>> /\ Len(q.turns) = Len(p.turns)
  BY EditsKeepCurrent
<1>2. ParserOK(r) /\ r.turns # <<>> /\ Len(r.turns) = Len(p.turns)
  BY <1>1, EditsKeepCurrent
<1>3. /\ Edits(r, s, {Len(r.turns)}) /\ s.pending = r.pending
      /\ s.turns[Len(r.turns)].ended
      /\ s.turns[Len(r.turns)].steps = r.turns[Len(r.turns)].steps
  BY <1>2, EndedEdits
<1>4. Quiet(r, s)
  BY <1>2, EndedQuiet
<1>5. /\ DOMAIN q.turns = DOMAIN p.turns /\ DOMAIN r.turns = DOMAIN p.turns
      /\ DOMAIN s.turns = DOMAIN p.turns
  BY <1>1, <1>2, <1>3, TurnsAreTurns DEF Edits
<1>6. ASSUME NEW n \in DOMAIN s.turns, n # Len(p.turns), s.turns[n].steps # <<>>
      PROVE  s.turns[n].ended
  <2>1. q.turns[n] = p.turns[n] /\ s.turns[n] = r.turns[n]
    BY <1>2, <1>3, <1>5, <1>6 DEF Edits
  <2>2. r.turns[n].steps \in Seq(StepRecs) /\ q.turns[n].steps \in Seq(StepRecs)
    BY <1>1, <1>2, <1>5, TurnsAreTurns DEF TurnRecs
  <2>3. DOMAIN r.turns[n].steps = DOMAIN q.turns[n].steps
    BY <1>5 DEF Stays
  <2>4. p.turns[n].steps # <<>>
    BY <1>6, <2>1, <2>2, <2>3
  <2>5. p.turns[n].ended
    BY <1>5, <2>4 DEF Sound
  <2>6. QED
    BY <1>5, <2>1, <2>5, Zenon DEF Stays
<1>7. Sound(s)
  BY <1>2, <1>3, <1>6 DEF Sound
<1>8. QED
  BY <1>2, <1>3, <1>4, <1>7

LEMMA InFlightIsMine ==
  ASSUME NEW p, ParserOK(p), p.turns # <<>>, NEW t, Current(p).id = t
  PROVE  {Len(p.turns)} \subseteq Mine(p, t)
BY StepIsStep DEF Mine

LEMMA EditReads ==
  ASSUME NEW p, ParserOK(p), p.turns # <<>>, NEW l, NEW f, Current(p).id = l.turn,
         NEW q, Edits(p, q, Mine(p, l.turn)), WaitsOK(q), Sound(q),
         f # "claude" /\ l.kind # "usage" => Quiet(p, q),
         AwaitsToo(p, q, l.id), l.kind # "call" => q.pending \subseteq p.pending
  PROVE  Reads(p, q, l, f)
<1>1. /\ ParserOK(q) /\ q.turns # <<>> /\ Len(q.turns) = Len(p.turns)
      /\ Current(q).id = Current(p).id
  BY EditsKeepCurrent
<1>2. {Len(q.turns)} \subseteq Mine(q, l.turn)
  BY <1>1, InFlightIsMine
<1>3. \A w \in q.pending :
        w \in p.pending \/ (l.kind = "call" /\ w.id = l.id /\ w.turn \in Mine(q, l.turn))
  BY <1>1, <1>2 DEF AwaitsToo
<1>4. QED
  BY <1>1, <1>3 DEF Reads

LEMMA OpenReads ==
  ASSUME NEW p, ParserOK(p), WaitsOK(p), Sound(p), NEW l, l.turn \in Nat \ {NoTurn}, NEW f,
         ~GoesOn(l, f), l.kind = "context" /\ p.turns # <<>> => Current(p).id # l.turn,
         NEW r, ParserOK(r), r.turns = p.turns, r.pending = p.pending,
         NEW q, q = Opened(r, l.turn)
  PROVE  Reads(p, q, l, f)
<1>1. PICK t : t = [id |-> l.turn, ended |-> FALSE, steps |-> <<>>]
  OBVIOUS
<1>2. t \in TurnRecs /\ t.id = l.turn /\ t.steps = <<>>
  <2>1. <<>> \in Seq(StepRecs)
    OBVIOUS
  <2>2. QED
    BY <1>1, <2>1 DEF TurnRecs
<1>3. /\ q.turns = Append(p.turns, t) /\ q.pending = p.pending /\ p.turns \in Seq(TurnRecs)
      /\ q = [turns |-> q.turns, pending |-> q.pending, seen |-> q.seen, sent |-> q.sent]
      /\ q.seen = r.seen /\ q.sent = r.sent
  BY <1>1 DEF Opened, ParserOK
<1>4. PICK was, is : was = p.turns /\ is = q.turns
  OBVIOUS
<1>5. was \in Seq(TurnRecs) /\ is = Append(was, t)
  BY <1>3, <1>4
<1>6. /\ is \in Seq(TurnRecs) /\ Len(was) \in Nat /\ Len(is) = Len(was) + 1
      /\ Len(was) <= Len(is) /\ Len(is) \in DOMAIN is
      /\ is[Len(is)] = t /\ \A j \in DOMAIN was : is[j] = was[j]
  BY ONLY <1>2, <1>5, OneMore
<1>7. ParserOK(q)
  BY <1>3, <1>4, <1>6 DEF ParserOK
<1>8. Opens(p, q, l.turn)
  BY <1>1, <1>3, <1>7 DEF Opens
<1>9. DOMAIN was \subseteq DOMAIN is /\ \A n \in DOMAIN is : n \in DOMAIN was \/ is[n] = t
  BY ONLY <1>2, <1>5
<1>10. WaitsOK(q)
  BY ONLY <1>3, <1>4, <1>6, <1>9, WaitsOK(p) DEF WaitsOK
<1>11. Sound(q)
  BY ONLY <1>2, <1>4, <1>6, <1>9, Sound(p), Zenon DEF Sound
<1>12. q.turns # <<>> /\ Current(q).id = l.turn
  <2>1. is # <<>>
    BY ONLY <1>2, <1>5
  <2>2. QED
    BY <1>2, <1>4, <1>6, <2>1 DEF Current, Last
<1>13. QED
  BY <1>3, <1>8, <1>10, <1>11, <1>12 DEF Reads

LEMMA ClaudeReads ==
  ASSUME NEW p, ParserOK(p), WaitsOK(p), Sound(p), NEW l, Fits(l, "claude"),
         Ready(p, l, "claude"), NEW q, q = ClaudeLine(p, l)
  PROVE  Reads(p, q, l, "claude")
<1>1. /\ l.kind \in {"prompt", "text", "call", "result"} /\ l.turn \in Nat /\ l.id \in Nat
      /\ l.turn # NoTurn
      /\ l.step \in Nat \X Nat /\ l.tokens \in Nat
  BY DEF Fits, LineRecs, Kinds
<1>2. CASE l.kind = "prompt"
  <2>1. PICK r : r = Shown(p)
    OBVIOUS
  <2>2. ParserOK(r) /\ r.turns = p.turns /\ r.pending = p.pending
    BY <2>1, ShownEdits DEF Edits
  <2>3. q = Opened(r, l.turn)
    BY <1>2, <2>1 DEF ClaudeLine
  <2>4. ~GoesOn(l, "claude")
    BY <1>2 DEF GoesOn
  <2>5. QED
    BY <1>1, <1>2, <2>2, <2>3, <2>4, OpenReads
<1>3. CASE l.kind = "result"
  <2>1. p.turns # <<>> /\ Current(p).id = l.turn
    BY <1>3 DEF Ready, GoesOn
  <2>2. q = Returned(p, l.id)
    BY <1>3 DEF ClaudeLine
  <2>3. /\ \E which : /\ Edits(p, q, which)
                      /\ \A n \in which : \E w \in p.pending : w.id = l.id /\ w.turn = n
        /\ Quiet(p, q) /\ Stays(p, q) /\ q.pending \subseteq p.pending
    BY <2>2, ReturnedEdits
  <2>4. PICK which : /\ Edits(p, q, which)
                     /\ \A n \in which : \E w \in p.pending : w.id = l.id /\ w.turn = n
    BY <2>3
  <2>5. which \subseteq Mine(p, l.turn)
    BY <1>3, <2>4 DEF Ready
  <2>6. Edits(p, q, Mine(p, l.turn))
    BY ONLY <2>4, <2>5, EditsWiden
  <2>7. WaitsOK(q) /\ Sound(q)
    BY <2>3, <2>4, WaitsKept, StaysSound
  <2>8. QED
    BY <1>3, <2>1, <2>3, <2>6, <2>7, EditReads DEF AwaitsToo
<1>4. CASE l.kind \in {"text", "call"}
  <2>1. p.turns # <<>> /\ Current(p).id = l.turn
    BY <1>4 DEF Ready, GoesOn
  <2>2. PICK n, k, u : n = Len(p.turns) /\ k = l.step /\ u = l.tokens
    OBVIOUS
  <2>3. PICK r, s : r = Answered(p, l, k) /\ s = UsageAtLeast(r, k, u)
    OBVIOUS
  <2>4. q = Ended(s)
    BY <1>4, <2>1, <2>2, <2>3 DEF ClaudeLine
  <2>5. ParserOK(p) /\ WaitsOK(p) /\ Sound(p) /\ k \in Nat \X Nat /\ u \in Nat /\ l.id \in Nat
    BY <1>1, <2>2
  <2>6. /\ Edits(p, r, {Len(p.turns)}) /\ Quiet(p, r) /\ WaitsOK(r) /\ HasStep(r, k)
        /\ AwaitsToo(p, r, l.id) /\ (l.kind # "call" => r.pending \subseteq p.pending)
    BY ONLY <1>4, <2>1, <2>3, <2>5, AnsweredEdits
  <2>7. ParserOK(r) /\ r.turns # <<>> /\ Len(r.turns) = n
    BY <2>1, <2>2, <2>6, EditsKeepCurrent
  <2>8. Edits(r, s, {Len(r.turns)}) /\ s.pending = r.pending
    BY ONLY <2>3, <2>5, <2>6, <2>7, UsageAtLeastEdits, SMTT(30)
  <2>9. Edits(p, s, {Len(p.turns)})
    BY <2>2, <2>5, <2>6, <2>7, <2>8, EditsOn
  <2>10. ParserOK(s)
    BY <2>8 DEF Edits
  <2>11. Edits(s, s, {}) /\ Stays(s, s)
    BY <2>10, EditsNothing
  <2>12. /\ Sound(q) /\ Edits(s, q, {Len(p.turns)}) /\ Quiet(s, q) /\ q.pending = s.pending
    BY ONLY <2>1, <2>4, <2>5, <2>9, <2>11, EndedSound
  <2>13. WaitsOK(q)
    <3>1. WaitsOK(s)
      BY <2>6, <2>7, <2>8, WaitsKept
    <3>2. QED
      BY <2>10, <2>12, <3>1, WaitsKept
  <2>14. Edits(p, q, Mine(p, l.turn))
    <3>1. Edits(p, q, {Len(p.turns)})
      BY ONLY <2>5, <2>9, <2>12, EditsOn
    <3>2. QED
      BY <2>1, <3>1, InFlightIsMine, EditsWiden
  <2>15. AwaitsToo(p, q, l.id) /\ (l.kind # "call" => q.pending \subseteq p.pending)
    BY <2>6, <2>8, <2>12 DEF AwaitsToo
  <2>16. QED
    BY ONLY <2>1, <2>5, <2>13, <2>12, <2>14, <2>15, EditReads
<1>5. QED
  BY <1>1, <1>2, <1>3, <1>4

LEMMA CodexReads ==
  ASSUME NEW p, ParserOK(p), WaitsOK(p), Sound(p), NEW f, f \in {"codex", "old codex"},
         NEW l, Fits(l, f), Ready(p, l, f), NEW q, q = CodexLine(f = "codex", p, l)
  PROVE  Reads(p, q, l, f)
<1>1. /\ l.kind \in Kinds /\ l.turn \in Nat /\ l.id \in Nat /\ l.tokens \in Nat
      /\ l.kind # "context" => l.turn # NoTurn
  BY DEF Fits, LineRecs
<1>2. ParserOK(p) /\ WaitsOK(p) /\ Sound(p)
  OBVIOUS
<1>3. CASE GoesOn(l, f) /\ l.kind # "context"
  <2>1. p.turns # <<>> /\ Current(p).id = l.turn
    BY <1>3 DEF Ready
  <2>2. PICK n, k : n = Len(p.turns) /\ k = CodexStep(p)
    OBVIOUS
  <2>3. k \in Nat \X Nat
    <3>1. Current(p).id \in Nat
      BY <1>1, <2>1
    <3>2. QED
      BY <2>2, <3>1 DEF CodexStep
  <2>4. {n} \subseteq Mine(p, l.turn)
    BY <2>1, <2>2, InFlightIsMine
  \* An edit of the turn in flight that ends it.
  <2>5. ASSUME NEW r, Edits(p, r, {n}), Quiet(p, r), NEW s, NEW which, Edits(r, s, which),
               which \subseteq Mine(p, l.turn), Quiet(r, s), Stays(r, s), WaitsOK(s),
               AwaitsToo(p, s, l.id), l.kind # "call" => s.pending \subseteq p.pending,
               q = Ended(s)
        PROVE  Reads(p, q, l, f)
    <3>1. /\ Sound(q) /\ Edits(s, q, {n}) /\ Quiet(s, q) /\ q.pending = s.pending
      BY ONLY <1>2, <2>1, <2>2, <2>5, EndedSound
    <3>2. ParserOK(r) /\ ParserOK(s)
      BY <2>5 DEF Edits
    <3>3. /\ Edits(p, r, Mine(p, l.turn)) /\ Edits(r, s, Mine(p, l.turn))
          /\ Edits(s, q, Mine(p, l.turn))
      BY ONLY <2>4, <2>5, <3>1, EditsWiden
    <3>4. Edits(p, s, Mine(p, l.turn))
      BY ONLY <1>2, <3>3, EditsOn
    <3>5. Edits(p, q, Mine(p, l.turn))
      BY ONLY <1>2, <3>3, <3>4, EditsOn
    <3>6. Quiet(p, s)
      BY ONLY <1>2, <2>5, <3>3, QuietOn
    <3>7. Quiet(p, q)
      BY ONLY <1>2, <3>1, <3>4, <3>6, QuietOn
    <3>8. WaitsOK(q)
      BY <2>5, <3>1, <3>2, WaitsKept
    <3>9. AwaitsToo(p, q, l.id) /\ (l.kind # "call" => q.pending \subseteq p.pending)
      BY <2>5, <3>1 DEF AwaitsToo
    <3>10. QED
      BY ONLY <1>2, <2>1, <3>1, <3>5, <3>7, <3>8, <3>9, EditReads
  <2>6. CASE l.kind = "prompt"
    <3>1. PICK s : s = Shown(p)
      OBVIOUS
    <3>2. f = "codex"
      BY <1>3, <2>6 DEF GoesOn
    <3>3. q = Ended(s)
      BY <2>1, <2>6, <3>1, <3>2 DEF CodexLine
    <3>4. Edits(p, s, {}) /\ s.turns = p.turns /\ s.pending = p.pending
      BY <3>1, ShownEdits
    <3>5. Edits(p, p, {n}) /\ Quiet(p, p)
      BY EditsNothing
    <3>6. Quiet(p, s) /\ Stays(p, s)
      BY <3>4 DEF Quiet, Stays
    <3>7. WaitsOK(s)
      BY <3>4, WaitsKept
    <3>8. AwaitsToo(p, s, l.id) /\ s.pending \subseteq p.pending
      BY <3>4 DEF AwaitsToo
    <3>9. {} \subseteq Mine(p, l.turn)
      OBVIOUS
    <3>10. QED
      BY ONLY <2>5, <3>3, <3>4, <3>5, <3>6, <3>7, <3>8, <3>9
  <2>7. CASE l.kind \in {"text", "call"}
    <3>1. PICK s : s = Answered(p, l, k)
      OBVIOUS
    <3>2. q = Ended(s)
      BY <2>1, <2>2, <2>7, <3>1 DEF CodexLine
    <3>3. /\ Edits(p, s, {n}) /\ Quiet(p, s) /\ WaitsOK(s)
          /\ AwaitsToo(p, s, l.id) /\ (l.kind # "call" => s.pending \subseteq p.pending)
      <4>1. /\ Edits(p, s, {Len(p.turns)}) /\ Quiet(p, s) /\ WaitsOK(s) /\ HasStep(s, k)
            /\ AwaitsToo(p, s, l.id) /\ (l.kind # "call" => s.pending \subseteq p.pending)
        BY ONLY <1>1, <1>2, <2>1, <2>3, <2>7, <3>1, AnsweredEdits
      <4>2. QED
        BY <2>2, <4>1
    <3>4. ParserOK(s)
      BY <3>3 DEF Edits
    <3>5. Edits(s, s, {}) /\ Quiet(s, s) /\ Stays(s, s)
      BY <3>4, EditsNothing
    <3>6. {} \subseteq Mine(p, l.turn)
      OBVIOUS
    <3>7. QED
      BY ONLY <2>5, <3>2, <3>3, <3>5, <3>6
  <2>8. CASE l.kind = "result"
    <3>1. PICK r, s : r = InStep(p, k) /\ s = Returned(r, l.id)
      OBVIOUS
    <3>2. q = Ended(s)
      BY <2>1, <2>2, <2>8, <3>1 DEF CodexLine
    <3>3. Edits(p, r, {n}) /\ Quiet(p, r) /\ r.pending = p.pending
      BY <2>1, <2>2, <2>3, <3>1, InStepEdits, InStepQuiet
    <3>4. ParserOK(r) /\ WaitsOK(r)
      BY <3>3, WaitsKept DEF Edits
    <3>5. /\ \E which : /\ Edits(r, s, which)
                        /\ \A m \in which : \E w \in r.pending : w.id = l.id /\ w.turn = m
          /\ Quiet(r, s) /\ Stays(r, s) /\ s.pending \subseteq r.pending
      BY ONLY <3>1, <3>4, ReturnedEdits
    <3>6. PICK which : /\ Edits(r, s, which)
                       /\ \A m \in which : \E w \in r.pending : w.id = l.id /\ w.turn = m
      BY <3>5
    <3>7. which \subseteq Mine(p, l.turn)
      BY <2>8, <3>3, <3>6 DEF Ready
    <3>8. WaitsOK(s)
      BY <3>4, <3>5, <3>6, WaitsKept
    <3>9. AwaitsToo(p, s, l.id) /\ s.pending \subseteq p.pending
      BY <3>3, <3>5 DEF AwaitsToo
    <3>10. QED
      BY ONLY <2>5, <3>2, <3>3, <3>5, <3>6, <3>7, <3>8, <3>9
  <2>9. CASE l.kind = "usage"
    <3>1. /\ Edits(p, q, {n}) /\ q.pending = p.pending /\ Stays(p, q)
      <4>1. CASE Current(p).steps = <<>>
        <5>1. q = p
          BY <2>1, <2>9, <4>1 DEF CodexLine
        <5>2. QED
          BY <5>1, EditsNothing
      <4>2. CASE Current(p).steps # <<>>
        <5>1. PICK u : u = l.tokens
          OBVIOUS
        <5>2. u \in Nat /\ Uncounted(Current(p)) /\ q = UsageIs(p, u)
          BY <1>1, <2>1, <2>9, <4>2, <5>1 DEF CodexLine, Ready
        <5>3. Edits(p, q, {Len(p.turns)}) /\ q.pending = p.pending /\ Stays(p, q)
          BY ONLY <1>2, <2>1, <4>2, <5>2, UsageIsEdits
        <5>4. QED
          BY <2>2, <5>3
      <4>3. QED
        BY <4>1, <4>2
    <3>2. Edits(p, q, Mine(p, l.turn))
      BY ONLY <2>4, <3>1, EditsWiden
    <3>3. WaitsOK(q) /\ Sound(q)
      BY <3>1, WaitsKept, StaysSound
    <3>4. AwaitsToo(p, q, l.id) /\ q.pending \subseteq p.pending
      BY <3>1 DEF AwaitsToo
    <3>5. QED
      BY ONLY <1>2, <2>1, <2>9, <3>2, <3>3, <3>4, EditReads
  <2>10. QED
    BY <1>1, <1>3, <2>6, <2>7, <2>8, <2>9 DEF GoesOn
<1>4. CASE ~GoesOn(l, f) /\ l.kind = "prompt"
  <2>1. PICK r : r = Shown(p)
    OBVIOUS
  <2>2. ParserOK(r) /\ r.turns = p.turns /\ r.pending = p.pending
    BY <2>1, ShownEdits DEF Edits
  <2>3. f # "codex"
    BY <1>4 DEF GoesOn
  <2>4. q = Opened(r, l.turn)
    BY <1>4, <2>1, <2>3 DEF CodexLine
  <2>5. QED
    BY <1>1, <1>4, <2>2, <2>4, OpenReads
<1>5. CASE l.kind = "context"
  <2>1. ~GoesOn(l, f)
    BY <1>5 DEF GoesOn
  <2>2. CASE l.turn # NoTurn /\ (p.turns # <<>> => Current(p).id # l.turn)
    <3>1. q = Opened(p, l.turn)
      BY <1>5, <2>2 DEF CodexLine
    <3>2. QED
      BY <1>1, <1>5, <2>1, <2>2, <3>1, OpenReads
  <2>3. CASE ~(l.turn # NoTurn /\ (p.turns # <<>> => Current(p).id # l.turn))
    <3>1. q = p
      BY <1>5, <2>3 DEF CodexLine
    <3>2. Edits(p, q, Mine(p, l.turn)) /\ Quiet(p, q)
      BY <3>1, EditsNothing
    <3>3. QED
      BY <2>3, <3>1, <3>2 DEF Reads
  <2>4. QED
    BY <2>2, <2>3
<1>6. QED
  BY <1>1, <1>3, <1>4, <1>5 DEF GoesOn, Kinds

LEMMA LineReads ==
  ASSUME NEW p, ParserOK(p), WaitsOK(p), Sound(p), NEW f, f \in Formats,
         NEW l, Fits(l, f), Ready(p, l, f), NEW q, NEW d, f # "claude" => d = (f = "codex"),
         q = LineRead(f, d, p, l)
  PROVE  Reads(p, q, l, f)
<1>1. CASE f = "claude"
  BY <1>1, ClaudeReads DEF LineRead
<1>2. CASE f # "claude"
  <2>1. f \in {"codex", "old codex"}
    BY <1>2 DEF Formats
  <2>2. q = CodexLine(f = "codex", p, l)
    BY <1>2 DEF LineRead
  <2>3. QED
    BY <2>1, <2>2, CodexReads
<1>3. QED
  BY <1>1, <1>2

-----------------------------------------------------------------------------
(* How the lines of a log follow from one another, and what has been read of them. *)

LineOK(lines, i, f) ==
  /\ Fits(lines[i], f)
  /\ GoesOn(lines[i], f) => i > 1 /\ lines[i - 1].turn = lines[i].turn
  /\ ~GoesOn(lines[i], f) /\ lines[i].turn # NoTurn =>
       \/ \A j \in 1..i - 1 : lines[j].turn < lines[i].turn
       \/ lines[i].kind = "context" /\ i > 1 /\ lines[i - 1].turn = lines[i].turn
  /\ lines[i].kind = "call" =>
       \A j \in 1..i - 1 : lines[j].kind = "call" => lines[j].id < lines[i].id
  /\ lines[i].kind = "result" =>
       \E j \in 1..i - 1 : /\ lines[j].kind = "call" /\ lines[j].id = lines[i].id
                           /\ lines[j].turn = lines[i].turn
  /\ lines[i].kind = "usage" =>
       \A j \in 1..i - 1 : lines[j].kind = "usage" => lines[j].turn # lines[i].turn

LogOK(lines, f) == \A i \in DOMAIN lines : LineOK(lines, i, f)

\* Each turn is one that the lines so far name, in the order they do; it is the
\* last that is in flight; a result awaited is that of a call among them, made in
\* the turn it will be written to; and usage is counted by a line of the turn.
ReadSoFar(p, lines, i, f) ==
  /\ ParserOK(p) /\ WaitsOK(p) /\ Sound(p)
  /\ \A n \in DOMAIN p.turns : /\ p.turns[n].id # NoTurn
                               /\ \E j \in 1..i : lines[j].turn = p.turns[n].id
  /\ \A m, n \in DOMAIN p.turns : m < n => p.turns[m].id < p.turns[n].id
  /\ i > 0 /\ lines[i].turn # NoTurn => p.turns # <<>> /\ Current(p).id = lines[i].turn
  /\ \A w \in p.pending :
       \E j \in 1..i : /\ lines[j].kind = "call" /\ lines[j].id = w.id
                       /\ lines[j].turn = p.turns[w.turn].id
  /\ f # "claude" =>
       \A n \in DOMAIN p.turns :
         (\A j \in 1..i : lines[j].kind = "usage" => lines[j].turn # p.turns[n].id)
           => Uncounted(p.turns[n])

LEMMA NothingReadYet ==
  ASSUME NEW lines, NEW f
  PROVE  ReadSoFar(NothingRead, lines, 0, f)
<1>1. PICK p : p = NothingRead
  OBVIOUS
<1>2. p = [turns |-> <<>>, pending |-> {}, seen |-> 0, sent |-> 0]
  BY <1>1 DEF NothingRead
<1>3. DOMAIN p.turns = {} /\ p.pending = {}
  BY <1>2
<1>4. ParserOK(p)
  BY <1>2 DEF ParserOK
<1>5. ReadSoFar(p, lines, 0, f)
  BY <1>3, <1>4 DEF ReadSoFar, WaitsOK, Sound
<1>6. QED
  BY <1>1, <1>5

LEMMA LineIsReady ==
  ASSUME NEW lines, NEW f \in Formats, LogOK(lines, f), DOMAIN lines = 1..Len(lines),
         Len(lines) \in Nat, NEW i \in Nat, i + 1 \in DOMAIN lines,
         NEW p, ReadSoFar(p, lines, i, f)
  PROVE  Fits(lines[i + 1], f) /\ Ready(p, lines[i + 1], f)
<1>1. PICK l : l = lines[i + 1]
  OBVIOUS
<1>2. LineOK(lines, i + 1, f) /\ (i + 1) - 1 = i
  BY DEF LogOK
<1>3. Fits(l, f)
  BY <1>1, <1>2 DEF LineOK
<1>4. ASSUME GoesOn(l, f) PROVE p.turns # <<>> /\ Current(p).id = l.turn
  <2>1. i > 0 /\ lines[i].turn = l.turn
    BY <1>1, <1>2, <1>4 DEF LineOK
  <2>2. l.turn # NoTurn
    BY <1>3, <1>4 DEF Fits, GoesOn
  <2>3. QED
    BY <2>1, <2>2 DEF ReadSoFar
<1>5. ASSUME l.kind = "result", NEW w \in p.pending, w.id = l.id
      PROVE  w.turn \in Mine(p, l.turn)
  <2>1. PICK j \in 1..i : /\ lines[j].kind = "call" /\ lines[j].id = l.id
                          /\ lines[j].turn = p.turns[w.turn].id
    BY <1>5 DEF ReadSoFar
  <2>2. PICK k \in 1..i : /\ lines[k].kind = "call" /\ lines[k].id = l.id
                          /\ lines[k].turn = l.turn
    BY <1>1, <1>2, <1>5 DEF LineOK
  <2>3. LineOK(lines, j, f) /\ LineOK(lines, k, f) /\ l.id \in Nat
    <3>1. j \in DOMAIN lines /\ k \in DOMAIN lines
      OBVIOUS
    <3>2. l.id \in Nat
      BY ONLY <1>3 DEF Fits, LineRecs
    <3>3. QED
      BY <3>1, <3>2 DEF LogOK
  <2>4. j = k
    <3>1. ~(j < k)
      BY <2>1, <2>2, <2>3 DEF LineOK
    <3>2. ~(k < j)
      BY <2>1, <2>2, <2>3 DEF LineOK
    <3>3. QED
      BY <3>1, <3>2
  <2>5. w.turn \in DOMAIN p.turns
    BY DEF ReadSoFar, WaitsOK
  <2>6. QED
    BY <2>1, <2>2, <2>4, <2>5 DEF Mine
<1>6. ASSUME l.kind = "usage" PROVE Uncounted(Current(p))
  <2>1. f # "claude" /\ GoesOn(l, f)
    BY <1>3, <1>6 DEF Fits, GoesOn
  <2>2. p.turns # <<>> /\ Current(p).id = l.turn
    BY <1>4, <2>1
  <2>3. Len(p.turns) \in DOMAIN p.turns /\ Current(p) = p.turns[Len(p.turns)]
    BY <2>2, StepIsStep DEF ReadSoFar
  <2>4. \A j \in 1..i : lines[j].kind = "usage" => lines[j].turn # l.turn
    BY <1>1, <1>2, <1>6 DEF LineOK
  <2>5. QED
    BY <2>1, <2>2, <2>3, <2>4 DEF ReadSoFar
<1>7. Ready(p, l, f)
  BY <1>4, <1>5, <1>6 DEF Ready
<1>8. QED
  BY <1>1, <1>3, <1>7

LEMMA OpensLast ==
  ASSUME NEW p, ParserOK(p), NEW t, NEW q, Opens(p, q, t)
  PROVE  /\ Len(p.turns) \in Nat /\ DOMAIN p.turns = 1..Len(p.turns)
         /\ DOMAIN q.turns = 1..Len(p.turns) + 1
         /\ \A n \in DOMAIN p.turns : q.turns[n] = p.turns[n]
         /\ q.turns[Len(p.turns) + 1].id = t /\ q.turns[Len(p.turns) + 1].steps = <<>>
<1>1. PICK e : e = [id |-> t, ended |-> FALSE, steps |-> <<>>]
  OBVIOUS
<1>2. p.turns \in Seq(TurnRecs) /\ q.turns \in Seq(TurnRecs) /\ q.turns = Append(p.turns, e)
  BY <1>1 DEF ParserOK, Opens
<1>3. PICK was, is : was = p.turns /\ is = q.turns
  OBVIOUS
<1>4. was \in Seq(TurnRecs) /\ is = Append(was, e)
  BY <1>2, <1>3
<1>5. /\ Len(was) \in Nat /\ DOMAIN was = 1..Len(was) /\ DOMAIN is = 1..Len(was) + 1
      /\ \A n \in DOMAIN was : is[n] = was[n]
      /\ is[Len(was) + 1] = e
  BY ONLY <1>4
<1>6. e.id = t /\ e.steps = <<>>
  BY <1>1
<1>7. QED
  BY <1>3, <1>5, <1>6

LEMMA EditsKeepIDs ==
  ASSUME NEW p, ParserOK(p), NEW q, NEW which, Edits(p, q, which)
  PROVE  /\ DOMAIN q.turns = DOMAIN p.turns
         /\ \A n \in DOMAIN p.turns : q.turns[n].id = p.turns[n].id
<1>1. DOMAIN q.turns = DOMAIN p.turns
  BY TurnsAreTurns DEF Edits
<1>2. QED
  BY <1>1 DEF Edits, TurnGrows

LEMMA ReadOnByOpening ==
  ASSUME NEW lines, NEW f \in Formats, LogOK(lines, f), DOMAIN lines = 1..Len(lines),
         Len(lines) \in Nat, NEW i \in Nat, i + 1 \in DOMAIN lines,
         NEW p, ReadSoFar(p, lines, i, f), NEW q, Reads(p, q, lines[i + 1], f),
         ~GoesOn(lines[i + 1], f),
         lines[i + 1].kind = "context" /\ p.turns # <<>> => Current(p).id # lines[i + 1].turn,
         lines[i + 1].turn # NoTurn, Opens(p, q, lines[i + 1].turn)
  PROVE  ReadSoFar(q, lines, i + 1, f)
<1>1. PICK l, n0 : l = lines[i + 1] /\ n0 = Len(p.turns) + 1
  OBVIOUS
<1>2. ParserOK(p) /\ ParserOK(q) /\ WaitsOK(p)
  BY DEF ReadSoFar, Opens
<1>3. /\ Len(p.turns) \in Nat /\ DOMAIN p.turns = 1..Len(p.turns)
      /\ DOMAIN q.turns = 1..n0
      /\ \A n \in DOMAIN p.turns : q.turns[n] = p.turns[n]
      /\ q.turns[n0].id = l.turn /\ q.turns[n0].steps = <<>>
  BY <1>1, <1>2, OpensLast
<1>4. \A j \in 1..i : lines[j].turn < l.turn
  <2>1. LineOK(lines, i + 1, f) /\ (i + 1) - 1 = i
    BY DEF LogOK
  <2>2. \/ \A j \in 1..i : lines[j].turn < l.turn
        \/ l.kind = "context" /\ i > 0 /\ lines[i].turn = l.turn
    BY <1>1, <2>1 DEF LineOK
  <2>3. ~(l.kind = "context" /\ i > 0 /\ lines[i].turn = l.turn)
    BY <1>1 DEF ReadSoFar
  <2>4. QED
    BY <2>2, <2>3
<1>5. \A n \in DOMAIN p.turns : /\ p.turns[n].id < l.turn /\ p.turns[n].id # NoTurn
                                /\ \E j \in 1..i + 1 : lines[j].turn = p.turns[n].id
  <2>1. ASSUME NEW n \in DOMAIN p.turns
        PROVE  /\ p.turns[n].id < l.turn /\ p.turns[n].id # NoTurn
               /\ \E j \in 1..i + 1 : lines[j].turn = p.turns[n].id
    <3>1. PICK j \in 1..i : lines[j].turn = p.turns[n].id
      BY DEF ReadSoFar
    <3>2. j \in 1..i + 1
      OBVIOUS
    <3>3. p.turns[n].id # NoTurn
      BY DEF ReadSoFar
    <3>4. QED
      BY <1>4, <3>1, <3>2, <3>3
  <2>2. QED
    BY <2>1
<1>6. \A n \in DOMAIN q.turns : /\ q.turns[n].id # NoTurn
                                /\ \E j \in 1..i + 1 : lines[j].turn = q.turns[n].id
  BY <1>1, <1>3, <1>5, SMTT(30)
<1>7. \A m, n \in DOMAIN q.turns : m < n => q.turns[m].id < q.turns[n].id
  <2>1. \A m, n \in DOMAIN p.turns : m < n => p.turns[m].id < p.turns[n].id
    BY DEF ReadSoFar
  <2>2. ASSUME NEW m \in DOMAIN q.turns, NEW n \in DOMAIN q.turns, m < n
        PROVE  q.turns[m].id < q.turns[n].id
    <3>1. m \in DOMAIN p.turns /\ (n \in DOMAIN p.turns \/ n = n0)
      BY <1>1, <1>3, <2>2
    <3>2. CASE n \in DOMAIN p.turns
      BY <1>3, <2>1, <2>2, <3>1, <3>2
    <3>3. CASE n = n0
      BY <1>3, <1>5, <3>1, <3>3
    <3>4. QED
      BY <3>1, <3>2, <3>3
  <2>3. QED
    BY <2>2
<1>8. l.turn # NoTurn => q.turns # <<>> /\ Current(q).id = l.turn
  BY <1>1 DEF Reads
<1>9. ASSUME NEW w \in q.pending
      PROVE  \E j \in 1..i + 1 : /\ lines[j].kind = "call" /\ lines[j].id = w.id
                                 /\ lines[j].turn = q.turns[w.turn].id
  <2>1. w \in p.pending
    BY DEF Opens
  <2>2. PICK j \in 1..i : /\ lines[j].kind = "call" /\ lines[j].id = w.id
                          /\ lines[j].turn = p.turns[w.turn].id
    BY <2>1 DEF ReadSoFar
  <2>3. w.turn \in DOMAIN p.turns
    BY <1>2, <2>1 DEF WaitsOK
  <2>4. QED
    BY <1>3, <2>2, <2>3
<1>10. ASSUME f # "claude", NEW n \in DOMAIN q.turns,
              \A j \in 1..i + 1 : lines[j].kind = "usage" => lines[j].turn # q.turns[n].id
       PROVE  Uncounted(q.turns[n])
  <2>1. CASE n = n0
    BY <1>3, <2>1 DEF Uncounted
  <2>2. CASE n # n0
    <3>1. n \in DOMAIN p.turns /\ q.turns[n] = p.turns[n]
      BY <1>1, <1>3, <2>2
    <3>2. \A j \in 1..i : lines[j].kind = "usage" => lines[j].turn # p.turns[n].id
      BY <1>10, <3>1
    <3>3. QED
      BY <1>10, <3>1, <3>2 DEF ReadSoFar
  <2>3. QED
    BY <2>1, <2>2
<1>11. WaitsOK(q) /\ Sound(q)
  BY DEF Reads
<1>12. QED
  BY <1>1, <1>2, <1>6, <1>7, <1>8, <1>9, <1>10, <1>11 DEF ReadSoFar

LEMMA ReadOnByEditing ==
  ASSUME NEW lines, NEW f \in Formats, LogOK(lines, f), DOMAIN lines = 1..Len(lines),
         Len(lines) \in Nat, NEW i \in Nat, i + 1 \in DOMAIN lines,
         NEW p, ReadSoFar(p, lines, i, f), NEW q, Reads(p, q, lines[i + 1], f),
         Edits(p, q, Mine(p, lines[i + 1].turn)),
         f # "claude" /\ lines[i + 1].kind # "usage" => Quiet(p, q)
  PROVE  ReadSoFar(q, lines, i + 1, f)
<1>1. PICK l : l = lines[i + 1]
  OBVIOUS
<1>2. ParserOK(p) /\ ParserOK(q) /\ WaitsOK(p)
  BY DEF ReadSoFar, Edits
<1>3. /\ DOMAIN q.turns = DOMAIN p.turns
      /\ \A n \in DOMAIN p.turns : q.turns[n].id = p.turns[n].id
  BY <1>2, EditsKeepIDs
<1>4. \A n \in DOMAIN q.turns : /\ q.turns[n].id # NoTurn
                                /\ \E j \in 1..i + 1 : lines[j].turn = q.turns[n].id
  <2>1. ASSUME NEW n \in DOMAIN p.turns
        PROVE  /\ p.turns[n].id # NoTurn
               /\ \E j \in 1..i + 1 : lines[j].turn = p.turns[n].id
    <3>1. PICK j \in 1..i : lines[j].turn = p.turns[n].id
      BY DEF ReadSoFar
    <3>2. p.turns[n].id # NoTurn
      BY DEF ReadSoFar
    <3>3. QED
      BY <3>1, <3>2
  <2>2. QED
    BY <1>3, <2>1
<1>5. \A m, n \in DOMAIN q.turns : m < n => q.turns[m].id < q.turns[n].id
  <2>1. \A m, n \in DOMAIN p.turns : m < n => p.turns[m].id < p.turns[n].id
    BY DEF ReadSoFar
  <2>2. QED
    BY <1>3, <2>1
<1>6. l.turn # NoTurn => q.turns # <<>> /\ Current(q).id = l.turn
  BY <1>1 DEF Reads
<1>7. ASSUME NEW w \in q.pending
      PROVE  \E j \in 1..i + 1 : /\ lines[j].kind = "call" /\ lines[j].id = w.id
                                 /\ lines[j].turn = q.turns[w.turn].id
  <2>1. CASE w \in p.pending
    <3>1. PICK j \in 1..i : /\ lines[j].kind = "call" /\ lines[j].id = w.id
                            /\ lines[j].turn = p.turns[w.turn].id
      BY <2>1 DEF ReadSoFar
    <3>2. w.turn \in DOMAIN p.turns
      BY <1>2, <2>1 DEF WaitsOK
    <3>3. QED
      BY <1>3, <3>1, <3>2
  <2>2. CASE w \notin p.pending
    <3>1. l.kind = "call" /\ w.id = l.id /\ w.turn \in Mine(q, l.turn)
      BY <1>1, <2>2 DEF Reads
    <3>2. q.turns[w.turn].id = l.turn
      BY <3>1 DEF Mine
    <3>3. QED
      BY <1>1, <3>1, <3>2
  <2>3. QED
    BY <2>1, <2>2
<1>8. ASSUME f # "claude", NEW n \in DOMAIN q.turns,
             \A j \in 1..i + 1 : lines[j].kind = "usage" => lines[j].turn # q.turns[n].id
      PROVE  Uncounted(q.turns[n])
  <2>1. \A j \in 1..i : lines[j].kind = "usage" => lines[j].turn # p.turns[n].id
    BY <1>3, <1>8
  <2>2. n \in DOMAIN p.turns
    BY <1>3
  <2>3. Uncounted(p.turns[n])
    BY <1>8, <2>1, <2>2 DEF ReadSoFar
  <2>4. CASE l.kind # "usage"
    BY <1>1, <1>8, <2>2, <2>3, <2>4 DEF Quiet
  <2>5. CASE l.kind = "usage"
    <3>1. p.turns[n].id # l.turn
      BY <1>1, <1>3, <1>8, <2>2, <2>5
    <3>2. n \notin Mine(p, l.turn)
      BY <3>1 DEF Mine
    <3>3. q.turns[n] = p.turns[n]
      BY <1>1, <2>2, <3>2 DEF Edits
    <3>4. QED
      BY <2>3, <3>3
  <2>6. QED
    BY <2>4, <2>5
<1>9. WaitsOK(q) /\ Sound(q)
  BY DEF Reads
<1>10. QED
  BY <1>1, <1>2, <1>4, <1>5, <1>6, <1>7, <1>8, <1>9 DEF ReadSoFar

LEMMA ReadOn ==
  ASSUME NEW lines, NEW f \in Formats, LogOK(lines, f), DOMAIN lines = 1..Len(lines),
         Len(lines) \in Nat, NEW i \in Nat, i + 1 \in DOMAIN lines,
         NEW p, ReadSoFar(p, lines, i, f),
         NEW d, f # "claude" => d = (f = "codex"), NEW q, q = LineRead(f, d, p, lines[i + 1])
  PROVE  Reads(p, q, lines[i + 1], f) /\ ReadSoFar(q, lines, i + 1, f)
<1>1. Fits(lines[i + 1], f) /\ Ready(p, lines[i + 1], f)
  BY LineIsReady
<1>2. ParserOK(p) /\ WaitsOK(p) /\ Sound(p)
  BY DEF ReadSoFar
<1>3. PICK l : l = lines[i + 1]
  OBVIOUS
<1>4. Reads(p, q, l, f)
  <2>1. f \in Formats /\ Fits(l, f) /\ Ready(p, l, f) /\ (f # "claude" => d = (f = "codex"))
    BY <1>1, <1>3
  <2>2. q = LineRead(f, d, p, l)
    BY <1>3
  <2>3. QED
    BY ONLY <1>2, <2>1, <2>2, LineReads
<1>5. \/ /\ ~GoesOn(l, f) /\ (l.kind = "context" /\ p.turns # <<>> => Current(p).id # l.turn)
         /\ l.turn # NoTurn /\ Opens(p, q, l.turn)
      \/ /\ Edits(p, q, Mine(p, l.turn))
         /\ f # "claude" /\ l.kind # "usage" => Quiet(p, q)
  BY <1>4 DEF Reads
<1>6. QED
  BY <1>3, <1>4, <1>5, ReadOnByOpening, ReadOnByEditing

-----------------------------------------------------------------------------
(* The readings of a log, as lines are added to it. *)

LEMMA Delimited ==
  ASSUME NEW f \in Formats, f # "claude", NEW lines \in Seq(LineRecs), lines # <<>>, LogOK(lines, f)
  PROVE  HasCodexTurnIDs(lines) = (f = "codex")
<1>1. 1 \in DOMAIN lines
  OBVIOUS
<1>2. CASE f = "codex"
  <2>1. Fits(lines[1], f) /\ ~GoesOn(lines[1], f)
    <3>1. LineOK(lines, 1, f)
      BY <1>1 DEF LogOK
    <3>2. QED
      BY <3>1 DEF LineOK
  <2>2. lines[1].kind = "context"
    BY <1>2, <2>1 DEF Fits, GoesOn, LineRecs, Kinds
  <2>3. lines[1].turn # NoTurn
    BY <1>2, <2>1, <2>2 DEF Fits
  <2>4. HasCodexTurnIDs(lines)
    BY <1>1, <2>2, <2>3 DEF HasCodexTurnIDs
  <2>5. QED
    BY <1>2, <2>4 DEF HasCodexTurnIDs
<1>3. CASE f # "codex"
  <2>1. f = "old codex"
    BY <1>3 DEF Formats
  <2>2. \A i \in DOMAIN lines : lines[i].kind = "context" => lines[i].turn = NoTurn
    BY <2>1 DEF LogOK, LineOK, Fits
  <2>3. ~HasCodexTurnIDs(lines)
    BY <2>2 DEF HasCodexTurnIDs
  <2>4. QED
    BY <1>3, <2>3 DEF HasCodexTurnIDs
<1>4. QED
  BY <1>2, <1>3

LEMMA ReadsAll ==
  ASSUME NEW f \in Formats, NEW lines \in Seq(LineRecs), LogOK(lines, f),
         NEW g, g = Reading(f, lines)
  PROVE  /\ g[0] = NothingRead
         /\ \A i \in 0..Len(lines) : ReadSoFar(g[i], lines, i, f)
         /\ \A i \in 0..Len(lines) - 1 : Reads(g[i], g[i + 1], lines[i + 1], f)
<1>1. PICK d : d = HasCodexTurnIDs(lines)
  OBVIOUS
<1>2. Len(lines) \in Nat /\ DOMAIN lines = 1..Len(lines)
  OBVIOUS
<1>3. Follows(g, f, d, lines, Len(lines))
  BY <1>1, <1>2, ReadingFollows
<1>4. g[0] = NothingRead
  BY <1>2, <1>3 DEF Follows
<1>5. ASSUME NEW i \in 0..Len(lines), i < Len(lines), ReadSoFar(g[i], lines, i, f)
      PROVE  Reads(g[i], g[i + 1], lines[i + 1], f) /\ ReadSoFar(g[i + 1], lines, i + 1, f)
  <2>1. i \in Nat /\ i + 1 \in DOMAIN lines
    BY <1>2, <1>5
  <2>2. g[i + 1] = LineRead(f, d, g[i], lines[i + 1])
    BY <1>2, <1>3, <2>1 DEF Follows
  <2>3. lines # <<>>
    BY <2>1
  <2>4. f # "claude" => d = (f = "codex")
    BY <1>1, <2>3, Delimited
  <2>5. PICK p, q : p = g[i] /\ q = g[i + 1]
    OBVIOUS
  <2>6. ReadSoFar(p, lines, i, f) /\ q = LineRead(f, d, p, lines[i + 1])
    BY <1>5, <2>2, <2>5
  <2>7. f \in Formats /\ LogOK(lines, f)
    OBVIOUS
  <2>8. Reads(p, q, lines[i + 1], f) /\ ReadSoFar(q, lines, i + 1, f)
    BY ONLY <1>2, <2>1, <2>4, <2>6, <2>7, ReadOn
  <2>9. QED
    BY <2>5, <2>8
<1>6. \A i \in 0..Len(lines) : ReadSoFar(g[i], lines, i, f)
  <2> DEFINE S == {i \in 0..Len(lines) : ReadSoFar(g[i], lines, i, f)}
  <2>1. 0 \in S
    BY <1>2, <1>4, NothingReadYet
  <2>2. \A i \in S : i < Len(lines) => i + 1 \in S
    BY <1>2, <1>5
  <2>3. S \in SUBSET (0..Len(lines))
    OBVIOUS
  <2> HIDE DEF S
  <2>4. S = 0..Len(lines)
    BY <1>2, <2>1, <2>2, <2>3, HoldsForAll
  <2>5. QED
    BY <2>4 DEF S
<1>7. \A i \in 0..Len(lines) - 1 : Reads(g[i], g[i + 1], lines[i + 1], f)
  BY <1>2, <1>5, <1>6
<1>8. QED
  BY <1>4, <1>6, <1>7

\* The lines a are where the lines b begin.
Begins(a, b) == Len(a) <= Len(b) /\ \A i \in DOMAIN a : a[i] = b[i]

LEMMA BeginsOK ==
  ASSUME NEW f, NEW a \in Seq(LineRecs), NEW b \in Seq(LineRecs), LogOK(b, f), Begins(a, b)
  PROVE  LogOK(a, f)
<1>1. ASSUME NEW i \in DOMAIN a PROVE LineOK(a, i, f)
  <2>1. LineOK(b, i, f) /\ \A j \in 1..i : a[j] = b[j]
    BY DEF Begins, LogOK
  <2>2. a[i] = b[i] /\ \A j \in 1..i - 1 : a[j] = b[j]
    BY <2>1
  <2>3. i > 1 => a[i - 1] = b[i - 1]
    BY <2>2
  <2>4. QED
    BY <2>1, <2>2, <2>3 DEF LineOK
<1>2. QED
  BY <1>1 DEF LogOK

LEMMA SameReading ==
  ASSUME NEW f \in Formats, NEW a \in Seq(LineRecs), NEW b \in Seq(LineRecs), LogOK(b, f),
         Begins(a, b), NEW j \in 0..Len(a)
  PROVE  Reading(f, a)[j] = Reading(f, b)[j]
<1>1. PICK d, e, g, h : /\ d = HasCodexTurnIDs(a) /\ e = HasCodexTurnIDs(b)
                        /\ g = Reading(f, a) /\ h = Reading(f, b)
  OBVIOUS
<1>2. Len(a) \in Nat /\ Len(b) \in Nat /\ LogOK(a, f) /\ Len(a) <= Len(b)
  BY BeginsOK DEF Begins
<1>3. Follows(g, f, d, a, Len(a)) /\ Follows(h, f, e, b, Len(b))
  BY <1>1, <1>2, ReadingFollows
<1>4. CASE a = <<>>
  <2>1. j = 0
    BY <1>4
  <2>2. QED
    BY <1>1, <1>2, <1>3, <2>1 DEF Follows
<1>5. CASE a # <<>>
  <2>1. b # <<>>
    BY <1>2, <1>5
  <2>2. \A p, l : LineRead(f, e, p, l) = LineRead(f, d, p, l)
    <3>1. CASE f = "claude"
      BY <3>1 DEF LineRead
    <3>2. CASE f # "claude"
      BY <1>1, <1>2, <1>5, <2>1, <3>2, Delimited
    <3>3. QED
      BY <3>1, <3>2
  <2>3. Follows(h, f, d, b, Len(b))
    BY <1>3, <2>2 DEF Follows
  <2>4. \A i \in 1..j : a[i] = b[i]
    BY DEF Begins
  <2>5. j \in 0..Len(a) /\ j <= Len(b)
    BY <1>2
  <2>6. g[j] = h[j]
    BY ONLY <1>2, <1>3, <2>3, <2>4, <2>5, FollowsOne
  <2>7. QED
    BY <1>1, <2>6
<1>6. QED
  BY <1>4, <1>5

\* The turns of p are those that q began with.
Continues(p, q) ==
  /\ ParserOK(p) /\ ParserOK(q) /\ DOMAIN p.turns \subseteq DOMAIN q.turns
  /\ \A n \in DOMAIN p.turns : TurnGrows(p.turns[n], q.turns[n])

\* A line leaves the turns it does not name as they are.
LEMMA ReadsContinues ==
  ASSUME NEW p, ParserOK(p), NEW q, NEW l, NEW f, Reads(p, q, l, f)
  PROVE  /\ Continues(p, q)
         /\ \A n \in DOMAIN p.turns : p.turns[n].id # l.turn => q.turns[n] = p.turns[n]
<1>1. CASE Opens(p, q, l.turn)
  <2>1. /\ DOMAIN p.turns = 1..Len(p.turns) /\ DOMAIN q.turns = 1..Len(p.turns) + 1
        /\ Len(p.turns) \in Nat
        /\ \A n \in DOMAIN p.turns : q.turns[n] = p.turns[n] /\ p.turns[n] \in TurnRecs
    BY <1>1, OpensLast, TurnsAreTurns
  <2>2. \A n \in DOMAIN p.turns : TurnGrows(p.turns[n], q.turns[n])
    BY <2>1, TurnsGrow
  <2>3. DOMAIN p.turns \subseteq DOMAIN q.turns
    BY <2>1
  <2>4. QED
    BY <1>1, <2>1, <2>2, <2>3 DEF Continues, Opens
<1>2. CASE Edits(p, q, Mine(p, l.turn))
  <2>1. DOMAIN q.turns = DOMAIN p.turns
    BY <1>2, EditsKeepIDs
  <2>2. QED
    BY <1>2, <2>1 DEF Continues, Edits, Mine
<1>3. QED
  BY <1>1, <1>2 DEF Reads

LEMMA ContinuesOn ==
  ASSUME NEW p, NEW q, NEW r, Continues(p, q), Continues(q, r)
  PROVE  Continues(p, r)
<1>1. ASSUME NEW n \in DOMAIN p.turns PROVE TurnGrows(p.turns[n], r.turns[n])
  <2>1. n \in DOMAIN q.turns /\ n \in DOMAIN r.turns
    BY DEF Continues
  <2>2. p.turns[n] \in TurnRecs /\ q.turns[n] \in TurnRecs /\ r.turns[n] \in TurnRecs
    BY <2>1, TurnsAreTurns DEF Continues
  <2>3. TurnGrows(p.turns[n], q.turns[n]) /\ TurnGrows(q.turns[n], r.turns[n])
    BY <2>1 DEF Continues
  <2>4. QED
    BY <2>2, <2>3, TurnsGrowOn
<1>2. QED
  BY <1>1 DEF Continues

LEMMA ReadingContinues ==
  ASSUME NEW f \in Formats, NEW lines \in Seq(LineRecs), LogOK(lines, f),
         NEW i \in 0..Len(lines), NEW j \in i..Len(lines), NEW g, g = Reading(f, lines)
  PROVE  /\ Continues(g[i], g[j])
         /\ \A n \in DOMAIN g[i].turns :
              (\A k \in i + 1..j : lines[k].turn # g[i].turns[n].id)
                => g[j].turns[n] = g[i].turns[n]
<1>1. Len(lines) \in Nat /\ i \in Nat /\ j \in Nat
  OBVIOUS
<1>2. /\ \A k \in 0..Len(lines) : ParserOK(g[k])
      /\ \A k \in 0..Len(lines) - 1 : Reads(g[k], g[k + 1], lines[k + 1], f)
  BY ReadsAll DEF ReadSoFar
<1> DEFINE Same(k) == \A n \in DOMAIN g[i].turns :
                        (\A m \in i + 1..k : lines[m].turn # g[i].turns[n].id)
                          => g[k].turns[n] = g[i].turns[n]
           S == {k \in 0..j - i : Continues(g[i], g[i + k]) /\ Same(i + k)}
<1>3. 0 \in S
  <2>1. \A n \in DOMAIN g[i].turns : TurnGrows(g[i].turns[n], g[i].turns[n])
    BY <1>2, TurnsAreTurns, TurnsGrow
  <2>2. Continues(g[i], g[i])
    BY <1>1, <1>2, <2>1 DEF Continues
  <2>3. i + 0 = i /\ 0 \in 0..j - i
    BY <1>1
  <2>4. QED
    BY <2>2, <2>3
<1>4. ASSUME NEW k \in S, k < j - i PROVE k + 1 \in S
  <2>1. PICK h : h = i + k
    OBVIOUS
  <2>2. /\ h \in i..j /\ h + 1 \in i..j /\ h \in 0..Len(lines) - 1 /\ h + 1 = i + (k + 1)
        /\ k + 1 \in 0..j - i
    BY <1>1, <1>4, <2>1
  <2>3. Continues(g[i], g[h]) /\ Same(h)
    BY <1>4, <2>1
  <2>4. /\ Continues(g[h], g[h + 1])
        /\ \A n \in DOMAIN g[h].turns :
             g[h].turns[n].id # lines[h + 1].turn => g[h + 1].turns[n] = g[h].turns[n]
    BY <1>2, <2>2, ReadsContinues
  <2>5. Continues(g[i], g[h + 1])
    BY <2>3, <2>4, ContinuesOn
  <2>6. ASSUME NEW n \in DOMAIN g[i].turns,
               \A m \in i + 1..h + 1 : lines[m].turn # g[i].turns[n].id
        PROVE  g[h + 1].turns[n] = g[i].turns[n]
    <3>1. g[h].turns[n] = g[i].turns[n]
      <4>1. \A m \in i + 1..h : m \in i + 1..h + 1
        BY <2>2
      <4>2. QED
        BY <2>3, <2>6, <4>1
    <3>2. n \in DOMAIN g[h].turns
      BY <2>3 DEF Continues
    <3>3. lines[h + 1].turn # g[i].turns[n].id
      <4>1. h + 1 \in i + 1..h + 1
        BY <2>2
      <4>2. QED
        BY <2>6, <4>1
    <3>4. QED
      BY <2>4, <3>1, <3>2, <3>3
  <2>7. Same(h + 1)
    BY <2>6
  <2>8. QED
    BY <2>2, <2>5, <2>7
<1>5. S = 0..j - i
  <2>1. S \in SUBSET (0..j - i) /\ j - i \in Nat
    BY <1>1
  <2> HIDE DEF S
  <2>2. QED
    BY <1>3, <1>4, <2>1, HoldsForAll
<1>6. j - i \in S
  <2>1. j - i \in 0..j - i
    BY <1>1
  <2> HIDE DEF S
  <2>2. QED
    BY <1>5, <2>1
<1>7. i + (j - i) = j
  BY <1>1
<1>8. QED
  BY <1>6, <1>7

-----------------------------------------------------------------------------
(* The log the CLI writes. *)

\* Turns and calls are numbered in the order they come in.
LineGood(lines, i, f) ==
  /\ LineOK(lines, i, f)
  /\ \A t \in 1..lines[i].turn : \E j \in 1..i : lines[j].turn = t
  /\ lines[i].kind = "call" =>
       /\ lines[i].id # NoCall
       /\ \A c \in 1..lines[i].id : \E j \in 1..i : lines[j].kind = "call" /\ lines[j].id = c
  /\ lines[i].turn <= MaxTurns /\ lines[i].id <= MaxCalls

LogGood(lines, f) ==
  lines \in Seq(LineRecs) /\ \A i \in DOMAIN lines : LineGood(lines, i, f)

LEMMA LogGoodIsOK ==
  ASSUME NEW lines, NEW f, LogGood(lines, f)
  PROVE  lines \in Seq(LineRecs) /\ LogOK(lines, f)
BY DEF LogGood, LineGood, LogOK

LEMMA LineGoodSame ==
  ASSUME NEW f, NEW a, NEW b, NEW i \in Nat \ {0}, \A j \in 1..i : a[j] = b[j], LineGood(b, i, f)
  PROVE  LineGood(a, i, f)
<1>1. a[i] = b[i] /\ \A j \in 1..i - 1 : a[j] = b[j]
  OBVIOUS
<1>2. i > 1 => a[i - 1] = b[i - 1]
  BY <1>1
<1>3. LineOK(a, i, f)
  <2>1. LineOK(b, i, f)
    BY DEF LineGood
  <2>2. QED
    BY <1>1, <1>2, <2>1 DEF LineOK
<1>4. QED
  BY <1>1, <1>3 DEF LineGood

LEMMA LogGoodBegins ==
  ASSUME NEW f, NEW b, LogGood(b, f), NEW a \in Seq(LineRecs), Begins(a, b)
  PROVE  LogGood(a, f)
<1>1. ASSUME NEW i \in DOMAIN a PROVE LineGood(a, i, f)
  <2>1. /\ i \in Nat \ {0} /\ \A j \in 1..i : a[j] = b[j]
        /\ LineGood(b, i, f)
    BY DEF Begins, LogGood
  <2>2. QED
    BY <2>1, LineGoodSame
<1>2. QED
  BY <1>1 DEF LogGood

LEMMA LogGoodMore ==
  ASSUME NEW f, NEW a, LogGood(a, f), NEW l \in LineRecs, NEW b, b = Append(a, l),
         LineGood(b, Len(a) + 1, f)
  PROVE  LogGood(b, f)
<1>1. /\ a \in Seq(LineRecs) /\ b \in Seq(LineRecs) /\ Len(b) = Len(a) + 1 /\ Len(a) \in Nat
      /\ \A j \in 1..Len(a) : b[j] = a[j]
  BY DEF LogGood
<1>2. ASSUME NEW i \in DOMAIN b PROVE LineGood(b, i, f)
  <2>1. CASE i = Len(a) + 1
    BY <2>1
  <2>2. CASE i # Len(a) + 1
    <3>1. i \in Nat \ {0} /\ i \in DOMAIN a /\ \A j \in 1..i : b[j] = a[j]
      BY <1>1, <2>2
    <3>2. LineGood(a, i, f)
      BY <3>1 DEF LogGood
    <3>3. QED
      BY <3>1, <3>2, LineGoodSame
  <2>3. QED
    BY <2>1, <2>2
<1>3. QED
  BY <1>1, <1>2 DEF LogGood

LEMMA Counted ==
  ASSUME NEW S \in SUBSET Nat, 0 \notin S, NEW n \in Nat, \A x \in S : x <= n,
         \A x \in S : 1..x \subseteq S
  PROVE  Cardinality(S) \in Nat /\ S = 1..Cardinality(S)
<1>1. IsFiniteSet(1..n)
  BY FS_Interval
<1>2. IsFiniteSet(S)
  <2>1. S \in SUBSET (1..n)
    OBVIOUS
  <2>2. QED
    BY <1>1, <2>1, FS_Subset
<1>3. PICK c : c = Cardinality(S)
  OBVIOUS
<1>4. c \in Nat
  BY <1>2, <1>3, FS_CardinalityType
<1>5. ASSUME NEW x \in S PROVE x \in 1..c
  <2>1. 1..x \in SUBSET S /\ x \in Nat \ {0}
    OBVIOUS
  <2>2. Cardinality(1..x) = x
    BY <2>1, FS_Interval
  <2>3. Cardinality(1..x) <= c
    BY <1>2, <1>3, <2>1, FS_Subset
  <2>4. QED
    BY <1>4, <2>1, <2>2, <2>3
<1>6. IsFiniteSet(1..c) /\ Cardinality(1..c) = c
  BY <1>4, FS_Interval
<1>7. S \in SUBSET (1..c)
  BY <1>5
<1>8. 1..c = S
  BY <1>3, <1>6, <1>7, FS_Subset
<1>9. QED
  BY <1>3, <1>4, <1>8

LEMMA LogGoodTyped ==
  ASSUME NEW f, NEW lines, LogGood(lines, f), NEW j \in DOMAIN lines
  PROVE  /\ lines[j] \in LineRecs /\ lines[j].turn \in 0..MaxTurns
         /\ lines[j].id \in 0..MaxCalls /\ (lines[j].kind = "call" => lines[j].id # 0)
<1>1. PICK l : l = lines[j]
  OBVIOUS
<1>2. l \in LineRecs
  BY <1>1 DEF LogGood
<1>3. l.turn \in Nat /\ l.id \in Nat
  BY <1>2 DEF LineRecs
<1>4. l.turn <= MaxTurns /\ l.id <= MaxCalls /\ (l.kind = "call" => l.id # 0)
  BY <1>1 DEF LogGood, LineGood, NoCall
<1>5. MaxTurns \in Nat /\ MaxCalls \in Nat
  BY BoundsAssumption
<1>6. QED
  BY <1>1, <1>2, <1>3, <1>4, <1>5

LEMMA NextTurn ==
  ASSUME NEW f, NEW lines, LogGood(lines, f), NEW t, t = Cardinality(Turns(lines)) + 1
  PROVE  /\ t \in Nat \ {0} /\ \A j \in DOMAIN lines : lines[j].turn < t
         /\ \A u \in 1..t - 1 : \E j \in DOMAIN lines : lines[j].turn = u
<1>1. PICK S : S = Turns(lines)
  OBVIOUS
<1>2. \A j \in DOMAIN lines : lines[j].turn \in 0..MaxTurns
  BY LogGoodTyped
<1>3. /\ S \in SUBSET Nat /\ 0 \notin S /\ \A x \in S : x <= MaxTurns
      /\ \A x \in S : \E j \in DOMAIN lines : lines[j].turn = x
      /\ \A j \in DOMAIN lines : lines[j].turn # 0 => lines[j].turn \in S
  BY <1>1, <1>2 DEF Turns, NoTurn
<1>4. ASSUME NEW x \in S, NEW u \in 1..x PROVE u \in S
  <2>1. PICK i \in DOMAIN lines : lines[i].turn = x
    BY <1>3
  <2>2. PICK j \in 1..i : lines[j].turn = u
    BY <2>1 DEF LogGood, LineGood
  <2>3. j \in DOMAIN lines
    BY DEF LogGood
  <2>4. QED
    BY <1>3, <2>2, <2>3
<1>5. Cardinality(S) \in Nat /\ S = 1..Cardinality(S)
  <2>1. MaxTurns \in Nat /\ \A x \in S : 1..x \subseteq S
    BY <1>4, BoundsAssumption
  <2>2. QED
    BY ONLY <1>3, <2>1, Counted
<1>6. PICK c : c = Cardinality(S)
  OBVIOUS
<1>7. c \in Nat /\ S = 1..c /\ t = c + 1
  BY <1>1, <1>5, <1>6
<1>8. \A j \in DOMAIN lines : lines[j].turn < t
  BY <1>2, <1>3, <1>7
<1>9. QED
  BY <1>3, <1>7, <1>8

LEMMA NextCall ==
  ASSUME NEW f, NEW lines, LogGood(lines, f), NEW c, c = Cardinality(Names(lines, "call")) + 1
  PROVE  /\ c \in Nat \ {0}
         /\ \A j \in DOMAIN lines : lines[j].kind = "call" => lines[j].id < c
         /\ \A u \in 1..c - 1 : \E j \in DOMAIN lines : lines[j].kind = "call" /\ lines[j].id = u
<1>1. PICK S : S = Names(lines, "call")
  OBVIOUS
<1>2. \A j \in DOMAIN lines : lines[j].id \in 0..MaxCalls /\ (lines[j].kind = "call" => lines[j].id # 0)
  BY LogGoodTyped
<1>3. /\ S \in SUBSET Nat /\ 0 \notin S /\ \A x \in S : x <= MaxCalls
      /\ \A x \in S : \E j \in DOMAIN lines : lines[j].kind = "call" /\ lines[j].id = x
      /\ \A j \in DOMAIN lines : lines[j].kind = "call" => lines[j].id \in S
  BY <1>1, <1>2 DEF Names, Of
<1>4. ASSUME NEW x \in S, NEW u \in 1..x PROVE u \in S
  <2>1. PICK i \in DOMAIN lines : lines[i].kind = "call" /\ lines[i].id = x
    BY <1>3
  <2>2. PICK j \in 1..i : lines[j].kind = "call" /\ lines[j].id = u
    BY <2>1 DEF LogGood, LineGood
  <2>3. j \in DOMAIN lines
    BY DEF LogGood
  <2>4. QED
    BY <1>3, <2>2, <2>3
<1>5. Cardinality(S) \in Nat /\ S = 1..Cardinality(S)
  <2>1. MaxCalls \in Nat /\ \A x \in S : 1..x \subseteq S
    BY <1>4, BoundsAssumption
  <2>2. QED
    BY ONLY <1>3, <2>1, Counted
<1>6. PICK n : n = Cardinality(S)
  OBVIOUS
<1>7. n \in Nat /\ S = 1..n /\ c = n + 1
  BY <1>1, <1>5, <1>6
<1>8. \A j \in DOMAIN lines : lines[j].kind = "call" => lines[j].id < c
  BY <1>2, <1>3, <1>7
<1>9. QED
  BY <1>3, <1>7, <1>8

\* A call is numbered after those before it, and a result is that of one of them.
NamesCall(a, l) ==
  /\ l.kind = "call" =>
       /\ l.id # NoCall
       /\ \A j \in DOMAIN a : a[j].kind = "call" => a[j].id < l.id
       /\ \A c \in 1..l.id - 1 : \E j \in DOMAIN a : a[j].kind = "call" /\ a[j].id = c
  /\ l.kind = "result" =>
       \E j \in DOMAIN a : a[j].kind = "call" /\ a[j].id = l.id /\ a[j].turn = l.turn

CountsOnce(a, l) ==
  l.kind = "usage" => \A j \in DOMAIN a : a[j].kind = "usage" => a[j].turn # l.turn

\* A line of the turn in flight.
LEMMA OneMoreLine ==
  ASSUME NEW f, NEW a, LogGood(a, f), a # <<>>, NEW l \in LineRecs, Fits(l, f),
         l.turn = Last(a).turn, l.turn # NoTurn, l.id <= MaxCalls,
         l.kind = "prompt" => f = "codex",
         NamesCall(a, l), CountsOnce(a, l),
         NEW b, b = Append(a, l)
  PROVE  LogGood(b, f) /\ b # <<>> /\ Last(b) = l
<1>1. PICK n : n = Len(a)
  OBVIOUS
<1>2. /\ a \in Seq(LineRecs) /\ b \in Seq(LineRecs) /\ Len(b) = n + 1 /\ n \in Nat \ {0}
      /\ DOMAIN a = 1..n /\ DOMAIN b = 1..n + 1
      /\ (n + 1) - 1 = n /\ n + 1 > 1
      /\ b[n + 1] = l /\ \A j \in 1..n : b[j] = a[j]
  BY <1>1 DEF LogGood
<1>3. b # <<>> /\ Last(b) = l /\ a[n].turn = l.turn /\ b[n].turn = l.turn
  BY <1>1, <1>2 DEF Last
<1>4. l.kind \in Kinds /\ l.id \in Nat /\ l.turn \in Nat
  BY DEF LineRecs
<1>5. GoesOn(l, f) \/ l.kind = "context"
  BY <1>4 DEF GoesOn, Kinds
<1>6. LineOK(b, n + 1, f)
  <2>1. ~GoesOn(l, f) => l.kind = "context" /\ n + 1 > 1 /\ b[n].turn = l.turn
    BY <1>2, <1>3, <1>5
  <2>2. l.kind = "call" => \A j \in 1..n : b[j].kind = "call" => b[j].id < l.id
    BY <1>2 DEF NamesCall
  <2>3. l.kind = "result" => \E j \in 1..n : /\ b[j].kind = "call" /\ b[j].id = l.id
                                             /\ b[j].turn = l.turn
    BY <1>2 DEF NamesCall
  <2>4. l.kind = "usage" => \A j \in 1..n : b[j].kind = "usage" => b[j].turn # l.turn
    BY <1>2 DEF CountsOnce
  <2>5. QED
    BY <1>2, <1>3, <2>1, <2>2, <2>3, <2>4 DEF LineOK
<1>7. n \in DOMAIN a /\ LineGood(a, n, f)
  BY <1>2 DEF LogGood
<1>8. \A t \in 1..l.turn : \E j \in 1..n + 1 : b[j].turn = t
  <2>1. ASSUME NEW t \in 1..l.turn PROVE \E j \in 1..n + 1 : b[j].turn = t
    <3>1. PICK j \in 1..n : a[j].turn = t
      BY <1>3, <1>7 DEF LineGood
    <3>2. QED
      BY <1>2, <3>1
  <2>2. QED
    BY <2>1
<1>9. l.turn <= MaxTurns
  BY <1>3, <1>7 DEF LineGood
<1>10. ASSUME l.kind = "call", NEW c \in 1..l.id
       PROVE  \E j \in 1..n + 1 : b[j].kind = "call" /\ b[j].id = c
  <2>1. CASE c = l.id
    BY <1>2, <1>10, <2>1
  <2>2. CASE c # l.id
    <3>1. c \in 1..l.id - 1
      BY <1>4, <2>2
    <3>2. PICK j \in DOMAIN a : a[j].kind = "call" /\ a[j].id = c
      BY <1>10, <3>1 DEF NamesCall
    <3>3. QED
      BY <1>2, <3>2
  <2>3. QED
    BY <2>1, <2>2
<1>11. LineGood(b, n + 1, f)
  BY <1>2, <1>6, <1>8, <1>9, <1>10 DEF LineGood, NamesCall
<1>12. LogGood(b, f)
  BY <1>1, <1>11, LogGoodMore
<1>13. QED
  BY <1>3, <1>12

\* A line that opens a turn, or stands before one that does.
LEMMA OneMoreTurn ==
  ASSUME NEW f, NEW a, LogGood(a, f), NEW l \in LineRecs, Fits(l, f), ~GoesOn(l, f),
         \/ l.turn = NoTurn
         \/ /\ l.turn <= MaxTurns /\ \A j \in DOMAIN a : a[j].turn < l.turn
            /\ \A u \in 1..l.turn - 1 : \E j \in DOMAIN a : a[j].turn = u,
         l.id <= MaxCalls, NEW b, b = Append(a, l)
  PROVE  LogGood(b, f) /\ b # <<>> /\ Last(b) = l
<1>1. PICK n : n = Len(a)
  OBVIOUS
<1>2. /\ a \in Seq(LineRecs) /\ b \in Seq(LineRecs) /\ Len(b) = n + 1 /\ n \in Nat
      /\ DOMAIN a = 1..n /\ DOMAIN b = 1..n + 1
      /\ (n + 1) - 1 = n
      /\ b[n + 1] = l /\ \A j \in 1..n : b[j] = a[j]
  BY <1>1 DEF LogGood
<1>3. b # <<>> /\ Last(b) = l
  BY <1>2 DEF Last
<1>4. l.kind \in {"context", "prompt"} /\ l.turn \in Nat /\ MaxTurns \in Nat
  BY BoundsAssumption DEF LineRecs, GoesOn, Kinds
<1>5. LineOK(b, n + 1, f)
  <2>1. l.turn # NoTurn => \A j \in 1..n : b[j].turn < l.turn
    BY <1>2
  <2>2. QED
    BY <1>2, <1>4, <2>1 DEF LineOK
<1>6. ASSUME NEW t \in 1..l.turn PROVE \E j \in 1..n + 1 : b[j].turn = t
  <2>1. CASE t = l.turn
    BY <1>2, <2>1
  <2>2. CASE t # l.turn
    <3>1. t \in 1..l.turn - 1 /\ l.turn # NoTurn
      BY <1>4, <2>2 DEF NoTurn
    <3>2. PICK j \in DOMAIN a : a[j].turn = t
      BY <3>1
    <3>3. QED
      BY <1>2, <3>2
  <2>3. QED
    BY <2>1, <2>2
<1>7. l.turn <= MaxTurns
  BY <1>4 DEF NoTurn
<1>8. LineGood(b, n + 1, f)
  BY <1>2, <1>4, <1>5, <1>6, <1>7 DEF LineGood
<1>9. LogGood(b, f)
  BY <1>1, <1>8, LogGoodMore
<1>10. QED
  BY <1>3, <1>9

-----------------------------------------------------------------------------
(* What the CLI keeps of its log. *)

\* A turn is in flight, and its usage is not yet counted.
InTurn(lines) ==
  /\ lines # <<>> /\ Last(lines).turn # NoTurn
  /\ \A j \in DOMAIN lines : lines[j].kind = "usage" => lines[j].turn # Last(lines).turn

LogInv ==
  /\ format \in Formats /\ LogGood(log, format) /\ flushed \in 0..Len(log)
  /\ cli \in {"idle", "turn", "stopped", "ending", "gone"}
  /\ cli = "turn" => InTurn(log)

LEMMA LineIsLine ==
  \A kind \in Kinds, t \in Nat, s \in Nat \X Nat, c \in Nat, n \in Nat :
    LET l == Line(kind, t, s, c, n)
    IN  /\ l \in LineRecs /\ l.kind = kind /\ l.turn = t /\ l.id = c
BY DEF Line, LineRecs

LEMMA NoStepIsStep == NoStep \in Nat \X Nat
BY DEF NoStep

LEMMA LastIsLine ==
  ASSUME NEW f, NEW a, LogGood(a, f), a # <<>>
  PROVE  Len(a) \in DOMAIN a /\ Last(a) = a[Len(a)] /\ Last(a) \in LineRecs
         /\ Last(a).turn \in 0..MaxTurns
<1>1. Len(a) \in DOMAIN a /\ Last(a) = a[Len(a)]
  BY DEF LogGood, Last
<1>2. QED
  BY <1>1, LogGoodTyped

LEMMA MessageIsStep ==
  ASSUME LogGood(log, format), log # <<>>
  PROVE  Message \in Nat \X Nat
<1>1. PICK t : t = Last(log).turn
  OBVIOUS
<1>2. t \in Nat
  BY <1>1, LastIsLine
<1>3. Last(log).step \in Nat \X Nat
  BY LastIsLine DEF LineRecs
<1>4. PICK I : I = {j \in DOMAIN log : log[j].turn = t}
  OBVIOUS
<1>5. PICK T : T = {log[i].step : i \in I}
  OBVIOUS
<1>6. IsFiniteSet(I)
  <2>1. DOMAIN log = 1..Len(log) /\ Len(log) \in Nat
    BY DEF LogGood
  <2>2. IsFiniteSet(1..Len(log))
    BY <2>1, FS_Interval
  <2>3. I \in SUBSET (1..Len(log))
    BY <1>4, <2>1
  <2>4. QED
    BY <2>2, <2>3, FS_Subset
<1>7. IsFiniteSet(T)
  <2>1. PICK h : h = [i \in I |-> log[i].step]
    OBVIOUS
  <2>2. h \in Surjection(I, T)
    BY <1>5, <2>1 DEF Surjection
  <2>3. QED
    BY <1>6, <2>2, FS_Surjection
<1>8. Cardinality(T \ {NoStep}) \in Nat
  <2>1. T \ {NoStep} \in SUBSET T
    OBVIOUS
  <2>2. IsFiniteSet(T \ {NoStep})
    BY <1>7, <2>1, FS_Subset
  <2>3. QED
    BY <2>2, FS_CardinalityType
<1>9. Message = IF format # "claude" THEN <<t, 0>>
                ELSE IF Last(log).kind \in {"text", "call"} THEN Last(log).step
                ELSE <<t, Cardinality(T \ {NoStep}) + 1>>
  BY <1>1, <1>4, <1>5 DEF Message
<1>10. QED
  BY <1>2, <1>3, <1>8, <1>9

LEMMA TokensAreCounted ==
  ASSUME LogGood(log, format), NEW s
  PROVE  Tokens(s) \in Nat
<1>1. PICK T : T = Answers(log, s)
  OBVIOUS
<1>2. DOMAIN log = 1..Len(log) /\ Len(log) \in Nat
  BY DEF LogGood
<1>3. IsFiniteSet(1..Len(log)) /\ T \in SUBSET (1..Len(log))
  BY <1>1, <1>2, FS_Interval DEF Answers
<1>4. IsFiniteSet(T)
  BY <1>3, FS_Subset
<1>5. Cardinality(T) \in Nat
  BY <1>4, FS_CardinalityType
<1>6. QED
  BY <1>1, <1>5 DEF Tokens

\* A line of the turn in flight that does not count usage leaves it in flight.
LEMMA StaysInTurn ==
  ASSUME NEW a \in Seq(LineRecs), InTurn(a), NEW l \in LineRecs, l.turn = Last(a).turn,
         l.kind # "usage", NEW b, b = Append(a, l), b # <<>>, Last(b) = l
  PROVE  InTurn(b)
<1>1. DOMAIN b = 1..Len(a) + 1 /\ DOMAIN a = 1..Len(a) /\ Len(a) \in Nat
      /\ b[Len(a) + 1] = l /\ \A j \in DOMAIN a : b[j] = a[j]
  OBVIOUS
<1>2. \A j \in DOMAIN b : b[j].kind = "usage" => b[j].turn # l.turn
  BY <1>1 DEF InTurn
<1>3. QED
  BY <1>2 DEF InTurn

\* The line q that opens turn t, at the end of the lines a.
LEMMA TurnOpened ==
  ASSUME NEW f, NEW a, LogGood(a, f), NEW q, q \in LineRecs, Fits(q, f), ~GoesOn(q, f),
         q.kind # "usage", q.turn # NoTurn, q.turn <= MaxTurns, q.id = 0,
         \A j \in DOMAIN a : a[j].turn < q.turn,
         \A u \in 1..q.turn - 1 : \E j \in DOMAIN a : a[j].turn = u,
         NEW b, b = Append(a, q)
  PROVE  LogGood(b, f) /\ InTurn(b) /\ Begins(a, b)
<1>1. q.id <= MaxCalls
  BY BoundsAssumption
<1>2. LogGood(b, f) /\ b # <<>> /\ Last(b) = q
  BY <1>1, OneMoreTurn
<1>3. a \in Seq(LineRecs)
  BY DEF LogGood
<1>4. Begins(a, b) /\ b \in Seq(LineRecs) /\ Len(b) = Len(a) + 1
      /\ b[Len(a) + 1] = q /\ \A j \in DOMAIN a : b[j] = a[j]
  BY ONLY <1>3, q \in LineRecs, b = Append(a, q) DEF Begins
<1>5. \A j \in DOMAIN b : j = Len(a) + 1 \/ j \in DOMAIN a
  BY <1>3, <1>4
<1>6. \A j \in DOMAIN a : a[j].turn # q.turn
  <2>1. \A j \in DOMAIN a : a[j].turn \in Nat
    BY LogGoodTyped
  <2>2. q.turn \in Nat
    BY DEF LineRecs
  <2>3. QED
    BY <2>1, <2>2
<1>7. \A j \in DOMAIN b : b[j].kind = "usage" => b[j].turn # q.turn
  BY <1>4, <1>5, <1>6
<1>8. QED
  BY <1>2, <1>4, <1>7 DEF InTurn

LEMMA AskLog ==
  ASSUME LogInv, Ask
  PROVE  LogGood(log', format) /\ InTurn(log') /\ Begins(log, log')
<1>1. PICK t, f, a, b : /\ t = Cardinality(Turns(log)) + 1 /\ f = format
                        /\ a = log /\ b = log'
  OBVIOUS
<1>2. LogGood(a, f) /\ f \in Formats /\ a \in Seq(LineRecs)
  BY <1>1 DEF LogInv, LogGood
<1>3. /\ t \in Nat \ {0} /\ \A j \in DOMAIN a : a[j].turn < t
      /\ \A u \in 1..t - 1 : \E j \in DOMAIN a : a[j].turn = u
  <2>1. t = Cardinality(Turns(a)) + 1
    BY <1>1
  <2>2. QED
    BY ONLY <1>2, <2>1, NextTurn
<1>4. PICK d, q : /\ d = Line("context", IF f = "codex" THEN t ELSE NoTurn, NoStep, NoCall, 0)
                  /\ q = Line("prompt", t, NoStep, NoCall, 0)
  OBVIOUS
<1>5. t <= MaxTurns /\ b = a \o IF f = "claude" THEN <<q>> ELSE <<d, q>>
  BY <1>1, <1>4 DEF Ask
<1>6. /\ d \in LineRecs /\ d.kind = "context" /\ d.id = 0
      /\ d.turn = IF f = "codex" THEN t ELSE NoTurn
  <2>1. (IF f = "codex" THEN t ELSE NoTurn) \in Nat /\ "context" \in Kinds /\ NoCall \in Nat
    BY <1>3 DEF NoTurn, Kinds, NoCall
  <2>2. QED
    BY <1>4, <2>1, LineIsLine, NoStepIsStep DEF NoCall
<1>7. q \in LineRecs /\ q.kind = "prompt" /\ q.id = 0 /\ q.turn = t
  <2>1. t \in Nat /\ "prompt" \in Kinds /\ NoCall \in Nat
    BY <1>3 DEF Kinds, NoCall
  <2>2. QED
    BY <1>4, <2>1, LineIsLine, NoStepIsStep DEF NoCall
<1>8. Fits(q, f) /\ q.turn # NoTurn
  BY <1>3, <1>7 DEF Fits, NoTurn
<1>9. CASE f = "claude"
  <2>1. b = Append(a, q)
    BY ONLY <1>2, <1>5, <1>7, <1>9
  <2>2. ~GoesOn(q, f)
    BY <1>7, <1>9 DEF GoesOn
  <2>3. LogGood(b, f) /\ InTurn(b) /\ Begins(a, b)
    BY ONLY <1>2, <1>3, <1>5, <1>7, <1>8, <2>1, <2>2, TurnOpened
  <2>4. QED
    BY <1>1, <2>3
<1>10. CASE f # "claude"
  <2>1. PICK c : c = Append(a, d)
    OBVIOUS
  <2>2. b = Append(c, q)
    <3>1. b = a \o <<d, q>>
      BY <1>5, <1>10
    <3>2. QED
      BY ONLY <1>2, <1>6, <1>7, <2>1, <3>1
  <2>3. Fits(d, f) /\ ~GoesOn(d, f)
    BY <1>2, <1>3, <1>6, <1>10 DEF Fits, NoTurn, Formats, GoesOn
  <2>4. c \in Seq(LineRecs) /\ Begins(a, c) /\ Len(c) = Len(a) + 1 /\ c[Len(a) + 1] = d
        /\ \A j \in DOMAIN a : c[j] = a[j]
    BY ONLY <1>2, <1>6, <2>1 DEF Begins
  <2>5. LogGood(b, f) /\ InTurn(b) /\ Begins(c, b)
    <3>1. CASE f = "codex"
      <4>1. d.turn = t
        BY <1>6, <3>1
      <4>2. d.turn # NoTurn /\ d.turn <= MaxTurns /\ d.kind # "usage"
            /\ (\A j \in DOMAIN a : a[j].turn < d.turn)
            /\ (\A u \in 1..d.turn - 1 : \E j \in DOMAIN a : a[j].turn = u)
        BY <1>3, <1>5, <1>6, <4>1 DEF NoTurn
      <4>3. LogGood(c, f) /\ InTurn(c)
        BY ONLY <1>2, <1>6, <2>1, <2>3, <4>2, TurnOpened
      <4>4. c # <<>> /\ Last(c) = d
        BY <1>2, <2>4 DEF Last
      <4>5. q.turn = Last(c).turn /\ q.id <= MaxCalls
        BY <1>7, <4>1, <4>4, BoundsAssumption
      <4>6. LogGood(b, f) /\ b # <<>> /\ Last(b) = q
        <5>1. NamesCall(c, q) /\ CountsOnce(c, q)
          BY ONLY <1>7, Zenon DEF NamesCall, CountsOnce
        <5>2. /\ LogGood(c, f) /\ c # <<>> /\ q \in LineRecs /\ Fits(q, f)
              /\ q.turn # NoTurn /\ q.turn = Last(c).turn /\ q.id <= MaxCalls
              /\ (q.kind = "prompt" => f = "codex") /\ b = Append(c, q)
          BY ONLY <1>7, <1>8, <2>2, <3>1, <4>3, <4>4, <4>5
        <5>3. QED
          BY ONLY <5>1, <5>2, OneMoreLine, Zenon
      <4>7. InTurn(b)
        BY <1>7, <2>2, <2>4, <4>3, <4>5, <4>6, StaysInTurn
      <4>8. Begins(c, b)
        BY ONLY <1>7, <2>2, <2>4 DEF Begins
      <4>9. QED
        BY <4>6, <4>7, <4>8
    <3>2. CASE f # "codex"
      <4>1. d.turn = NoTurn /\ d.id <= MaxCalls
        BY <1>6, <3>2, BoundsAssumption
      <4>2. LogGood(c, f) /\ c # <<>> /\ Last(c) = d
        BY ONLY <1>2, <1>6, <2>1, <2>3, <4>1, OneMoreTurn
      <4>3. ~GoesOn(q, f)
        BY <1>7, <3>2 DEF GoesOn
      <4>4. \A j \in DOMAIN c : j \in DOMAIN a \/ j = Len(a) + 1
        BY <1>2, <2>4
      <4>5. \A j \in DOMAIN c : c[j].turn < q.turn
        BY <1>3, <1>7, <2>4, <4>1, <4>4 DEF NoTurn
      <4>6. ASSUME NEW u \in 1..q.turn - 1 PROVE \E j \in DOMAIN c : c[j].turn = u
        <5>1. PICK j \in DOMAIN a : a[j].turn = u
          BY <1>3, <1>7
        <5>2. j \in DOMAIN c
          BY <1>2, <2>4
        <5>3. QED
          BY <2>4, <5>1, <5>2
      <4>7. q.turn <= MaxTurns /\ q.kind # "usage"
        BY <1>5, <1>7
      <4>8. QED
        BY ONLY <1>7, <1>8, <2>2, <4>2, <4>3, <4>5, <4>6, <4>7, TurnOpened
    <3>3. QED
      BY <3>1, <3>2
  <2>6. Begins(a, b)
    <3>1. DOMAIN a \subseteq DOMAIN c /\ Len(a) \in Nat /\ Len(c) \in Nat /\ Len(b) \in Nat
      BY <1>2, <2>4, <2>5 DEF LogGood
    <3>2. QED
      BY <2>4, <2>5, <3>1 DEF Begins
  <2>7. QED
    BY <1>1, <2>5, <2>6
<1>11. QED
  BY <1>9, <1>10

\* A line of the turn in flight, at the end of the lines a.
LEMMA LineAdded ==
  ASSUME NEW f, NEW a, LogGood(a, f), InTurn(a), NEW l, l \in LineRecs, Fits(l, f),
         l.turn = Last(a).turn, l.id <= MaxCalls, l.kind # "prompt",
         NamesCall(a, l),
         NEW b, b = Append(a, l)
  PROVE  LogGood(b, f) /\ Begins(a, b) /\ (l.kind # "usage" => InTurn(b))
<1>1. a # <<>> /\ l.turn # NoTurn /\ a \in Seq(LineRecs)
  BY DEF InTurn, LogGood
<1>2. CountsOnce(a, l)
  BY DEF InTurn, CountsOnce
<1>3. LogGood(b, f) /\ b # <<>> /\ Last(b) = l
  <2>1. /\ LogGood(a, f) /\ l \in LineRecs /\ Fits(l, f) /\ l.turn = Last(a).turn
        /\ l.id <= MaxCalls /\ (l.kind = "prompt" => f = "codex") /\ NamesCall(a, l)
        /\ b = Append(a, l)
    OBVIOUS
  <2>2. QED
    BY ONLY <1>1, <1>2, <2>1, OneMoreLine
<1>4. Begins(a, b)
  BY <1>1 DEF Begins
<1>5. l.kind # "usage" => InTurn(b)
  BY <1>1, <1>3, StaysInTurn
<1>6. QED
  BY <1>3, <1>4, <1>5

LEMMA InFlight ==
  ASSUME LogInv, cli = "turn"
  PROVE  /\ LogGood(log, format) /\ InTurn(log) /\ log # <<>> /\ log \in Seq(LineRecs)
         /\ Last(log) \in LineRecs /\ Last(log).turn \in Nat /\ Last(log).turn # NoTurn
<1>1. LogGood(log, format) /\ InTurn(log)
  BY DEF LogInv
<1>2. log # <<>> /\ log \in Seq(LineRecs) /\ Last(log).turn # NoTurn
  BY <1>1 DEF InTurn, LogGood
<1>3. Last(log) \in LineRecs /\ Last(log).turn \in 0..MaxTurns
  BY <1>1, <1>2, LastIsLine
<1>4. QED
  BY <1>1, <1>2, <1>3

LEMMA NameAgainLog ==
  ASSUME LogInv, NameAgain
  PROVE  LogGood(log', format) /\ InTurn(log') /\ Begins(log, log')
<1>1. PICK t, f, a, b : t = Last(log).turn /\ f = format /\ a = log /\ b = log'
  OBVIOUS
<1>2. cli = "turn" /\ f = "codex"
  BY <1>1 DEF NameAgain
<1>3. LogGood(a, f) /\ InTurn(a) /\ t = Last(a).turn /\ t \in Nat /\ t # NoTurn
  BY <1>1, <1>2, InFlight
<1>4. PICK l : l = Line("context", t, NoStep, NoCall, 0)
  OBVIOUS
<1>5. l \in LineRecs /\ l.kind = "context" /\ l.turn = t /\ l.id = 0
  <2>1. "context" \in Kinds /\ NoCall \in Nat
    BY DEF Kinds, NoCall
  <2>2. QED
    BY <1>3, <1>4, <2>1, LineIsLine, NoStepIsStep DEF NoCall
<1>6. b = Append(a, l)
  BY <1>1, <1>4 DEF NameAgain
<1>7. Fits(l, f) /\ l.id <= MaxCalls
  BY <1>2, <1>3, <1>5, BoundsAssumption DEF Fits
<1>8. LogGood(b, f) /\ Begins(a, b) /\ InTurn(b)
  BY <1>3, <1>5, <1>6, <1>7, LineAdded DEF NamesCall
<1>9. QED
  BY <1>1, <1>8

LEMMA WriteLog ==
  ASSUME LogInv, Write
  PROVE  LogGood(log', format) /\ InTurn(log') /\ Begins(log, log')
<1>1. PICK t, f, a, b : t = Last(log).turn /\ f = format /\ a = log /\ b = log'
  OBVIOUS
<1>2. cli = "turn"
  BY DEF Write, MayAnswer
<1>3. LogGood(a, f) /\ InTurn(a) /\ t = Last(a).turn /\ t \in Nat /\ t # NoTurn
  BY <1>1, <1>2, InFlight
<1>4. PICK s, n : s = Message /\ n = Tokens(Message)
  OBVIOUS
<1>5. s \in Nat \X Nat /\ n \in Nat
  BY <1>2, <1>4, InFlight, MessageIsStep, TokensAreCounted
<1>6. PICK l : l = Line("text", t, s, NoCall, n)
  OBVIOUS
<1>7. l \in LineRecs /\ l.kind = "text" /\ l.turn = t /\ l.id = 0
  <2>1. "text" \in Kinds /\ NoCall \in Nat
    BY DEF Kinds, NoCall
  <2>2. QED
    <3>1. t \in Nat
      BY <1>3
    <3>2. QED
      BY ONLY <3>1, <1>5, <1>6, <2>1, SMTT(30) DEF NoCall, Line, LineRecs
<1>8. b = Append(a, l)
  BY <1>1, <1>4, <1>6 DEF Write
<1>9. Fits(l, f) /\ l.id <= MaxCalls
  BY <1>3, <1>7, BoundsAssumption DEF Fits
<1>10. LogGood(b, f) /\ Begins(a, b) /\ InTurn(b)
  BY <1>3, <1>7, <1>8, <1>9, LineAdded DEF NamesCall
<1>11. QED
  BY <1>1, <1>10

LEMMA CallLog ==
  ASSUME LogInv, Call
  PROVE  LogGood(log', format) /\ InTurn(log') /\ Begins(log, log')
<1>1. PICK t, f, a, b : t = Last(log).turn /\ f = format /\ a = log /\ b = log'
  OBVIOUS
<1>2. cli = "turn"
  BY DEF Call, MayAnswer
<1>3. LogGood(a, f) /\ InTurn(a) /\ t = Last(a).turn /\ t \in Nat /\ t # NoTurn
  BY <1>1, <1>2, InFlight
<1>4. PICK s, n, c : s = Message /\ n = Tokens(Message) /\ c = Cardinality(Names(log, "call")) + 1
  OBVIOUS
<1>5. s \in Nat \X Nat /\ n \in Nat
  BY <1>2, <1>4, InFlight, MessageIsStep, TokensAreCounted
<1>6. /\ c \in Nat \ {0} /\ \A j \in DOMAIN a : a[j].kind = "call" => a[j].id < c
      /\ \A u \in 1..c - 1 : \E j \in DOMAIN a : a[j].kind = "call" /\ a[j].id = u
  <2>1. c = Cardinality(Names(a, "call")) + 1
    BY <1>1, <1>4
  <2>2. QED
    BY ONLY <1>3, <2>1, NextCall
<1>7. PICK l : l = Line("call", t, s, c, n)
  OBVIOUS
<1>8. l \in LineRecs /\ l.kind = "call" /\ l.turn = t /\ l.id = c
  <2>1. "call" \in Kinds /\ c \in Nat
    BY <1>6 DEF Kinds
  <2>2. QED
    <3>1. t \in Nat
      BY <1>3
    <3>2. QED
      BY ONLY <3>1, <1>5, <1>7, <2>1, SMTT(30) DEF Line, LineRecs
<1>9. b = Append(a, l) /\ c <= MaxCalls
  BY <1>1, <1>4, <1>7 DEF Call
<1>10. Fits(l, f)
  BY <1>3, <1>8 DEF Fits
<1>11. NamesCall(a, l)
  BY <1>6, <1>8 DEF NamesCall, NoCall
<1>12. LogGood(b, f) /\ Begins(a, b) /\ InTurn(b)
  <2>1. l.id <= MaxCalls
    BY <1>8, <1>9
  <2>2. QED
    BY ONLY <1>3, <1>8, <1>9, <1>10, <1>11, <2>1, LineAdded
<1>13. QED
  BY <1>1, <1>12

LEMMA ReturnLog ==
  ASSUME LogInv, Return
  PROVE  LogGood(log', format) /\ InTurn(log') /\ Begins(log, log')
<1>1. PICK t, f, a, b : t = Last(log).turn /\ f = format /\ a = log /\ b = log'
  OBVIOUS
<1>2. PICK c \in Outstanding :
        /\ cli = "turn" /\ log' = Append(log, Line("result", Last(log).turn, NoStep, c, 0))
  BY DEF Return
<1>3. LogGood(a, f) /\ InTurn(a) /\ t = Last(a).turn /\ t \in Nat /\ t # NoTurn
  BY <1>1, <1>2, InFlight
<1>4. PICK i \in DOMAIN a : a[i].kind = "call" /\ a[i].id = c /\ a[i].turn = t
  BY <1>1 DEF Outstanding, Of
<1>5. c \in 0..MaxCalls
  BY <1>3, <1>4, LogGoodTyped
<1>6. PICK l : l = Line("result", t, NoStep, c, 0)
  OBVIOUS
<1>7. l \in LineRecs /\ l.kind = "result" /\ l.turn = t /\ l.id = c
  <2>1. "result" \in Kinds /\ c \in Nat
    BY <1>5, BoundsAssumption DEF Kinds
  <2>2. QED
    <3>1. t \in Nat
      BY <1>3
    <3>2. QED
      BY ONLY <3>1, <1>6, <2>1, NoStepIsStep, SMTT(30) DEF Line, LineRecs
<1>8. b = Append(a, l)
  BY <1>1, <1>2, <1>6
<1>9. Fits(l, f) /\ l.id <= MaxCalls
  BY <1>3, <1>5, <1>7, BoundsAssumption DEF Fits
<1>10. NamesCall(a, l)
  BY <1>4, <1>7 DEF NamesCall
<1>11. LogGood(b, f) /\ Begins(a, b) /\ InTurn(b)
  BY <1>3, <1>7, <1>8, <1>9, <1>10, LineAdded
<1>12. QED
  BY <1>1, <1>11

LEMMA StopLog ==
  ASSUME LogInv, Stop
  PROVE  LogGood(log', format) /\ Begins(log, log')
<1>1. cli = "turn" /\ log \in Seq(LineRecs) /\ LogGood(log, format)
  BY InFlight DEF Stop
<1>2. CASE format = "claude"
  BY <1>1, <1>2 DEF Stop, Begins
<1>3. CASE format # "claude"
  <2>1. PICK t, f, a, b, n : /\ t = Last(log).turn /\ f = format /\ a = log /\ b = log'
                             /\ n = Cardinality({i \in Of(log, "text") :
                                                   log[i].turn = Last(log).turn})
    OBVIOUS
  <2>2. LogGood(a, f) /\ InTurn(a) /\ t = Last(a).turn /\ t \in Nat /\ t # NoTurn
    BY <1>1, <2>1, InFlight
  <2>3. n \in Nat
    <3>1. PICK T : T = {i \in Of(log, "text") : log[i].turn = Last(log).turn}
      OBVIOUS
    <3>2. IsFiniteSet(1..Len(log)) /\ T \in SUBSET (1..Len(log))
      BY <1>1, <3>1, FS_Interval DEF Of
    <3>3. IsFiniteSet(T)
      BY <3>2, FS_Subset
    <3>4. QED
      BY <2>1, <3>1, <3>3, FS_CardinalityType
  <2>4. PICK l : l = Line("usage", t, NoStep, NoCall, n)
    OBVIOUS
  <2>5. l \in LineRecs /\ l.kind = "usage" /\ l.turn = t /\ l.id = 0
    <3>1. "usage" \in Kinds /\ NoCall \in Nat
      BY DEF Kinds, NoCall
    <3>2. QED
      <4>1. t \in Nat
        BY <2>2
      <4>2. QED
        BY ONLY <4>1, <2>3, <2>4, <3>1, NoStepIsStep, SMTT(30) DEF NoCall, Line, LineRecs
  <2>6. b = Append(a, l)
    BY <1>3, <2>1, <2>4 DEF Stop
  <2>7. Fits(l, f) /\ l.id <= MaxCalls
    BY <1>3, <2>1, <2>2, <2>5, BoundsAssumption DEF Fits
  <2>8. LogGood(b, f) /\ Begins(a, b)
    BY <2>2, <2>5, <2>6, <2>7, LineAdded DEF NamesCall
  <2>9. QED
    BY <2>1, <2>8
<1>4. QED
  BY <1>2, <1>3

LEMMA SubSeqIs ==
  ASSUME NEW a, a \in Seq(LineRecs), NEW m, m \in 0..Len(a), NEW c, c = SubSeq(a, 1, m)
  PROVE  /\ c \in Seq(LineRecs) /\ Len(c) = m /\ DOMAIN c = 1..m /\ Begins(c, a)
         /\ \A j \in 1..m : c[j] = a[j]
<1>1. c \in Seq(LineRecs) /\ Len(c) = m /\ \A j \in 1..m : c[j] = a[j]
  OBVIOUS
<1>2. Len(a) \in Nat /\ DOMAIN c = 1..m /\ m <= Len(a)
  BY <1>1
<1>3. QED
  BY <1>1, <1>2 DEF Begins

LEMMA FileIs ==
  ASSUME LogInv
  PROVE  /\ File \in Seq(LineRecs) /\ Len(File) = flushed /\ DOMAIN File = 1..flushed
         /\ log \in Seq(LineRecs)
         /\ Begins(File, log) /\ \A j \in 1..flushed : File[j] = log[j]
         /\ LogGood(File, format) /\ flushed \in Nat
<1>1. LogGood(log, format) /\ log \in Seq(LineRecs) /\ flushed \in 0..Len(log)
  BY DEF LogInv, LogGood
<1>2. PICK c : c = File
  OBVIOUS
<1>3. c = SubSeq(log, 1, flushed)
  BY <1>2 DEF File
<1>4. /\ c \in Seq(LineRecs) /\ Len(c) = flushed /\ DOMAIN c = 1..flushed /\ Begins(c, log)
      /\ \A j \in 1..flushed : c[j] = log[j]
  <2>1. PICK a, m : a = log /\ m = flushed
    OBVIOUS
  <2>2. a \in Seq(LineRecs) /\ m \in 0..Len(a) /\ c = SubSeq(a, 1, m)
    BY <1>1, <1>3, <2>1
  <2>3. c \in Seq(LineRecs) /\ Len(c) = m /\ \A j \in 1..m : c[j] = a[j]
    BY ONLY <2>2
  <2>4. DOMAIN c = 1..m /\ m <= Len(a)
    BY ONLY <2>2, <2>3
  <2>5. Begins(c, a)
    BY ONLY <2>3, <2>4 DEF Begins
  <2>6. QED
    BY ONLY <2>1, <2>3, <2>4, <2>5
<1>5. LogGood(c, format)
  BY <1>1, <1>4, LogGoodBegins
<1>6. QED
  BY <1>1, <1>2, <1>4, <1>5

LEMMA FileBegins ==
  ASSUME NEW a, a \in Seq(LineRecs), NEW b, b \in Seq(LineRecs), Begins(a, b),
         NEW m, m \in 0..Len(a), NEW n, n \in m..Len(b)
  PROVE  Begins(SubSeq(a, 1, m), SubSeq(b, 1, n))
<1>1. PICK c, d : c = SubSeq(a, 1, m) /\ d = SubSeq(b, 1, n)
  OBVIOUS
<1>2. Len(a) \in Nat /\ Len(b) \in Nat /\ m \in Nat /\ n \in 0..Len(b) /\ m <= n
  OBVIOUS
<1>3. Len(c) = m /\ DOMAIN c = 1..m /\ \A j \in 1..m : c[j] = a[j]
  BY <1>1, SubSeqIs
<1>4. Len(d) = n /\ \A j \in 1..n : d[j] = b[j]
  BY <1>1, <1>2, SubSeqIs
<1>5. \A j \in 1..m : a[j] = b[j] /\ j \in 1..n
  BY <1>2 DEF Begins
<1>6. \A j \in DOMAIN c : c[j] = d[j]
  BY <1>3, <1>4, <1>5
<1>7. QED
  BY <1>1, <1>2, <1>3, <1>4, <1>6 DEF Begins

\* A step that adds to the log and leaves the file alone, or takes in more of it.
LEMMA LogGrows ==
  ASSUME LogInv, LogGood(log', format'), Begins(log, log'), format' = format,
         flushed' \in flushed..Len(log'),
         cli' \in {"idle", "turn", "stopped", "ending", "gone"}, cli' = "turn" => InTurn(log')
  PROVE  LogInv' /\ Begins(File, File')
<1>1. log \in Seq(LineRecs) /\ log' \in Seq(LineRecs) /\ flushed \in 0..Len(log)
  BY DEF LogInv, LogGood
<1>2. flushed' \in 0..Len(log')
  BY <1>1
<1>3. Begins(SubSeq(log, 1, flushed), SubSeq(log', 1, flushed'))
  BY <1>1, FileBegins
<1>4. QED
  BY <1>2, <1>3 DEF LogInv, File

LEMMA LogStays ==
  ASSUME LogInv, UNCHANGED <<format, log, flushed>>,
         cli' \in {"idle", "stopped", "ending", "gone"} \/ cli' = cli
  PROVE  LogInv' /\ Begins(File, File')
<1>1. LogInv'
  BY DEF LogInv
<1>2. Begins(File, File)
  BY FileIs DEF Begins
<1>3. QED
  BY <1>1, <1>2 DEF File

LEMMA LogStep ==
  ASSUME LogInv, [Next]_vars
  PROVE  LogInv' /\ Begins(File, File') /\ format' = format
<1>1. /\ log \in Seq(LineRecs) /\ flushed \in 0..Len(log) /\ format \in Formats
      /\ Len(log) \in Nat /\ flushed \in Nat
      /\ cli \in {"idle", "turn", "stopped", "ending", "gone"}
  BY DEF LogInv, LogGood
<1>2. ASSUME LogGood(log', format), Begins(log, log'), InTurn(log'), OnlyLog, cli' = "turn"
      PROVE  LogInv' /\ Begins(File, File') /\ format' = format
  <2>1. format' = format /\ flushed' = flushed
    BY <1>2 DEF OnlyLog
  <2>2. Len(log') \in Nat /\ Len(log) <= Len(log')
    BY <1>2 DEF LogGood, Begins
  <2>3. flushed' \in flushed..Len(log')
    BY <1>1, <2>1, <2>2
  <2>4. LogGood(log', format')
    BY <1>2, <2>1
  <2>5. QED
    BY <1>2, <2>1, <2>3, <2>4, LogGrows
<1>3. CASE Ask
  <2>1. cli' = "turn" /\ OnlyLog
    BY <1>3 DEF Ask
  <2>2. QED
    BY <1>2, <1>3, <2>1, AskLog
<1>4. CASE NameAgain
  <2>1. cli' = "turn" /\ OnlyLog
    BY <1>4 DEF NameAgain
  <2>2. QED
    BY <1>2, <1>4, <2>1, NameAgainLog
<1>5. CASE Write
  <2>1. cli' = "turn" /\ OnlyLog
    BY <1>5 DEF Write, MayAnswer
  <2>2. QED
    BY <1>2, <1>5, <2>1, WriteLog
<1>6. CASE Call
  <2>1. cli' = "turn" /\ OnlyLog
    BY <1>6 DEF Call, MayAnswer
  <2>2. QED
    BY <1>2, <1>6, <2>1, CallLog
<1>7. CASE Return
  <2>1. cli' = "turn" /\ OnlyLog
    BY <1>7 DEF Return
  <2>2. QED
    BY <1>2, <1>7, <2>1, ReturnLog
<1>8. CASE Flush
  <2>1. /\ flushed < Len(log) /\ flushed' = flushed + 1 /\ log' = log /\ format' = format
        /\ cli' = cli
    BY <1>8 DEF Flush
  <2>2. flushed' \in flushed..Len(log') /\ LogGood(log', format') /\ (cli' = "turn" => InTurn(log'))
    BY <1>1, <2>1 DEF LogInv
  <2>3. Begins(log, log')
    BY <1>1, <2>1 DEF Begins
  <2>4. QED
    BY <1>1, <2>1, <2>2, <2>3, LogGrows
<1>9. CASE Stop
  <2>1. /\ cli' = "stopped" /\ format' = format
        /\ IF format = "claude" THEN UNCHANGED <<log, flushed>> ELSE flushed' = Len(log')
    BY <1>9 DEF Stop
  <2>2. LogGood(log', format') /\ Begins(log, log')
    BY <1>9, <2>1, StopLog
  <2>3. Len(log') \in Nat /\ Len(log) <= Len(log')
    BY <2>2 DEF LogGood, Begins
  <2>4. flushed' \in flushed..Len(log')
    BY <1>1, <2>1, <2>3
  <2>5. QED
    BY <2>1, <2>2, <2>4, LogGrows
<1>10. CASE Kill
  <2>1. log' = File /\ cli' = "gone" /\ flushed' = flushed /\ format' = format
    BY <1>10 DEF Kill
  <2>2. LogGood(log', format') /\ Len(log') = flushed /\ log' \in Seq(LineRecs)
    BY <2>1, FileIs
  <2>3. LogInv'
    BY <1>1, <2>1, <2>2 DEF LogInv
  <2>4. PICK a : a = File
    OBVIOUS
  <2>5. a \in Seq(LineRecs) /\ Len(a) = flushed
    BY <2>4, FileIs
  <2>6. File' = SubSeq(a, 1, flushed)
    BY <2>1, <2>4 DEF File
  <2>7. SubSeq(a, 1, flushed) = a
    BY <1>1, <2>5
  <2>8. Begins(a, a)
    BY <1>1, <2>5 DEF Begins
  <2>9. QED
    BY <2>1, <2>3, <2>4, <2>6, <2>7, <2>8
<1>11. CASE SessionEnd \/ HookOver \/ Resume
  BY <1>11, LogStays DEF SessionEnd, HookOver, Resume
<1>12. CASE Hook
  <2>1. UNCHANGED <<format, log, flushed, cli>>
    BY <1>12 DEF Hook, LoadSent, Settle, GiveUp, Refused, Export, ExportFails, Truncate,
                 RecordSent, RecordFails, cliVars
  <2>2. QED
    BY <2>1, LogStays
<1>13. CASE UNCHANGED vars
  <2>1. UNCHANGED <<format, log, flushed, cli>>
    BY <1>13 DEF vars, cliVars
  <2>2. QED
    BY <2>1, LogStays
<1>14. QED
  BY <1>3, <1>4, <1>5, <1>6, <1>7, <1>8, <1>9, <1>10, <1>11, <1>12, <1>13 DEF Next, Cli

LEMMA LogInit ==
  ASSUME Init
  PROVE  LogInv
<1>1. log = <<>> /\ flushed = 0 /\ cli = "idle" /\ format \in Formats
  BY DEF Init
<1>2. LogGood(log, format)
  BY <1>1 DEF LogGood
<1>3. QED
  BY <1>1, <1>2 DEF LogInv

-----------------------------------------------------------------------------
(* The turns that have been read, as a set, and the spans they make. *)

\* The turns of the first i lines.
Read(f, lines, i) == Range(Reading(f, lines)[i].turns)

LEMMA ReadIs ==
  ASSUME NEW f \in Formats, NEW lines, LogGood(lines, f), NEW i \in 0..Len(lines),
         NEW R, R = Read(f, lines, i)
  PROVE  /\ R \subseteq TurnRecs
         /\ \A t \in R : /\ t.id \in 1..MaxTurns /\ (t.steps # <<>> => t.ended)
                         /\ \E j \in 1..i : lines[j].turn = t.id
         /\ \A t, u \in R : t.id = u.id => t = u
<1>1. lines \in Seq(LineRecs) /\ LogOK(lines, f) /\ Len(lines) \in Nat
  BY LogGoodIsOK
<1>2. PICK p : p = Reading(f, lines)[i]
  OBVIOUS
<1>3. ReadSoFar(p, lines, i, f)
  BY <1>1, <1>2, ReadsAll
<1>4. /\ DOMAIN p.turns \subseteq Nat
      /\ \A n \in DOMAIN p.turns : p.turns[n] \in TurnRecs
  BY <1>3, TurnsAreTurns DEF ReadSoFar
<1>5. R = {p.turns[n] : n \in DOMAIN p.turns}
  BY <1>2 DEF Read, Range
<1>6. ASSUME NEW n \in DOMAIN p.turns
      PROVE  /\ p.turns[n].id \in 1..MaxTurns /\ (p.turns[n].steps # <<>> => p.turns[n].ended)
             /\ \E j \in 1..i : lines[j].turn = p.turns[n].id
  <2>1. PICK j \in 1..i : lines[j].turn = p.turns[n].id
    BY <1>3 DEF ReadSoFar
  <2>2. lines[j].turn \in 0..MaxTurns
    BY LogGoodTyped
  <2>3. p.turns[n].id # 0
    BY <1>3 DEF ReadSoFar, NoTurn
  <2>4. p.turns[n].steps # <<>> => p.turns[n].ended
    BY <1>3 DEF ReadSoFar, Sound
  <2>5. QED
    BY <2>1, <2>2, <2>3, <2>4, BoundsAssumption
<1>7. ASSUME NEW m \in DOMAIN p.turns, NEW n \in DOMAIN p.turns, p.turns[m].id = p.turns[n].id
      PROVE  m = n
  <2>1. /\ m < n => p.turns[m].id < p.turns[n].id
        /\ n < m => p.turns[n].id < p.turns[m].id
    BY <1>3 DEF ReadSoFar
  <2>2. p.turns[n].id \in Nat /\ m \in Nat /\ n \in Nat
    BY <1>4 DEF TurnRecs
  <2>3. QED
    BY <1>7, <2>1, <2>2
<1>8. QED
  BY <1>4, <1>5, <1>6, <1>7

LEMMA ReadGrows ==
  ASSUME NEW f \in Formats, NEW lines, LogGood(lines, f), NEW i \in 0..Len(lines),
         NEW j \in i..Len(lines), NEW t \in Read(f, lines, i)
  PROVE  /\ \E u \in Read(f, lines, j) : TurnGrows(t, u)
         /\ (\A k \in i + 1..j : lines[k].turn # t.id) => t \in Read(f, lines, j)
<1>1. lines \in Seq(LineRecs) /\ LogOK(lines, f)
  BY LogGoodIsOK
<1>2. PICK g : g = Reading(f, lines)
  OBVIOUS
<1>3. PICK n \in DOMAIN g[i].turns : t = g[i].turns[n]
  BY <1>2 DEF Read, Range
<1>4. /\ Continues(g[i], g[j])
      /\ (\A k \in i + 1..j : lines[k].turn # g[i].turns[n].id)
           => g[j].turns[n] = g[i].turns[n]
  BY <1>1, <1>2, ReadingContinues
<1>5. n \in DOMAIN g[j].turns /\ TurnGrows(t, g[j].turns[n])
  BY <1>3, <1>4 DEF Continues
<1>6. g[j].turns[n] \in Read(f, lines, j)
  BY <1>2, <1>5 DEF Read, Range
<1>7. QED
  BY <1>3, <1>4, <1>5, <1>6

\* A turn read again is the turn read before, grown.
LEMMA ReadAgain ==
  ASSUME NEW f \in Formats, NEW lines, LogGood(lines, f), NEW i \in 0..Len(lines),
         NEW j \in i..Len(lines), NEW t \in Read(f, lines, i), NEW u \in Read(f, lines, j),
         u.id = t.id
  PROVE  TurnGrows(t, u)
<1>1. PICK w \in Read(f, lines, j) : TurnGrows(t, w)
  BY ReadGrows
<1>2. w.id = u.id
  BY <1>1 DEF TurnGrows
<1>3. Len(lines) \in Nat
  BY DEF LogGood
<1>4. j \in 0..Len(lines)
  BY <1>3
<1>5. w = u
  BY <1>2, <1>4, ReadIs
<1>6. QED
  BY <1>1, <1>5

LEMMA ReadSame ==
  ASSUME NEW f \in Formats, NEW a \in Seq(LineRecs), NEW b, LogGood(b, f), Begins(a, b),
         NEW i \in 0..Len(a)
  PROVE  Read(f, a, i) = Read(f, b, i)
<1>1. b \in Seq(LineRecs) /\ LogOK(b, f)
  BY LogGoodIsOK
<1>2. Reading(f, a)[i] = Reading(f, b)[i]
  BY <1>1, SameReading
<1>3. QED
  BY <1>2 DEF Read

LEMMA SpanIDsAre ==
  ASSUME NEW t \in TurnRecs, NEW k
  PROVE  k \in SpanIDs(t) <=>
           \E i \in DOMAIN t.steps : \E j \in 0..Len(t.steps[i].calls) : k = <<t.id, i, j>>
BY DEF SpanIDs

\* What of a span may change: how much it says.
RowGrows(k, a, b) ==
  /\ b.of = a.of
  /\ k[3] = 0 => /\ a.said <= b.said /\ a.usage <= b.usage
                 /\ IsPrefix(a.calls, b.calls) /\ a.context = b.context
  /\ k[3] > 0 => (a.done => b.done)

LEMMA SpansGrow ==
  ASSUME NEW t \in TurnRecs, NEW u \in TurnRecs, TurnGrows(t, u), NEW k \in SpanIDs(t)
  PROVE  k \in SpanIDs(u) /\ RowGrows(k, TurnSpans(t)[k], TurnSpans(u)[k])
<1>1. PICK i \in DOMAIN t.steps : \E j \in 0..Len(t.steps[i].calls) : k = <<t.id, i, j>>
  BY SpanIDsAre
<1>2. PICK j \in 0..Len(t.steps[i].calls) : k = <<t.id, i, j>>
  BY <1>1
<1>3. t.steps \in Seq(StepRecs) /\ u.steps \in Seq(StepRecs) /\ Len(t.steps) <= Len(u.steps)
  BY DEF TurnRecs, TurnGrows
<1>4. i \in DOMAIN u.steps
  BY <1>3
<1>5. PICK a, b : a = t.steps[i] /\ b = u.steps[i]
  OBVIOUS
<1>6. a \in StepRecs /\ b \in StepRecs /\ StepGrows(a, b)
  BY <1>3, <1>4, <1>5 DEF TurnGrows
<1>7. a.calls \in Seq(CallRecs) /\ b.calls \in Seq(CallRecs) /\ Len(a.calls) <= Len(b.calls)
  BY <1>6 DEF StepRecs, StepGrows
<1>8. k = <<u.id, i, j>> /\ j \in 0..Len(b.calls)
  BY <1>2, <1>5, <1>7 DEF TurnGrows
<1>9. k \in SpanIDs(u)
  BY <1>4, <1>5, <1>8, SpanIDsAre
<1>10. CASE j = 0
  <2>1. TurnSpans(t)[k] = StepSpan(a) /\ TurnSpans(u)[k] = StepSpan(b) /\ k[3] = 0
    BY <1>2, <1>5, <1>9, <1>10 DEF TurnSpans
  <2>2. PICK c, d : c = ToolCallsAttr(a.calls) /\ d = ToolCallsAttr(b.calls)
    OBVIOUS
  <2>3. /\ c = [n \in 1..Len(a.calls) |-> a.calls[n].id]
        /\ d = [n \in 1..Len(b.calls) |-> b.calls[n].id]
    BY <1>7, <2>2 DEF ToolCallsAttr
  <2>4. c \in Seq(Nat) /\ d \in Seq(Nat) /\ Len(c) = Len(a.calls) /\ Len(d) = Len(b.calls)
    <3>1. /\ \A n \in 1..Len(a.calls) : a.calls[n].id \in Nat
          /\ \A n \in 1..Len(b.calls) : b.calls[n].id \in Nat
      <4>1. \A x \in CallRecs : x.id \in Nat
        BY DEF CallRecs
      <4>2. /\ \A n \in 1..Len(a.calls) : a.calls[n] \in CallRecs
            /\ \A n \in 1..Len(b.calls) : b.calls[n] \in CallRecs
        BY <1>7
      <4>3. QED
        BY ONLY <4>1, <4>2
    <3>2. QED
      BY <1>7, <2>3, <3>1
  <2>5. \A n \in 1..Len(a.calls) : c[n] = d[n]
    BY <1>6, <1>7, <2>3 DEF StepGrows
  <2>6. SubSeq(c, 1, Len(c)) = SubSeq(d, 1, Len(c))
    BY <1>7, <2>4, <2>5
  <2>7. IsPrefix(c, d)
    BY <1>7, <2>4, <2>6 DEF IsPrefix
  <2>8. QED
    BY <1>6, <1>9, <2>1, <2>2, <2>7 DEF RowGrows, StepSpan, StepGrows, ContextEvents
<1>11. CASE j > 0
  <2>1. TurnSpans(t)[k] = ToolSpan(a.calls[j]) /\ TurnSpans(u)[k] = ToolSpan(b.calls[j]) /\ k[3] > 0
    BY <1>2, <1>5, <1>9, <1>11 DEF TurnSpans
  <2>2. j \in DOMAIN a.calls
    BY <1>5, <1>7, <1>11
  <2>3. b.calls[j].id = a.calls[j].id /\ (a.calls[j].done => b.calls[j].done)
    BY <1>6, <2>2 DEF StepGrows
  <2>4. k[3] # 0
    BY <1>2, <1>11
  <2>5. /\ TurnSpans(t)[k].of = a.calls[j].id /\ TurnSpans(u)[k].of = b.calls[j].id
        /\ TurnSpans(t)[k].done = a.calls[j].done /\ TurnSpans(u)[k].done = b.calls[j].done
    BY <2>1 DEF ToolSpan
  <2>6. QED
    BY ONLY <1>9, <2>3, <2>4, <2>5 DEF RowGrows
<1>12. QED
  BY <1>10, <1>11

-----------------------------------------------------------------------------
(* The rows of the Tracing service come from readings of the file. *)

\* v is the span k of a turn that the first m lines, or fewer, tell of.
From(k, v, f, lines, m) ==
  \E i \in 0..m : \E t \in Read(f, lines, i) : k \in SpanIDs(t) /\ v = TurnSpans(t)[k]

RowsFrom(r, f, lines, m) == \A k \in DOMAIN r : From(k, r[k], f, lines, m)

\* What a hook that read the first m lines has to send.
ToSend(f, lines, m, done) == {t \in Read(f, lines, m) : t.id \notin done}

LEMMA SpanOfTurn ==
  ASSUME NEW t \in TurnRecs, NEW k \in SpanIDs(t)
  PROVE  k[1] = t.id /\ t.steps # <<>>
<1>1. PICK i \in DOMAIN t.steps : \E j \in 0..Len(t.steps[i].calls) : k = <<t.id, i, j>>
  BY SpanIDsAre
<1>2. PICK j \in 0..Len(t.steps[i].calls) : k = <<t.id, i, j>>
  BY <1>1
<1>3. k[1] = t.id
  BY <1>2
<1>4. t.steps # <<>>
  BY <1>1
<1>5. QED
  BY <1>3, <1>4

LEMMA RowsFromMore ==
  ASSUME NEW f \in Formats, NEW a \in Seq(LineRecs), NEW b, LogGood(b, f), Begins(a, b),
         NEW m \in 0..Len(a), NEW n \in m..Len(b), NEW r, RowsFrom(r, f, a, m)
  PROVE  RowsFrom(r, f, b, n)
<1>1. ASSUME NEW k \in DOMAIN r PROVE From(k, r[k], f, b, n)
  <2>1. PICK i \in 0..m : \E t \in Read(f, a, i) : k \in SpanIDs(t) /\ r[k] = TurnSpans(t)[k]
    BY DEF RowsFrom, From
  <2>2. Len(a) \in Nat /\ Len(b) \in Nat
    BY DEF LogGood
  <2>3. i \in 0..n /\ i \in 0..Len(a)
    BY <2>2
  <2>4. Read(f, a, i) = Read(f, b, i)
    BY <2>3, ReadSame
  <2>5. QED
    BY <2>1, <2>3, <2>4 DEF From
<1>2. QED
  BY <1>1 DEF RowsFrom

LEMMA LandedIs ==
  ASSUME NEW f \in Formats, NEW lines, LogGood(lines, f), NEW m \in 0..Len(lines),
         NEW done, NEW S, S = ToSend(f, lines, m, done), NEW L, L = Landed(S)
  PROVE  /\ \A t \in S : \A k \in SpanIDs(t) : k \in DOMAIN L /\ L[k] = TurnSpans(t)[k]
         /\ \A k \in DOMAIN L : \/ \E t \in S : k \in SpanIDs(t)
                                \/ k \in DOMAIN rows /\ L[k] = rows[k]
         /\ DOMAIN rows \subseteq DOMAIN L
<1>1. PICK made : made = UNION {SpanIDs(t) : t \in S}
  OBVIOUS
<1>2. L = [k \in DOMAIN rows \union made |->
             IF k \in made THEN TurnSpans(CHOOSE t \in S : k \in SpanIDs(t))[k] ELSE rows[k]]
  BY <1>1 DEF Landed
<1>3. S \subseteq TurnRecs /\ \A t, u \in S : t.id = u.id => t = u
  BY ReadIs DEF ToSend
<1>4. ASSUME NEW t \in S, NEW k \in SpanIDs(t)
      PROVE  k \in DOMAIN L /\ L[k] = TurnSpans(t)[k]
  <2>1. k \in made
    BY <1>1
  <2>2. PICK u : u = CHOOSE w \in S : k \in SpanIDs(w)
    OBVIOUS
  <2>3. u \in S /\ k \in SpanIDs(u)
    BY <2>2
  <2>4. u.id = t.id
    <3>1. k[1] = t.id /\ k[1] = u.id
      BY <1>3, <2>3, SpanOfTurn
    <3>2. QED
      BY <3>1
  <2>5. u = t
    BY <1>3, <2>3, <2>4
  <2>6. QED
    BY <1>2, <2>1, <2>2, <2>5
<1>5. ASSUME NEW k \in DOMAIN L, ~\E t \in S : k \in SpanIDs(t)
      PROVE  k \in DOMAIN rows /\ L[k] = rows[k]
  <2>1. k \notin made
    BY <1>1, <1>5
  <2>2. QED
    BY <1>2, <2>1
<1>6. DOMAIN rows \subseteq DOMAIN L
  BY <1>2
<1>7. QED
  BY <1>4, <1>5, <1>6

LEMMA LandedFrom ==
  ASSUME NEW f \in Formats, NEW lines, LogGood(lines, f), NEW m \in 0..Len(lines),
         NEW done, NEW S, S = ToSend(f, lines, m, done), NEW L, L = Landed(S),
         RowsFrom(rows, f, lines, m)
  PROVE  RowsFrom(L, f, lines, m)
<1>1. /\ \A t \in S : \A k \in SpanIDs(t) : k \in DOMAIN L /\ L[k] = TurnSpans(t)[k]
      /\ \A k \in DOMAIN L : \/ \E t \in S : k \in SpanIDs(t)
                             \/ k \in DOMAIN rows /\ L[k] = rows[k]
  BY LandedIs
<1>2. ASSUME NEW k \in DOMAIN L PROVE From(k, L[k], f, lines, m)
  <2>1. CASE \E t \in S : k \in SpanIDs(t)
    <3>1. PICK t \in S : k \in SpanIDs(t)
      BY <2>1
    <3>2. t \in Read(f, lines, m) /\ L[k] = TurnSpans(t)[k] /\ m \in 0..m
      BY <1>1, <3>1 DEF ToSend
    <3>3. QED
      BY <3>1, <3>2 DEF From
  <2>2. CASE k \in DOMAIN rows /\ L[k] = rows[k]
    BY <2>2 DEF RowsFrom
  <2>3. QED
    BY <1>1, <2>1, <2>2
<1>3. QED
  BY <1>2 DEF RowsFrom

\* A row that a turn read by now has made may be made by it again.
LEMMA FromAgain ==
  ASSUME NEW f \in Formats, NEW lines, LogGood(lines, f), NEW m \in 0..Len(lines),
         NEW k, NEW v, From(k, v, f, lines, m)
  PROVE  /\ \E u \in Read(f, lines, m) : u.id = k[1] /\ u.ended
         /\ \A u \in Read(f, lines, m) :
              u.id = k[1] => k \in SpanIDs(u) /\ RowGrows(k, v, TurnSpans(u)[k])
         /\ RowGrows(k, v, v)
<1>1. PICK i \in 0..m : \E t \in Read(f, lines, i) : k \in SpanIDs(t) /\ v = TurnSpans(t)[k]
  BY DEF From
<1>2. PICK t \in Read(f, lines, i) : k \in SpanIDs(t) /\ v = TurnSpans(t)[k]
  BY <1>1
<1>3. Len(lines) \in Nat
  BY DEF LogGood
<1>4. i \in 0..Len(lines) /\ m \in i..Len(lines)
  BY <1>3
<1>5. t \in TurnRecs /\ (t.steps # <<>> => t.ended)
  BY <1>4, ReadIs
<1>6. k[1] = t.id /\ t.ended
  BY <1>2, <1>5, SpanOfTurn
<1>7. \E u \in Read(f, lines, m) : u.id = k[1] /\ u.ended
  <2>1. PICK u \in Read(f, lines, m) : TurnGrows(t, u)
    BY <1>4, ReadGrows
  <2>2. QED
    BY <1>6, <2>1 DEF TurnGrows
<1>8. ASSUME NEW u \in Read(f, lines, m), u.id = k[1]
      PROVE  k \in SpanIDs(u) /\ RowGrows(k, v, TurnSpans(u)[k])
  <2>1. TurnGrows(t, u)
    BY <1>4, <1>6, <1>8, ReadAgain
  <2>2. u \in TurnRecs
    BY ReadIs
  <2>3. QED
    BY <1>2, <1>5, <2>1, <2>2, SpansGrow
<1>9. RowGrows(k, v, v)
  BY <1>2, <1>5, TurnsGrow, SpansGrow
<1>10. QED
  BY <1>7, <1>8, <1>9

LEMMA LandedGrows ==
  ASSUME NEW f \in Formats, NEW lines, LogGood(lines, f), NEW m \in 0..Len(lines),
         NEW done, NEW S, S = ToSend(f, lines, m, done), NEW L, L = Landed(S),
         RowsFrom(rows, f, lines, m), NEW k \in DOMAIN rows
  PROVE  k \in DOMAIN L /\ RowGrows(k, rows[k], L[k])
<1>1. /\ \A t \in S : \A j \in SpanIDs(t) : j \in DOMAIN L /\ L[j] = TurnSpans(t)[j]
      /\ \A j \in DOMAIN L : \/ \E t \in S : j \in SpanIDs(t)
                             \/ j \in DOMAIN rows /\ L[j] = rows[j]
      /\ DOMAIN rows \subseteq DOMAIN L
  BY LandedIs
<1>2. From(k, rows[k], f, lines, m)
  BY DEF RowsFrom
<1>3. CASE \E t \in S : k \in SpanIDs(t)
  <2>1. PICK t \in S : k \in SpanIDs(t)
    BY <1>3
  <2>2. t \in Read(f, lines, m)
    BY DEF ToSend
  <2>3. t \in TurnRecs
    BY <2>2, ReadIs
  <2>4. k[1] = t.id
    BY <2>1, <2>3, SpanOfTurn
  <2>5. RowGrows(k, rows[k], TurnSpans(t)[k])
    BY <1>2, <2>2, <2>4, FromAgain
  <2>6. QED
    BY <1>1, <2>1, <2>5
<1>4. CASE ~\E t \in S : k \in SpanIDs(t)
  <2>1. L[k] = rows[k] /\ k \in DOMAIN L
    BY <1>1, <1>4
  <2>2. QED
    BY <1>2, <2>1, FromAgain
<1>5. QED
  BY <1>3, <1>4

-----------------------------------------------------------------------------
(* Where the hook is, and what it has read. *)

LEMMA CutOff ==
  ASSUME NEW f, NEW a, LogGood(a, f), NEW m \in 0..Len(a), NEW c, c = SubSeq(a, 1, m)
  PROVE  LogGood(c, f) /\ c \in Seq(LineRecs) /\ Len(c) = m
<1>1. a \in Seq(LineRecs)
  BY DEF LogGood
<1>2. c \in Seq(LineRecs) /\ Len(c) = m /\ \A j \in 1..m : c[j] = a[j]
  BY <1>1
<1>3. DOMAIN c = 1..m /\ m <= Len(a)
  BY <1>1, <1>2
<1>4. Begins(c, a)
  BY <1>2, <1>3 DEF Begins
<1>5. QED
  BY <1>2, <1>4, LogGoodBegins

\* What the file is before a step, and after it.
LEMMA FileStep ==
  ASSUME LogInv, [Next]_vars
  PROVE  /\ LogGood(File, format) /\ File \in Seq(LineRecs) /\ Len(File) = flushed
         /\ LogGood(File', format) /\ File' \in Seq(LineRecs) /\ Len(File') = flushed'
         /\ Begins(File, File') /\ flushed \in Nat /\ flushed' \in Nat /\ flushed <= flushed'
         /\ format' = format /\ format \in Formats
<1>1. LogInv' /\ Begins(File, File') /\ format' = format
  BY LogStep
<1>2. /\ LogGood(log, format) /\ flushed \in 0..Len(log) /\ format \in Formats
      /\ LogGood(log', format') /\ flushed' \in 0..Len(log')
  BY <1>1 DEF LogInv
<1>3. PICK a, b, m, n, f : /\ a = log /\ b = log' /\ m = flushed /\ n = flushed' /\ f = format
  OBVIOUS
<1>4. PICK c, d : c = File /\ d = File'
  OBVIOUS
<1>5. c = SubSeq(a, 1, m) /\ d = SubSeq(b, 1, n)
  BY <1>3, <1>4 DEF File
<1>6. LogGood(a, f) /\ LogGood(b, f) /\ m \in 0..Len(a) /\ n \in 0..Len(b)
  BY <1>1, <1>2, <1>3
<1>7. LogGood(c, f) /\ c \in Seq(LineRecs) /\ Len(c) = m
  BY ONLY <1>5, <1>6, CutOff
<1>8. LogGood(d, f) /\ d \in Seq(LineRecs) /\ Len(d) = n
  BY ONLY <1>5, <1>6, CutOff
<1>9. m \in Nat /\ n \in Nat
  BY ONLY <1>7, <1>8
<1>10. m <= n
  BY <1>1, <1>4, <1>7, <1>8 DEF Begins
<1>11. QED
  BY <1>1, <1>2, <1>3, <1>4, <1>7, <1>8, <1>9, <1>10

\* The hook read the file when it had m lines, and found what it has to send.
\* Every row comes from a reading no later.
HasRead(m) == fresh = ToSend(format, File, m, sent) /\ RowsFrom(rows, format, File, m)

HookInv ==
  /\ hook \in {"off", "load", "settle", "export", "truncate", "write"}
  /\ hook # "off" => cli \in {"stopped", "ending"}
  /\ RowsFrom(rows, format, File, flushed)
  /\ hook \in {"export", "truncate", "write"} => \E m \in 0..flushed : HasRead(m)
  /\ hook \in {"off", "load", "settle"} => fresh = {}

LEMMA ToSendSame ==
  ASSUME NEW f, NEW a \in Seq(LineRecs), NEW b, LogGood(b, f), f \in Formats, Begins(a, b),
         NEW m \in 0..Len(a), NEW done
  PROVE  ToSend(f, a, m, done) = ToSend(f, b, m, done)
BY ReadSame DEF ToSend

LEMMA RowsStayFrom ==
  ASSUME LogInv, HookInv, [Next]_vars, rows' = rows
  PROVE  RowsFrom(rows, format, File, flushed)'
<1>1. PICK r, f, a, b, m, n : /\ r = rows /\ f = format /\ a = File /\ b = File'
                              /\ m = flushed /\ n = flushed'
  OBVIOUS
<1>2. /\ LogGood(b, f) /\ a \in Seq(LineRecs) /\ Len(a) = m /\ Len(b) = n
      /\ Begins(a, b) /\ m \in Nat /\ n \in Nat /\ m <= n /\ f \in Formats /\ f = format'
  BY <1>1, FileStep
<1>3. RowsFrom(r, f, a, m) /\ m \in 0..Len(a) /\ n \in m..Len(b)
  BY <1>1, <1>2 DEF HookInv
<1>4. RowsFrom(r, f, b, n)
  BY ONLY <1>2, <1>3, RowsFromMore
<1>5. QED
  BY <1>1, <1>2, <1>4

LEMMA HasReadStays ==
  ASSUME LogInv, HookInv, [Next]_vars, rows' = rows, fresh' = fresh, sent' = sent,
         hook \in {"export", "truncate", "write"}
  PROVE  \E m \in 0..flushed' : HasRead(m)'
<1>1. PICK m \in 0..flushed : HasRead(m)
  BY DEF HookInv
<1>2. PICK r, f, a, b, s : r = rows /\ f = format /\ a = File /\ b = File' /\ s = sent
  OBVIOUS
<1>3. /\ LogGood(b, f) /\ a \in Seq(LineRecs) /\ Len(a) = flushed /\ Len(b) = flushed'
      /\ Begins(a, b) /\ flushed \in Nat /\ flushed' \in Nat /\ flushed <= flushed'
      /\ f \in Formats /\ f = format'
  BY <1>2, FileStep
<1>4. m \in 0..Len(a) /\ m \in m..Len(b) /\ m \in 0..flushed'
  BY <1>3
<1>5. RowsFrom(r, f, a, m) /\ fresh = ToSend(f, a, m, s)
  BY <1>1, <1>2 DEF HasRead
<1>6. RowsFrom(r, f, b, m)
  BY ONLY <1>3, <1>4, <1>5, RowsFromMore
<1>7. fresh = ToSend(f, b, m, s)
  BY <1>3, <1>4, <1>5, ToSendSame
<1>8. HasRead(m)'
  BY <1>2, <1>3, <1>6, <1>7 DEF HasRead
<1>9. QED
  BY <1>4, <1>8

LEMMA UnsentIs ==
  ASSUME LogInv
  PROVE  Unsent(Parse(format, File)) = ToSend(format, File, flushed, sent)
<1>1. Len(File) = flushed
  BY FileIs
<1>2. Range(Parse(format, File)) = Read(format, File, flushed)
  BY <1>1 DEF Parse, Read
<1>3. QED
  BY <1>2 DEF Unsent, ToSend

\* An export leaves rows that come from what the hook read.
LEMMA ExportFrom ==
  ASSUME LogInv, HookInv, [Next]_vars, hook = "export", rows' = Landed(fresh),
         UNCHANGED <<format, log, flushed>>
  PROVE  /\ RowsFrom(rows, format, File, flushed)'
         /\ sent' = sent /\ fresh' = fresh => \E m \in 0..flushed' : HasRead(m)'
<1>1. PICK m \in 0..flushed : HasRead(m)
  BY DEF HookInv
<1>2. PICK L, S, f, a, s : /\ L = Landed(fresh) /\ S = fresh /\ f = format /\ a = File /\ s = sent
  OBVIOUS
<1>3. /\ LogGood(a, f) /\ a \in Seq(LineRecs) /\ Len(a) = flushed /\ Begins(a, a)
      /\ flushed \in Nat /\ f \in Formats
  BY <1>2, FileStep DEF Begins
<1>4. File' = a /\ format' = f /\ flushed' = flushed
  BY <1>2 DEF File
<1>5. S = ToSend(f, a, m, s) /\ L = Landed(S) /\ RowsFrom(rows, f, a, m) /\ m \in 0..Len(a)
  BY <1>1, <1>2, <1>3 DEF HasRead
<1>6. RowsFrom(L, f, a, m)
  BY ONLY <1>3, <1>5, LandedFrom
<1>7. flushed \in m..Len(a)
  BY <1>3
<1>8. RowsFrom(L, f, a, flushed)
  BY ONLY <1>3, <1>5, <1>6, <1>7, RowsFromMore
<1>9. rows' = L
  BY <1>2
<1>10. sent' = sent /\ fresh' = fresh => HasRead(m)'
  BY <1>2, <1>4, <1>5, <1>6, <1>9 DEF HasRead
<1>11. QED
  BY <1>4, <1>8, <1>9, <1>10

LEMMA HookStep ==
  ASSUME LogInv, HookInv, [Next]_vars
  PROVE  HookInv'
<1>1. /\ hook \in {"off", "load", "settle", "export", "truncate", "write"}
      /\ hook # "off" => cli \in {"stopped", "ending"}
      /\ hook \in {"off", "load", "settle"} => fresh = {}
  BY DEF HookInv
<1>2. ASSUME rows' = rows, Exits
      PROVE  HookInv'
  BY <1>2, RowsStayFrom DEF HookInv, Exits
<1>3. ASSUME rows' = rows, fresh' = fresh, sent' = sent, hook' = hook,
             hook # "off" => cli' \in {"stopped", "ending"}
      PROVE  HookInv'
  BY <1>1, <1>3, RowsStayFrom, HasReadStays DEF HookInv
<1>4. CASE Ask \/ NameAgain \/ Write \/ Call \/ Return \/ Flush \/ HookOver \/ Resume
  <2>1. UNCHANGED <<rows, hookVars>>
    BY <1>4 DEF Ask, NameAgain, Write, Call, Return, Flush, HookOver, Resume, OnlyLog
  <2>2. hook = "off" \/ cli' = cli
    BY <1>1, <1>4 DEF Ask, NameAgain, Write, Call, Return, Flush, HookOver, Resume, MayAnswer
  <2>3. QED
    BY <1>1, <1>3, <2>1, <2>2 DEF hookVars
<1>5. CASE Stop \/ SessionEnd
  <2>1. /\ cli' \in {"stopped", "ending"} /\ hook' = "load" /\ rows' = rows /\ fresh' = fresh
        /\ cli \in {"idle", "turn"}
    BY <1>5 DEF Stop, SessionEnd
  <2>2. fresh' = {}
    BY <1>1, <2>1
  <2>3. QED
    BY <2>1, <2>2, RowsStayFrom DEF HookInv
<1>6. CASE Kill \/ Refused \/ RecordSent \/ RecordFails
  BY <1>2, <1>6 DEF Kill, Refused, RecordSent, RecordFails
<1>7. CASE LoadSent
  <2>1. /\ hook = "load" /\ hook' = "settle" /\ cli' = cli /\ fresh' = fresh /\ rows' = rows
    BY <1>7 DEF LoadSent, cliVars
  <2>2. QED
    BY <1>1, <2>1, RowsStayFrom DEF HookInv
<1>8. ASSUME hook = "settle", fresh' = Unsent(Parse(format, File)), hook' = "export",
             UNCHANGED <<cliVars, sent, rows>>
      PROVE  HookInv'
  <2>1. fresh' = ToSend(format, File, flushed, sent)
    BY <1>8, UnsentIs
  <2>2. File' = File /\ format' = format /\ flushed' = flushed /\ cli' = cli
    BY <1>8 DEF cliVars, File
  <2>3. RowsFrom(rows, format, File, flushed)'
    BY <1>8, RowsStayFrom
  <2>4. HasRead(flushed)'
    BY <1>8, <2>1, <2>2, <2>3 DEF HasRead
  <2>5. flushed' \in 0..flushed'
    BY FileStep
  <2>6. \E m \in 0..flushed' : HasRead(m)'
    BY <2>4, <2>5
  <2>7. QED
    BY <1>1, <1>8, <2>2, <2>3, <2>6 DEF HookInv
<1>9. CASE Settle
  <2>1. /\ hook = "settle" /\ fresh' = Unsent(Parse(format, File)) /\ hook' = "export"
        /\ UNCHANGED <<cliVars, sent, rows>>
    BY <1>9 DEF Settle
  <2>2. QED
    BY <1>8, <2>1
<1>10. CASE GiveUp
  <2>1. /\ hook = "settle" /\ UNCHANGED <<cliVars, rows>>
        /\ \/ Exits
           \/ fresh' = Unsent(Parse(format, File)) /\ hook' = "export" /\ UNCHANGED sent
    BY <1>10 DEF GiveUp
  <2>2. QED
    BY <1>2, <1>8, <2>1
<1>11. CASE Export
  <2>1. /\ hook = "export" /\ rows' = Landed(fresh) /\ hook' = "truncate"
        /\ UNCHANGED <<cliVars, sent, fresh>>
    BY <1>11 DEF Export
  <2>2. UNCHANGED <<format, log, flushed, cli>>
    BY <2>1 DEF cliVars
  <2>3. RowsFrom(rows, format, File, flushed)' /\ \E m \in 0..flushed' : HasRead(m)'
    BY <2>1, <2>2, ExportFrom
  <2>4. QED
    BY <1>1, <2>1, <2>2, <2>3 DEF HookInv
<1>12. CASE ExportFails
  <2>1. hook = "export" /\ rows' = Landed(fresh) /\ Exits /\ UNCHANGED cliVars
    BY <1>12 DEF ExportFails
  <2>2. UNCHANGED <<format, log, flushed, cli>>
    BY <2>1 DEF cliVars
  <2>3. RowsFrom(rows, format, File, flushed)'
    BY <2>1, <2>2, ExportFrom
  <2>4. QED
    BY <2>1, <2>3 DEF HookInv, Exits
<1>13. CASE Truncate
  <2>1. /\ hook = "truncate" /\ hook' = "write" /\ rows' = rows /\ UNCHANGED <<cliVars, sent, fresh>>
    BY <1>13 DEF Truncate
  <2>2. cli' = cli /\ fresh' = fresh /\ sent' = sent
    BY <2>1 DEF cliVars
  <2>3. RowsFrom(rows, format, File, flushed)' /\ \E m \in 0..flushed' : HasRead(m)'
    BY <2>1, <2>2, RowsStayFrom, HasReadStays
  <2>4. QED
    BY <1>1, <2>1, <2>2, <2>3 DEF HookInv
<1>14. CASE UNCHANGED vars
  <2>1. UNCHANGED <<rows, fresh, sent, hook, cli>>
    BY <1>14 DEF vars, cliVars, hookVars
  <2>2. QED
    BY <1>1, <1>3, <2>1
<1>15. QED
  BY <1>4, <1>5, <1>6, <1>7, <1>9, <1>10, <1>11, <1>12, <1>13, <1>14 DEF Next, Cli, Hook

LEMMA HookInit ==
  ASSUME Init
  PROVE  HookInv
<1>1. DOMAIN rows = {} /\ hook = "off" /\ fresh = {}
  BY DEF Init
<1>2. QED
  BY <1>1 DEF HookInv, RowsFrom

-----------------------------------------------------------------------------
(* The type of the variables. *)

IDs == 1..MaxTurns

NamesInv ==
  /\ sent \subseteq IDs /\ sidecar \subseteq IDs /\ early \subseteq IDs
  /\ faults \in 0..MaxFaults /\ kills \in 0..MaxKills

LEMMA FreshIs ==
  ASSUME LogInv, HookInv
  PROVE  /\ fresh \subseteq TurnRecs /\ \A t \in fresh : t.id \in IDs
         /\ \A t, u \in fresh : t.id = u.id => t = u
<1>1. LogGood(File, format) /\ Len(File) = flushed /\ flushed \in Nat /\ format \in Formats
  BY FileIs DEF LogInv
<1>2. CASE fresh = {}
  BY <1>2
<1>3. CASE fresh # {}
  <2>1. PICK m \in 0..flushed : HasRead(m)
    BY <1>3 DEF HookInv
  <2>2. fresh \subseteq Read(format, File, m)
    BY <2>1 DEF HasRead, ToSend
  <2>3. m \in 0..Len(File)
    BY <1>1
  <2>4. QED
    BY <1>1, <2>2, <2>3, ReadIs DEF IDs
<1>4. QED
  BY <1>2, <1>3

LEMMA ParsedIs ==
  ASSUME LogInv, NEW R, R = Range(Parse(format, File))
  PROVE  /\ R = Read(format, File, flushed) /\ R \subseteq TurnRecs
         /\ \A t \in R : t.id \in IDs /\ (t.steps # <<>> => t.ended)
         /\ \A t, u \in R : t.id = u.id => t = u
<1>1. LogGood(File, format) /\ Len(File) = flushed /\ flushed \in Nat /\ format \in Formats
  BY FileIs DEF LogInv
<1>2. R = Read(format, File, flushed)
  BY <1>1 DEF Parse, Read
<1>3. flushed \in 0..Len(File)
  BY <1>1
<1>4. QED
  BY <1>1, <1>2, <1>3, ReadIs DEF IDs

LEMMA RowIDs ==
  ASSUME LogInv, HookInv, NEW k \in DOMAIN rows
  PROVE  k[1] \in IDs
<1>1. LogGood(File, format) /\ Len(File) = flushed /\ flushed \in Nat /\ format \in Formats
  BY FileIs DEF LogInv
<1>2. From(k, rows[k], format, File, flushed) /\ flushed \in 0..Len(File)
  BY <1>1 DEF HookInv, RowsFrom
<1>3. PICK u \in Read(format, File, flushed) : u.id = k[1]
  BY <1>1, <1>2, FromAgain
<1>4. QED
  BY <1>1, <1>2, <1>3, ReadIs DEF IDs

LEMMA NamesStep ==
  ASSUME LogInv, HookInv, NamesInv, [Next]_vars
  PROVE  NamesInv'
<1>1. CASE UNCHANGED <<sent, sidecar, early, faults, kills>>
  BY <1>1 DEF NamesInv
<1>2. CASE \/ Ask \/ NameAgain \/ Write \/ Call \/ Return \/ Flush \/ Stop \/ SessionEnd
           \/ HookOver \/ Resume \/ Export
  <2>1. UNCHANGED <<sent, sidecar, early, faults, kills>>
    BY <1>2 DEF Ask, NameAgain, Write, Call, Return, Flush, Stop, SessionEnd, HookOver, Resume,
                Export, OnlyLog, hookVars
  <2>2. QED
    BY <1>1, <2>1
<1>3. ASSUME sent' = {}, UNCHANGED <<sidecar, early>>,
             faults' = faults \/ (faults < MaxFaults /\ faults' = faults + 1),
             kills' = kills \/ (kills < MaxKills /\ kills' = kills + 1)
      PROVE  NamesInv'
  BY <1>3, BoundsAssumption DEF NamesInv
<1>4. CASE Kill \/ Refused \/ ExportFails \/ RecordFails
  <2>1. sent' = {} /\ UNCHANGED <<sidecar, early>>
    BY <1>4 DEF Kill, Refused, ExportFails, RecordFails, Exits
  <2>2. /\ faults' = faults \/ (faults < MaxFaults /\ faults' = faults + 1)
        /\ kills' = kills \/ (kills < MaxKills /\ kills' = kills + 1)
    BY <1>4 DEF Kill, Refused, ExportFails, RecordFails
  <2>3. QED
    BY <1>3, <2>1, <2>2
<1>5. CASE LoadSent
  <2>1. /\ UNCHANGED <<sidecar, early, kills>>
        /\ faults' = faults \/ (faults < MaxFaults /\ faults' = faults + 1)
    BY <1>5 DEF LoadSent
  <2>2. /\ sent' = sidecar \/ sent' = {}
        /\ UNCHANGED <<sidecar, early, kills>>
    BY <1>5 DEF LoadSent
  <2>3. QED
    BY <2>1, <2>2, BoundsAssumption DEF NamesInv
<1>6. CASE Settle
  <2>1. /\ UNCHANGED <<sent, sidecar, faults, kills>>
        /\ early' = early \union ReadEarly(Unsent(Parse(format, File)))
    BY <1>6 DEF Settle
  <2>2. ReadEarly(Unsent(Parse(format, File))) \subseteq IDs
    BY ParsedIs DEF ReadEarly, Unsent
  <2>3. QED
    BY <2>1, <2>2 DEF NamesInv
<1>7. CASE GiveUp
  <2>1. UNCHANGED <<sidecar, early, faults, kills>> /\ (sent' = {} \/ sent' = sent)
    BY <1>7 DEF GiveUp, Exits
  <2>2. QED
    BY <2>1 DEF NamesInv
<1>8. CASE Truncate
  <2>1. UNCHANGED <<sent, early, faults, kills>> /\ sidecar' = {}
    BY <1>8 DEF Truncate
  <2>2. QED
    BY <2>1 DEF NamesInv
<1>9. CASE RecordSent
  <2>1. UNCHANGED <<early, faults, kills>> /\ sidecar' = Recorded(fresh) /\ sent' = {}
    BY <1>9 DEF RecordSent, Exits
  <2>2. Recorded(fresh) \subseteq IDs
    BY FreshIs DEF Recorded, NamesInv
  <2>3. QED
    BY <2>1, <2>2 DEF NamesInv
<1>10. CASE UNCHANGED vars
  <2>1. UNCHANGED <<sent, sidecar, early, faults, kills>>
    BY <1>10 DEF vars, hookVars
  <2>2. QED
    BY <1>1, <2>1
<1>11. QED
  BY <1>2, <1>4, <1>5, <1>6, <1>7, <1>8, <1>9, <1>10 DEF Next, Cli, Hook

LEMMA TypesHold ==
  ASSUME LogInv, HookInv, NamesInv
  PROVE  TypeOK
<1>1. ASSUME NEW i \in DOMAIN log
      PROVE  /\ log[i].kind \in {"context", "prompt", "text", "call", "result", "usage"}
             /\ log[i].turn \in 0..MaxTurns /\ log[i].id \in 0..MaxCalls
  <2>1. LogGood(log, format) /\ LineGood(log, i, format)
    BY DEF LogInv, LogGood
  <2>2. PICK l : l = log[i]
    OBVIOUS
  <2>3. l \in LineRecs /\ l.turn <= MaxTurns /\ l.id <= MaxCalls
    BY <2>1, <2>2 DEF LineGood, LineOK, Fits
  <2>4. l.kind \in Kinds /\ l.turn \in Nat /\ l.id \in Nat
    BY <2>3 DEF LineRecs
  <2>5. QED
    BY <2>2, <2>3, <2>4, BoundsAssumption DEF Kinds
<1>2. \A t \in fresh : t.id \in 1..MaxTurns
  BY FreshIs DEF IDs
<1>3. \A k \in DOMAIN rows : k[1] \in 1..MaxTurns
  BY RowIDs DEF IDs
<1>4. /\ format \in Formats /\ flushed \in 0..Len(log)
      /\ cli \in {"idle", "turn", "stopped", "ending", "gone"}
  BY DEF LogInv
<1>5. /\ hook \in {"off", "load", "settle", "export", "truncate", "write"}
      /\ hook # "off" => cli \in {"stopped", "ending"}
  BY DEF HookInv
<1>6. /\ {sent, sidecar, early} \subseteq SUBSET (1..MaxTurns)
      /\ faults \in 0..MaxFaults /\ kills \in 0..MaxKills
  BY DEF NamesInv, IDs
<1>7. QED
  BY <1>1, <1>2, <1>3, <1>4, <1>5, <1>6 DEF TypeOK

LEMMA NamesInit ==
  ASSUME Init
  PROVE  NamesInv
BY BoundsAssumption DEF Init, NamesInv

-----------------------------------------------------------------------------
(* What a step does to the rows, and to the sidecar. *)

LEMMA RowsGrowStep ==
  ASSUME LogInv, HookInv, [Next]_vars, NEW k \in DOMAIN rows
  PROVE  k \in DOMAIN rows' /\ RowGrows(k, rows[k], rows'[k])
<1>1. /\ LogGood(File, format) /\ Len(File) = flushed /\ flushed \in Nat /\ format \in Formats
      /\ flushed \in 0..Len(File)
  BY FileIs DEF LogInv
<1>2. CASE rows' = rows
  <2>1. From(k, rows[k], format, File, flushed)
    BY DEF HookInv, RowsFrom
  <2>2. RowGrows(k, rows[k], rows[k])
    BY <1>1, <2>1, FromAgain
  <2>3. QED
    BY <1>2, <2>2
<1>3. CASE hook = "export" /\ rows' = Landed(fresh)
  <2>1. PICK m \in 0..flushed : HasRead(m)
    BY <1>3 DEF HookInv
  <2>2. PICK L, S, f, a, s : /\ L = Landed(fresh) /\ S = fresh /\ f = format /\ a = File /\ s = sent
    OBVIOUS
  <2>3. /\ LogGood(a, f) /\ f \in Formats /\ m \in 0..Len(a) /\ S = ToSend(f, a, m, s)
        /\ L = Landed(S) /\ RowsFrom(rows, f, a, m) /\ k \in DOMAIN rows
    BY <1>1, <2>1, <2>2 DEF HasRead
  <2>4. k \in DOMAIN L /\ RowGrows(k, rows[k], L[k])
    BY ONLY <2>3, LandedGrows
  <2>5. QED
    BY <1>3, <2>2, <2>4
<1>4. rows' = rows \/ (hook = "export" /\ rows' = Landed(fresh))
  BY DEF Next, Cli, Hook, Ask, NameAgain, Write, Call, Return, Flush, Stop, SessionEnd, HookOver,
         Kill, Resume, OnlyLog, LoadSent, Settle, GiveUp, Refused, Export, ExportFails, Truncate,
         RecordSent, RecordFails, vars
<1>5. QED
  BY <1>2, <1>3, <1>4

LEMMA SidecarStep ==
  ASSUME LogInv, HookInv, [Next]_vars, hook = "write", sidecar' # sidecar, NEW k \in DOMAIN rows
  PROVE  k[1] \in sidecar'
<1>1. sidecar' = Recorded(fresh)
  BY DEF Next, Cli, Hook, Ask, NameAgain, Write, Call, Return, Flush, Stop, SessionEnd, HookOver,
         Kill, Resume, OnlyLog, LoadSent, Settle, GiveUp, Refused, Export, ExportFails, Truncate,
         RecordSent, RecordFails, vars
<1>2. PICK m \in 0..flushed : HasRead(m)
  BY DEF HookInv
<1>3. LogGood(File, format) /\ format \in Formats /\ m \in 0..Len(File)
  BY FileIs DEF LogInv
<1>4. From(k, rows[k], format, File, m) /\ fresh = ToSend(format, File, m, sent)
  BY <1>2 DEF HasRead, RowsFrom
<1>5. PICK u \in Read(format, File, m) : u.id = k[1] /\ u.ended
  BY <1>3, <1>4, FromAgain
<1>6. u.id \in sent \/ u \in fresh
  BY <1>4 DEF ToSend
<1>7. QED
  BY <1>1, <1>5, <1>6 DEF Recorded

-----------------------------------------------------------------------------
(* A turn that is over: the file has all of it, and the CLI adds nothing to it. *)

Over(t) ==
  /\ \A m \in flushed + 1..Len(log) : log[m].turn # t
  /\ cli = "turn" => Last(log).turn # t

\* The lines b go on from the lines a without naming t.
NoneOf(a, b, t) ==
  /\ Begins(a, b) /\ \A k \in Len(a) + 1..Len(b) : b[k].turn # t

LEMMA NoneWritten ==
  ASSUME LogInv, [Next]_vars, ~Kill, NEW t \in Nat \ {0}, NEW i \in DOMAIN log, log[i].turn = t,
         cli = "turn" => Last(log).turn # t
  PROVE  NoneOf(log, log', t) /\ (cli' = "turn" => Last(log').turn # t)
<1>1. PICK a, b, f : a = log /\ b = log' /\ f = format
  OBVIOUS
<1>2. a \in Seq(LineRecs) /\ LogGood(a, f) /\ b \in Seq(LineRecs) /\ i \in DOMAIN a /\ a[i].turn = t
  BY <1>1, LogStep DEF LogInv, LogGood
<1>3. CASE Ask
  <2>1. PICK u : u = Cardinality(Turns(a)) + 1
    OBVIOUS
  <2>2. \A j \in DOMAIN a : a[j].turn < u
    BY <1>2, <2>1, NextTurn
  <2>3. u # t
    BY <1>2, <2>2
  <2>4. PICK d, q : /\ d = Line("context", IF f = "codex" THEN u ELSE NoTurn, NoStep, NoCall, 0)
                    /\ q = Line("prompt", u, NoStep, NoCall, 0)
    OBVIOUS
  <2>5. d.turn # t /\ q.turn # t
    BY <2>3, <2>4 DEF Line, NoTurn
  <2>6. b = a \o IF f = "claude" THEN <<q>> ELSE <<d, q>>
    BY <1>1, <1>3, <2>1, <2>4 DEF Ask
  <2>7. CASE f = "claude"
    <3>1. /\ Len(b) = Len(a) + 1 /\ Len(a) \in Nat /\ b[Len(a) + 1] = q
          /\ \A k \in 1..Len(a) : b[k] = a[k]
      BY <1>2, <2>6, <2>7
    <3>2. Last(b) = q /\ DOMAIN a = 1..Len(a)
      BY <1>2, <3>1 DEF Last
    <3>3. NoneOf(a, b, t)
      BY <2>5, <3>1, <3>2 DEF NoneOf, Begins
    <3>4. QED
      BY <1>1, <2>5, <3>2, <3>3
  <2>8. CASE f # "claude"
    <3>1. /\ Len(b) = Len(a) + 2 /\ Len(a) \in Nat /\ b[Len(a) + 1] = d /\ b[Len(a) + 2] = q
          /\ \A k \in 1..Len(a) : b[k] = a[k]
      BY <1>2, <2>6, <2>8
    <3>2. Last(b) = q /\ DOMAIN a = 1..Len(a)
      BY <1>2, <3>1 DEF Last
    <3>3. \A k \in Len(a) + 1..Len(b) : k = Len(a) + 1 \/ k = Len(a) + 2
      BY <3>1
    <3>4. NoneOf(a, b, t)
      BY <2>5, <3>1, <3>2, <3>3 DEF NoneOf, Begins
    <3>5. QED
      BY <1>1, <2>5, <3>2, <3>4
  <2>9. QED
    BY <2>7, <2>8
<1>4. CASE \E l : b = Append(a, l) /\ l.turn # t
  <2>1. PICK l : b = Append(a, l) /\ l.turn # t
    BY <1>4
  <2>2. l \in LineRecs
    <3>1. Len(a) \in Nat /\ b[Len(a) + 1] = l /\ Len(a) + 1 \in DOMAIN b
      BY <1>2, <2>1
    <3>2. QED
      BY <1>2, <3>1
  <2>3. /\ Len(b) = Len(a) + 1 /\ Len(a) \in Nat /\ DOMAIN a = 1..Len(a)
        /\ b[Len(a) + 1] = l /\ \A k \in 1..Len(a) : b[k] = a[k]
    BY ONLY <1>2, <2>1, <2>2
  <2>4. Last(b) = l
    BY <2>3 DEF Last
  <2>5. NoneOf(a, b, t) /\ Last(b).turn # t
    BY <2>1, <2>3, <2>4 DEF NoneOf, Begins
  <2>6. QED
    BY <1>1, <2>5
<1>5. CASE b = a /\ (cli' = "turn" => cli = "turn")
  <2>1. NoneOf(a, a, t)
    BY <1>2 DEF NoneOf, Begins
  <2>2. QED
    BY <1>1, <1>5, <2>1
<1>6. CASE NameAgain \/ Write \/ Call \/ Return
  <2>1. cli = "turn" /\ \E l : b = Append(a, l) /\ l.turn = Last(a).turn
    <3>1. \A kind, n, s, c, k : Line(kind, n, s, c, k).turn = n
      BY DEF Line
    <3>2. QED
      BY <1>1, <1>6, <3>1 DEF NameAgain, Write, Call, Return, MayAnswer
  <2>2. QED
    BY <1>1, <1>4, <2>1
<1>7. CASE Stop
  <2>1. cli = "turn" /\ cli' = "stopped"
    BY <1>7 DEF Stop
  <2>2. CASE format = "claude"
    BY <1>1, <1>5, <1>7, <2>1, <2>2 DEF Stop
  <2>3. CASE format # "claude"
    <3>1. \A kind, n, s, c, k : Line(kind, n, s, c, k).turn = n
      BY DEF Line
    <3>2. \E l : b = Append(a, l) /\ l.turn = Last(a).turn
      BY <1>1, <1>7, <2>3, <3>1 DEF Stop
    <3>3. QED
      BY <1>1, <1>4, <2>1, <3>2
  <2>4. QED
    BY <2>2, <2>3
<1>8. CASE Flush \/ SessionEnd \/ HookOver \/ Resume \/ Hook \/ UNCHANGED vars
  <2>1. log' = log /\ (cli' = "turn" => cli = "turn")
    BY <1>8 DEF Flush, SessionEnd, HookOver, Resume, Hook, LoadSent, Settle, GiveUp, Refused,
                Export, ExportFails, Truncate, RecordSent, RecordFails, vars, cliVars
  <2>2. QED
    BY <1>1, <1>5, <2>1
<1>9. QED
  BY <1>3, <1>6, <1>7, <1>8 DEF Next, Cli

\* A turn that is over stays so, and is read as it was.
LEMMA OverStays ==
  ASSUME LogInv, [Next]_vars, NEW u \in Read(format, File, flushed), Over(u.id)
  PROVE  u \in Read(format, File, flushed)' /\ Over(u.id)'
<1>1. /\ LogGood(File, format) /\ File \in Seq(LineRecs) /\ Len(File) = flushed
      /\ LogGood(File', format) /\ File' \in Seq(LineRecs) /\ Len(File') = flushed'
      /\ Begins(File, File') /\ flushed \in Nat /\ flushed' \in Nat /\ flushed <= flushed'
      /\ format' = format /\ format \in Formats
  BY FileStep
<1>2. flushed \in 0..Len(File)
  BY <1>1
<1>3. PICK i \in 1..flushed : File[i].turn = u.id
  BY <1>1, <1>2, ReadIs
<1>4. u.id \in 1..MaxTurns
  BY <1>1, <1>2, ReadIs
<1>5. log[i].turn = u.id /\ i \in DOMAIN log /\ Len(log) \in Nat /\ flushed <= Len(log)
      /\ DOMAIN log = 1..Len(log)
  <2>1. log \in Seq(LineRecs) /\ flushed \in 0..Len(log) /\ File[i] = log[i]
    BY <1>3, FileIs DEF LogInv
  <2>2. QED
    BY <1>3, <2>1
<1>6. /\ \A k \in flushed + 1..Len(log') : log'[k].turn # u.id
      /\ cli' = "turn" => Last(log').turn # u.id
  <2>1. CASE Kill
    <3>1. log' = File /\ cli' = "gone"
      BY <2>1 DEF Kill
    <3>2. Len(log') = flushed
      BY <1>1, <3>1
    <3>3. QED
      BY <1>1, <3>1, <3>2
  <2>2. CASE ~Kill
    <3>1. NoneOf(log, log', u.id) /\ (cli' = "turn" => Last(log').turn # u.id)
      BY <1>4, <1>5, <2>2, BoundsAssumption, NoneWritten DEF Over
    <3>2. ASSUME NEW k \in flushed + 1..Len(log') PROVE log'[k].turn # u.id
      <4>1. log' \in Seq(LineRecs)
        BY LogStep DEF LogInv, LogGood
      <4>2. Len(log') \in Nat
        BY <4>1
      <4>3. CASE k \in flushed + 1..Len(log)
        <5>1. log'[k] = log[k]
          BY <1>1, <1>5, <3>1, <4>3 DEF NoneOf, Begins
        <5>2. QED
          BY <4>3, <5>1 DEF Over
      <4>4. CASE k \notin flushed + 1..Len(log)
        <5>1. k \in Len(log) + 1..Len(log')
          BY <1>1, <1>5, <4>2, <4>4
        <5>2. QED
          BY <3>1, <5>1 DEF NoneOf
      <4>5. QED
        BY <4>3, <4>4
    <3>3. QED
      BY <3>1, <3>2
  <2>3. QED
    BY <2>1, <2>2
<1>7. flushed' \in 0..Len(log') /\ \A k \in 1..flushed' : File'[k] = log'[k]
  <2>1. PICK b, d, n : b = log' /\ d = File' /\ n = flushed'
    OBVIOUS
  <2>2. b \in Seq(LineRecs) /\ n \in 0..Len(b)
    BY <2>1, LogStep DEF LogInv, LogGood
  <2>3. d = SubSeq(b, 1, n)
    BY <2>1 DEF File
  <2>4. \A k \in 1..n : d[k] = b[k]
    BY <2>2, <2>3
  <2>5. QED
    BY <2>1, <2>2, <2>4
<1>8. \A k \in flushed + 1..flushed' : File'[k].turn # u.id
  <2>1. ASSUME NEW k \in flushed + 1..flushed' PROVE File'[k].turn # u.id
    <3>1. Len(log') \in Nat
      BY LogStep DEF LogInv, LogGood
    <3>2. k \in 1..flushed' /\ k \in flushed + 1..Len(log')
      BY <1>1, <1>7, <3>1
    <3>3. QED
      BY <1>6, <1>7, <3>2
  <2>2. QED
    BY <2>1
<1>9. PICK f, a, b, m, n : /\ f = format /\ a = File /\ b = File' /\ m = flushed /\ n = flushed'
  OBVIOUS
<1>10. /\ LogGood(b, f) /\ a \in Seq(LineRecs) /\ Begins(a, b) /\ f \in Formats
       /\ m \in 0..Len(a) /\ m \in 0..Len(b) /\ n \in m..Len(b)
       /\ \A k \in m + 1..n : b[k].turn # u.id
  BY <1>1, <1>2, <1>8, <1>9
<1>11. u \in Read(f, b, m)
  BY <1>9, <1>10, ReadSame
<1>12. u \in Read(f, b, n)
  BY ONLY <1>10, <1>11, ReadGrows
<1>13. Over(u.id)'
  <2>1. \A k \in flushed' + 1..Len(log') : log'[k].turn # u.id
    <3>1. Len(log') \in Nat
      BY LogStep DEF LogInv, LogGood
    <3>2. \A k \in flushed' + 1..Len(log') : k \in flushed + 1..Len(log')
      <4>1. PICK c : c = Len(log')
        OBVIOUS
      <4>2. m \in Nat /\ n \in Nat /\ c \in Nat /\ m <= n
        BY <1>1, <1>9, <3>1, <4>1
      <4>3. \A k \in n + 1..c : k \in m + 1..c
        BY ONLY <4>2
      <4>4. QED
        BY ONLY <1>9, <4>1, <4>3
    <3>3. QED
      BY <1>6, <3>2
  <2>2. QED
    BY <1>6, <2>1 DEF Over
<1>14. QED
  BY <1>1, <1>9, <1>12, <1>13

-----------------------------------------------------------------------------
(* What the service holds of the turns that are recorded. *)

HeldIn(r, t) == [k \in {k \in DOMAIN r : k[1] = t} |-> r[k]]

LEMMA HeldOfSent ==
  ASSUME NEW f \in Formats, NEW lines, LogGood(lines, f), NEW m \in 0..Len(lines),
         NEW done, NEW S, S = ToSend(f, lines, m, done), NEW L, L = Landed(S),
         RowsFrom(rows, f, lines, m), NEW u \in S
  PROVE  HeldIn(L, u.id) = TurnSpans(u)
<1>1. /\ \A t \in S : \A k \in SpanIDs(t) : k \in DOMAIN L /\ L[k] = TurnSpans(t)[k]
      /\ \A k \in DOMAIN L : \/ \E t \in S : k \in SpanIDs(t)
                             \/ k \in DOMAIN rows /\ L[k] = rows[k]
  BY LandedIs
<1>2. /\ S \subseteq Read(f, lines, m) /\ S \subseteq TurnRecs
      /\ \A t \in S : t.id = u.id => t = u
  BY ReadIs DEF ToSend
<1>3. {k \in DOMAIN L : k[1] = u.id} = SpanIDs(u)
  <2>1. ASSUME NEW k \in SpanIDs(u) PROVE k \in DOMAIN L /\ k[1] = u.id
    BY <1>1, <1>2, SpanOfTurn
  <2>2. ASSUME NEW k \in DOMAIN L, k[1] = u.id PROVE k \in SpanIDs(u)
    <3>1. CASE \E t \in S : k \in SpanIDs(t)
      <4>1. PICK t \in S : k \in SpanIDs(t)
        BY <3>1
      <4>2. k[1] = t.id
        BY <1>2, <4>1, SpanOfTurn
      <4>3. QED
        BY <1>2, <2>2, <4>1, <4>2
    <3>2. CASE k \in DOMAIN rows /\ L[k] = rows[k]
      <4>1. From(k, rows[k], f, lines, m)
        BY <3>2 DEF RowsFrom
      <4>2. QED
        BY <1>2, <2>2, <4>1, FromAgain
    <3>3. QED
      BY <1>1, <3>1, <3>2
  <2>3. QED
    BY <2>1, <2>2
<1>4. HeldIn(L, u.id) = [k \in SpanIDs(u) |-> L[k]]
  BY <1>3 DEF HeldIn
<1>5. \A k \in SpanIDs(u) : L[k] = TurnSpans(u)[k]
  BY <1>1
<1>6. TurnSpans(u) = [k \in SpanIDs(u) |-> TurnSpans(u)[k]]
  BY DEF TurnSpans
<1>7. QED
  BY <1>4, <1>5, <1>6

LEMMA HeldOfOthers ==
  ASSUME NEW f \in Formats, NEW lines, LogGood(lines, f), NEW m \in 0..Len(lines),
         NEW done, NEW S, S = ToSend(f, lines, m, done), NEW L, L = Landed(S),
         NEW t, \A u \in S : u.id # t
  PROVE  HeldIn(L, t) = HeldIn(rows, t)
<1>1. /\ \A k \in DOMAIN L : \/ \E u \in S : k \in SpanIDs(u)
                             \/ k \in DOMAIN rows /\ L[k] = rows[k]
      /\ DOMAIN rows \subseteq DOMAIN L
  BY LandedIs
<1>2. S \subseteq TurnRecs
  BY ReadIs DEF ToSend
<1>3. ASSUME NEW k \in DOMAIN L, k[1] = t PROVE k \in DOMAIN rows /\ L[k] = rows[k]
  <2>1. ~\E u \in S : k \in SpanIDs(u)
    BY <1>2, <1>3, SpanOfTurn
  <2>2. QED
    BY <1>1, <2>1
<1>4. {k \in DOMAIN L : k[1] = t} = {k \in DOMAIN rows : k[1] = t}
  BY <1>1, <1>3
<1>5. \A k \in {k \in DOMAIN rows : k[1] = t} : L[k] = rows[k]
  BY <1>1, <1>3
<1>6. QED
  BY <1>4, <1>5 DEF HeldIn

\* The service holds all of a turn that is over.
Whole(t) ==
  \E u \in Read(format, File, flushed) : u.id = t /\ Over(t) /\ HeldIn(rows, t) = TurnSpans(u)

\* What the sidecar names and what the hook takes for sent is held; what the
\* hook will record, or has reason to think recorded, is over; and what it has
\* exported of that is held.
WholeInv ==
  /\ \A t \in (sidecar \union sent) \ early : Whole(t)
  /\ \A u \in fresh : (u.ended \/ u.id \in sidecar) /\ u.id \notin early =>
       u \in Read(format, File, flushed) /\ Over(u.id)
  /\ hook \in {"truncate", "write"} =>
       \A u \in fresh : u.ended /\ u.id \notin early => HeldIn(rows, u.id) = TurnSpans(u)

LEMMA WholeStays ==
  ASSUME LogInv, [Next]_vars, NEW t, Whole(t), HeldIn(rows', t) = HeldIn(rows, t)
  PROVE  Whole(t)'
<1>1. PICK u \in Read(format, File, flushed) :
             u.id = t /\ Over(t) /\ HeldIn(rows, t) = TurnSpans(u)
  BY DEF Whole
<1>2. Over(u.id)
  BY <1>1
<1>3. u \in Read(format, File, flushed)' /\ Over(u.id)'
  BY <1>2, OverStays
<1>4. Over(t)'
  BY <1>1, <1>3 DEF Over
<1>5. HeldIn(rows', t) = TurnSpans(u)
  BY <1>1
<1>6. QED
  BY <1>1, <1>3, <1>4, <1>5 DEF Whole

\* A step by which the hook claims no more than it did.
LEMMA WholeKept ==
  ASSUME LogInv, WholeInv, [Next]_vars, rows' = rows, early' = early,
         sidecar' \union sent' \subseteq sidecar \union sent, sidecar' \subseteq sidecar,
         fresh' \subseteq fresh,
         hook' \in {"truncate", "write"} => hook \in {"truncate", "write"}
  PROVE  WholeInv'
<1>1. \A t \in (sidecar' \union sent') \ early' : Whole(t)'
  BY WholeStays DEF WholeInv
<1>2. ASSUME NEW u \in fresh', u.ended \/ u.id \in sidecar', u.id \notin early'
      PROVE  u \in Read(format, File, flushed)' /\ Over(u.id)'
  <2>1. u \in Read(format, File, flushed) /\ Over(u.id)
    BY <1>2 DEF WholeInv
  <2>2. QED
    BY <2>1, OverStays
<1>3. ASSUME hook' \in {"truncate", "write"}, NEW u \in fresh', u.ended, u.id \notin early'
      PROVE  HeldIn(rows', u.id) = TurnSpans(u)
  BY <1>3 DEF WholeInv
<1>4. QED
  BY <1>1, <1>2, <1>3 DEF WholeInv

\* A read by which the hook has something to send.
LEMMA WholeRead ==
  ASSUME LogInv, HookInv, WholeInv, [Next]_vars, hook = "settle",
         fresh' = Unsent(Parse(format, File)), hook' = "export",
         UNCHANGED <<cliVars, sent, sidecar, rows>>, early \subseteq early',
         \A u \in fresh' : u.ended =>
           u.id \in early' \/ \A m \in flushed + 1..Len(log) : log[m].turn # u.id
  PROVE  WholeInv'
<1>1. /\ format' = format /\ log' = log /\ flushed' = flushed /\ cli' = cli /\ File' = File
      /\ sent' = sent /\ sidecar' = sidecar /\ rows' = rows
  BY DEF cliVars, File
<1>2. \A t \in (sidecar' \union sent') \ early' : Whole(t)'
  BY <1>1, WholeStays DEF WholeInv
<1>3. ASSUME NEW u \in fresh', u.ended \/ u.id \in sidecar', u.id \notin early'
      PROVE  u \in Read(format, File, flushed)' /\ Over(u.id)'
  <2>1. u \in Read(format, File, flushed)
    BY UnsentIs DEF ToSend
  <2>2. Over(u.id)
    <3>1. CASE u.id \in sidecar
      <4>1. Whole(u.id)
        BY <1>3, <3>1 DEF WholeInv
      <4>2. QED
        BY <4>1 DEF Whole
    <3>2. CASE u.ended
      <4>1. cli # "turn"
        BY DEF HookInv
      <4>2. QED
        BY <1>3, <3>2, <4>1 DEF Over
    <3>3. QED
      BY <1>1, <1>3, <3>1, <3>2
  <2>3. QED
    BY <2>1, <2>2, OverStays
<1>4. QED
  BY <1>2, <1>3 DEF WholeInv

\* An export, answered or not.
LEMMA WholeSent ==
  ASSUME LogInv, HookInv, WholeInv, [Next]_vars, hook = "export", rows' = Landed(fresh),
         UNCHANGED <<cliVars, sidecar, early>>, sent' \subseteq sent, fresh' \subseteq fresh
  PROVE  WholeInv'
<1>1. PICK m \in 0..flushed : HasRead(m)
  BY DEF HookInv
<1>2. PICK L, S, f, a, s : /\ L = Landed(fresh) /\ S = fresh /\ f = format /\ a = File /\ s = sent
  OBVIOUS
<1>3. LogGood(a, f) /\ f \in Formats /\ m \in 0..Len(a)
  BY <1>2, FileIs DEF LogInv
<1>4. S = ToSend(f, a, m, s) /\ L = Landed(S) /\ RowsFrom(rows, f, a, m)
  BY <1>1, <1>2 DEF HasRead
<1>5. \A u \in S : HeldIn(L, u.id) = TurnSpans(u)
  BY ONLY <1>3, <1>4, HeldOfSent
<1>6. /\ format' = format /\ log' = log /\ flushed' = flushed /\ cli' = cli /\ File' = File
      /\ sidecar' = sidecar /\ early' = early
  BY DEF cliVars, File
<1>7. ASSUME NEW t \in (sidecar' \union sent') \ early' PROVE Whole(t)'
  <2>1. Whole(t)
    BY <1>6, <1>7 DEF WholeInv
  <2>2. HeldIn(L, t) = HeldIn(rows, t)
    <3>1. CASE \E v \in S : v.id = t
      <4>1. PICK v \in S : v.id = t
        BY <3>1
      <4>2. t \in sidecar
        BY <1>2, <1>4, <1>6, <1>7, <4>1 DEF ToSend
      <4>3. v \in Read(format, File, flushed)
        BY <1>2, <1>6, <1>7, <4>1, <4>2 DEF WholeInv
      <4>4. PICK u \in Read(format, File, flushed) : u.id = t /\ HeldIn(rows, t) = TurnSpans(u)
        BY <2>1 DEF Whole
      <4>5. u = v
        <5>1. PICK R : R = Range(Parse(format, File))
          OBVIOUS
        <5>2. R = Read(format, File, flushed) /\ \A x, y \in R : x.id = y.id => x = y
          BY <5>1, ParsedIs
        <5>3. QED
          BY <4>1, <4>3, <4>4, <5>2
      <4>6. QED
        BY <1>5, <4>1, <4>4, <4>5
    <3>2. CASE \A v \in S : v.id # t
      BY ONLY <1>3, <1>4, <3>2, HeldOfOthers
    <3>3. QED
      BY <3>1, <3>2
  <2>3. HeldIn(rows', t) = HeldIn(rows, t)
    BY <1>2, <2>2
  <2>4. QED
    BY <2>1, <2>3, WholeStays
<1>8. ASSUME NEW u \in fresh', u.ended \/ u.id \in sidecar', u.id \notin early'
      PROVE  u \in Read(format, File, flushed)' /\ Over(u.id)'
  <2>1. u \in Read(format, File, flushed) /\ Over(u.id)
    BY <1>6, <1>8 DEF WholeInv
  <2>2. QED
    BY <2>1, OverStays
<1>9. \A u \in fresh' : HeldIn(rows', u.id) = TurnSpans(u)
  BY <1>2, <1>5
<1>10. QED
  BY <1>7, <1>8, <1>9 DEF WholeInv

LEMMA WholeStep ==
  ASSUME LogInv, HookInv, WholeInv, [Next]_vars
  PROVE  WholeInv'
<1>1. CASE \/ Ask \/ NameAgain \/ Write \/ Call \/ Return \/ Flush \/ Stop \/ SessionEnd
           \/ HookOver \/ Resume \/ UNCHANGED vars
  <2>1. /\ UNCHANGED <<sent, fresh, sidecar, rows, early>>
        /\ hook' = hook \/ hook' = "load"
    BY <1>1 DEF Ask, NameAgain, Write, Call, Return, Flush, Stop, SessionEnd, HookOver, Resume,
                OnlyLog, hookVars, vars
  <2>2. QED
    BY <2>1, WholeKept
<1>2. CASE Kill \/ Refused \/ RecordFails
  <2>1. UNCHANGED <<sidecar, rows, early>> /\ hook' = "off" /\ sent' = {} /\ fresh' = {}
    BY <1>2 DEF Kill, Refused, RecordFails, Exits
  <2>2. QED
    BY <2>1, WholeKept
<1>3. CASE LoadSent
  <2>1. UNCHANGED <<fresh, sidecar, rows, early>> /\ hook' = "settle" /\ sent' \subseteq sidecar
    BY <1>3 DEF LoadSent
  <2>2. QED
    BY <2>1, WholeKept
<1>4. CASE Settle
  <2>1. /\ hook = "settle" /\ fresh' = Unsent(Parse(format, File)) /\ hook' = "export"
        /\ UNCHANGED <<cliVars, sent, sidecar, rows>> /\ early \subseteq early'
        /\ ReadEarly(fresh') \subseteq early'
    BY <1>4 DEF Settle
  <2>2. \A u \in fresh' : u.ended =>
          u.id \in early' \/ \A m \in flushed + 1..Len(log) : log[m].turn # u.id
    BY <2>1 DEF ReadEarly
  <2>3. QED
    BY <2>1, <2>2, WholeRead
<1>5. CASE GiveUp
  <2>1. CASE Unsent(Parse(format, File)) = {}
    <3>1. UNCHANGED <<sidecar, rows, early>> /\ hook' = "off" /\ sent' = {} /\ fresh' = {}
      BY <1>5, <2>1 DEF GiveUp, Exits
    <3>2. QED
      BY <3>1, WholeKept
  <2>2. CASE Unsent(Parse(format, File)) # {}
    <3>1. /\ hook = "settle" /\ fresh' = Unsent(Parse(format, File)) /\ hook' = "export"
          /\ UNCHANGED <<cliVars, sent, sidecar, rows>> /\ early' = early
          /\ \A u \in fresh' : ~u.ended
      BY <1>5, <2>2 DEF GiveUp, Finished
    <3>2. QED
      BY <3>1, WholeRead
  <2>3. QED
    BY <2>1, <2>2
<1>6. CASE Export \/ ExportFails
  <2>1. /\ hook = "export" /\ rows' = Landed(fresh) /\ UNCHANGED <<cliVars, sidecar, early>>
        /\ sent' \subseteq sent /\ fresh' \subseteq fresh
    BY <1>6 DEF Export, ExportFails, Exits
  <2>2. QED
    BY <2>1, WholeSent
<1>7. CASE Truncate
  <2>1. /\ UNCHANGED <<sent, fresh, rows, early>> /\ sidecar' = {} /\ hook = "truncate"
    BY <1>7 DEF Truncate
  <2>2. QED
    BY <2>1, WholeKept
<1>8. CASE RecordSent
  <2>1. /\ UNCHANGED <<rows, early>> /\ sidecar' = Recorded(fresh) /\ hook = "write"
        /\ sent' = {} /\ fresh' = {} /\ hook' = "off"
    BY <1>8 DEF RecordSent, Exits
  <2>2. ASSUME NEW t \in sidecar' \ early' PROVE Whole(t)
    <3>1. CASE t \in sent
      BY <2>1, <2>2, <3>1 DEF WholeInv
    <3>2. CASE t \notin sent
      <4>1. PICK u \in fresh : u.ended /\ u.id = t
        BY <2>1, <2>2, <3>2 DEF Recorded
      <4>2. /\ u \in Read(format, File, flushed) /\ Over(u.id)
            /\ HeldIn(rows, u.id) = TurnSpans(u)
        BY <2>1, <2>2, <4>1 DEF WholeInv
      <4>3. QED
        BY <4>1, <4>2 DEF Whole
    <3>3. QED
      BY <3>1, <3>2
  <2>3. \A t \in (sidecar' \union sent') \ early' : Whole(t)'
    BY <2>1, <2>2, WholeStays
  <2>4. QED
    BY <2>1, <2>3 DEF WholeInv
<1>9. QED
  BY <1>1, <1>2, <1>3, <1>4, <1>5, <1>6, <1>7, <1>8 DEF Next, Cli, Hook

LEMMA WholeIsRecorded ==
  ASSUME LogInv, WholeInv
  PROVE  RecordedWhole
<1>1. ASSUME NEW t \in sidecar \ early PROVE Held(t) = Due(t)
  <2>1. PICK u \in Read(format, File, flushed) : u.id = t /\ HeldIn(rows, t) = TurnSpans(u)
    BY <1>1 DEF WholeInv, Whole
  <2>2. PICK ts, R : ts = Parse(format, File) /\ R = Range(ts)
    OBVIOUS
  <2>3. R = Read(format, File, flushed) /\ \A x, y \in R : x.id = y.id => x = y
    BY <2>2, ParsedIs
  <2>4. PICK i \in DOMAIN ts : ts[i] = u
    BY <2>1, <2>2, <2>3 DEF Range
  <2>5. PICK j : j = CHOOSE n \in DOMAIN ts : ts[n].id = t
    OBVIOUS
  <2>6. j \in DOMAIN ts /\ ts[j].id = t
    BY <2>1, <2>4, <2>5
  <2>7. ts[j] = u
    BY <2>1, <2>2, <2>3, <2>6 DEF Range
  <2>8. Due(t) = TurnSpans(u)
    BY <2>2, <2>5, <2>7 DEF Due
  <2>9. Held(t) = HeldIn(rows, t)
    BY DEF Held, HeldIn
  <2>10. QED
    BY <2>1, <2>8, <2>9
<1>2. QED
  BY <1>1 DEF RecordedWhole

LEMMA WholeInit ==
  ASSUME Init
  PROVE  WholeInv
BY DEF Init, WholeInv

-----------------------------------------------------------------------------
(* The hook and the CLI together. *)

HookAndLogInv == LogInv /\ HookInv /\ NamesInv /\ WholeInv

LEMMA HookAndLog == Spec => []HookAndLogInv
<1>1. Init => HookAndLogInv
  BY LogInit, HookInit, NamesInit, WholeInit DEF HookAndLogInv
<1>2. HookAndLogInv /\ [Next]_vars => HookAndLogInv'
  BY LogStep, HookStep, NamesStep, WholeStep DEF HookAndLogInv
<1>3. QED
  BY <1>1, <1>2, PTL DEF Spec

\* The type invariant: the log's lines, turns and calls stay within their bounds,
\* the CLI waits wherever the hook runs, and whatever a reading of the transcript
\* makes of its turns, all that is sent, held or recorded is of turns there are.
THEOREM HookIsTyped == Spec => []TypeOK
<1>1. HookAndLogInv => TypeOK
  BY TypesHold DEF HookAndLogInv
<1>2. QED
  BY <1>1, HookAndLog, PTL

\* A turn the sidecar names is one the service holds all of, for a session of any
\* length, killed, resumed and failed at any step, unless the hook read it before
\* all its lines were in the file (settledTurns, Exporter.Turns, recordSent).
THEOREM HookRecordsWholeTurns == Spec => []RecordedWhole
<1>1. HookAndLogInv => RecordedWhole
  BY WholeIsRecorded DEF HookAndLogInv
<1>2. QED
  BY <1>1, HookAndLog, PTL

\* The rows of the service only grow, and each goes on describing what it did:
\* reading on in a transcript keeps every turn, step and call at its place, so an
\* export repeated, resumed or made after a lost sidecar completes the rows of
\* the ones before it (RowsOnlyGrow).
THEOREM HookRowsOnlyGrow == Spec => RowsOnlyGrow
<1>1. ASSUME HookAndLogInv, [Next]_vars
      PROVE  \A k \in DOMAIN rows :
               /\ k \in DOMAIN rows' /\ rows'[k].of = rows[k].of
               /\ k[3] = 0 => /\ rows[k].said <= rows'[k].said
                              /\ rows[k].usage <= rows'[k].usage
                              /\ IsPrefix(rows[k].calls, rows'[k].calls)
                              /\ rows[k].context = rows'[k].context
               /\ k[3] > 0 => (rows[k].done => rows'[k].done)
  BY <1>1, RowsGrowStep DEF HookAndLogInv, RowGrows
<1>2. QED
  BY <1>1, HookAndLog, PTL DEF Spec, RowsOnlyGrow

\* A sidecar that is written names every turn of which the service holds a row,
\* whatever was exported and not recorded, or recorded and lost, before: a turn
\* with a row had been seen to end (recordSent, SidecarMadeWhole).
THEOREM HookMakesSidecarWhole == Spec => SidecarMadeWhole
<1>1. ASSUME HookAndLogInv, [Next]_vars, hook = "write", sidecar' # sidecar
      PROVE  \A k \in DOMAIN rows : k[1] \in sidecar'
  BY <1>1, SidecarStep DEF HookAndLogInv
<1>2. QED
  BY <1>1, HookAndLog, PTL DEF Spec, SidecarMadeWhole

-----------------------------------------------------------------------------
(* What the CLI has written before a line it writes. *)

Written(a, l, f) ==
  /\ l.kind \in {"text", "call"} =>
       /\ l.step[1] = l.turn
       /\ f # "claude" => l.step[2] = 0
       /\ f = "claude" => l.tokens = Cardinality(Answers(a, l.step)) + 1
       /\ \A j \in DOMAIN a : a[j].kind = "usage" => a[j].turn # l.turn
  /\ l.kind = "result" => \A j \in DOMAIN a : a[j].kind = "result" => a[j].id # l.id
  /\ l.kind = "usage" => l.tokens = Cardinality(Texts(a, <<l.turn, 0>>))
  /\ l.kind = "prompt" => l.step = NoStep

LogWritten(lines, f) ==
  \A i \in DOMAIN lines : Written(SubSeq(lines, 1, i - 1), lines[i], f)

LEMMA PrefixSame ==
  ASSUME NEW a, a \in Seq(LineRecs), NEW b, b \in Seq(LineRecs), Begins(a, b),
         NEW m, m \in 0..Len(a)
  PROVE  SubSeq(a, 1, m) = SubSeq(b, 1, m)
<1>1. PICK c, d : c = SubSeq(a, 1, m) /\ d = SubSeq(b, 1, m)
  OBVIOUS
<1>2. m \in 0..Len(b)
  BY DEF Begins
<1>3. /\ c \in Seq(LineRecs) /\ Len(c) = m /\ \A j \in 1..m : c[j] = a[j]
      /\ d \in Seq(LineRecs) /\ Len(d) = m /\ \A j \in 1..m : d[j] = b[j]
  BY <1>1, <1>2, SubSeqIs
<1>4. \A j \in 1..m : a[j] = b[j]
  BY DEF Begins
<1>5. c = d
  BY <1>3, <1>4
<1>6. QED
  BY <1>1, <1>5

LEMMA PrefixWhole ==
  ASSUME NEW a, a \in Seq(LineRecs)
  PROVE  SubSeq(a, 1, Len(a)) = a
<1>1. PICK c : c = SubSeq(a, 1, Len(a))
  OBVIOUS
<1>2. Len(a) \in 0..Len(a) /\ Len(a) \in Nat
  OBVIOUS
<1>3. /\ c \in Seq(LineRecs) /\ Len(c) = Len(a) /\ \A j \in 1..Len(a) : c[j] = a[j]
  BY <1>1, <1>2, SubSeqIs
<1>4. c = a
  BY <1>3
<1>5. QED
  BY <1>1, <1>4

LEMMA WrittenBegins ==
  ASSUME NEW a, a \in Seq(LineRecs), NEW b, b \in Seq(LineRecs), Begins(a, b),
         NEW f, LogWritten(b, f)
  PROVE  LogWritten(a, f)
<1>1. ASSUME NEW i \in DOMAIN a PROVE Written(SubSeq(a, 1, i - 1), a[i], f)
  <2>1. i \in DOMAIN b /\ a[i] = b[i] /\ i - 1 \in 0..Len(a)
    BY DEF Begins
  <2>2. SubSeq(a, 1, i - 1) = SubSeq(b, 1, i - 1)
    BY ONLY <2>1, a \in Seq(LineRecs), b \in Seq(LineRecs), Begins(a, b), PrefixSame
  <2>3. QED
    BY <2>1, <2>2 DEF LogWritten
<1>2. QED
  BY <1>1 DEF LogWritten

LEMMA WrittenMore ==
  ASSUME NEW a, a \in Seq(LineRecs), NEW l, l \in LineRecs, NEW f, LogWritten(a, f),
         Written(a, l, f), NEW b, b = Append(a, l)
  PROVE  LogWritten(b, f)
<1>1. b \in Seq(LineRecs) /\ Begins(a, b) /\ Len(b) = Len(a) + 1 /\ b[Len(b)] = l
  BY DEF Begins
<1>2. ASSUME NEW i \in DOMAIN b PROVE Written(SubSeq(b, 1, i - 1), b[i], f)
  <2>1. i - 1 \in 0..Len(a)
    BY <1>1
  <2>2. SubSeq(a, 1, i - 1) = SubSeq(b, 1, i - 1)
    BY ONLY <1>1, <2>1, a \in Seq(LineRecs), PrefixSame
  <2>3. CASE i \in DOMAIN a
    <3>1. b[i] = a[i]
      BY <1>1, <2>3 DEF Begins
    <3>2. QED
      BY <2>2, <2>3, <3>1 DEF LogWritten
  <2>4. CASE i \notin DOMAIN a
    <3>1. i = Len(b) /\ i - 1 = Len(a)
      BY <1>1, <2>4
    <3>2. SubSeq(a, 1, i - 1) = a
      BY <3>1, PrefixWhole
    <3>3. QED
      BY <1>1, <2>2, <3>1, <3>2
  <2>5. QED
    BY <2>3, <2>4
<1>3. QED
  BY <1>2 DEF LogWritten

LEMMA Countable ==
  ASSUME NEW lines, lines \in Seq(LineRecs), NEW T, T \subseteq DOMAIN lines
  PROVE  IsFiniteSet(T) /\ Cardinality(T) \in Nat
<1>1. Len(lines) \in Nat /\ DOMAIN lines = 1..Len(lines)
  OBVIOUS
<1>2. IsFiniteSet(1..Len(lines)) /\ T \in SUBSET (1..Len(lines))
  BY <1>1, FS_Interval
<1>3. IsFiniteSet(T)
  BY <1>2, FS_Subset
<1>4. QED
  BY <1>3, FS_CardinalityType

\* The step of the next line of the model.
LEMMA MessageIsOfTurn ==
  ASSUME LogInv, LogWritten(log, format), cli = "turn"
  PROVE  Message[1] = Last(log).turn /\ (format # "claude" => Message[2] = 0)
<1>1. PICK t : t = Last(log).turn
  OBVIOUS
<1>2. PICK n \in Nat : n = Len(log)
  BY InFlight
<1>3. n \in DOMAIN log /\ Last(log) = log[n]
  BY <1>2, InFlight DEF Last
<1>4. Last(log).kind \in {"text", "call"} => Last(log).step[1] = t
  BY <1>1, <1>3 DEF LogWritten, Written
<1>5. Message[1] = t
  BY <1>1, <1>4 DEF Message
<1>6. format # "claude" => Message[2] = 0
  BY DEF Message
<1>7. QED
  BY <1>1, <1>5, <1>6

\* The line l of the turn in flight, which the model says.
LEMMA AnswerWritten ==
  ASSUME LogInv, LogWritten(log, format), cli = "turn",
         NEW l, l \in LineRecs, l.kind \in {"text", "call"}, l.turn = Last(log).turn,
         l.step = Message, l.tokens = Tokens(Message), log' = Append(log, l)
  PROVE  LogWritten(log', format)
<1>1. PICK a, b, f : a = log /\ b = log' /\ f = format
  OBVIOUS
<1>2. a \in Seq(LineRecs) /\ InTurn(a) /\ b = Append(a, l) /\ LogWritten(a, f)
      /\ l.turn = Last(a).turn
  BY <1>1, InFlight
<1>3. l.step[1] = l.turn /\ (f # "claude" => l.step[2] = 0)
  BY <1>1, MessageIsOfTurn
<1>4. f = "claude" => l.tokens = Cardinality(Answers(a, l.step)) + 1
  <2>1. PICK n : n = Cardinality(Answers(a, l.step))
    OBVIOUS
  <2>2. n \in Nat
    <3>1. Answers(a, l.step) \subseteq DOMAIN a
      BY DEF Answers
    <3>2. QED
      BY ONLY <1>2, <2>1, <3>1, Countable
  <2>3. f = "claude" => l.tokens = 1 + n
    BY <1>1, <2>1 DEF Tokens
  <2>4. QED
    BY ONLY <2>1, <2>2, <2>3
<1>5. Written(a, l, f)
  <2>1. \A j \in DOMAIN a : a[j].kind = "usage" => a[j].turn # l.turn
    BY <1>2 DEF InTurn
  <2>2. l.kind # "result" /\ l.kind # "usage" /\ l.kind # "prompt"
    OBVIOUS
  <2>3. QED
    BY ONLY <1>3, <1>4, <2>1, <2>2 DEF Written
<1>6. LogWritten(b, f)
  BY ONLY <1>2, <1>5, l \in LineRecs, WrittenMore
<1>7. QED
  BY <1>1, <1>6

\* Lines that neither say, return nor count anything.
LEMMA OtherWritten ==
  ASSUME NEW a, a \in Seq(LineRecs), NEW f, LogWritten(a, f),
         NEW l, l \in LineRecs, l.kind \in {"context", "prompt"}, l.step = NoStep,
         NEW b, b = Append(a, l)
  PROVE  LogWritten(b, f)
<1>1. Written(a, l, f)
  BY DEF Written
<1>2. QED
  BY <1>1, WrittenMore

LEMMA AskWritten ==
  ASSUME LogInv, LogWritten(log, format), Ask
  PROVE  LogWritten(log', format)
<1>1. PICK t, f, a, b : /\ t = Cardinality(Turns(log)) + 1 /\ f = format
                        /\ a = log /\ b = log'
  OBVIOUS
<1>2. LogGood(a, f) /\ a \in Seq(LineRecs) /\ LogWritten(a, f)
  BY <1>1 DEF LogInv, LogGood
<1>3. t \in Nat
  <2>1. t = Cardinality(Turns(a)) + 1
    BY <1>1
  <2>2. QED
    BY ONLY <1>2, <2>1, NextTurn
<1>4. PICK d, q : /\ d = Line("context", IF f = "codex" THEN t ELSE NoTurn, NoStep, NoCall, 0)
                  /\ q = Line("prompt", t, NoStep, NoCall, 0)
  OBVIOUS
<1>5. b = a \o IF f = "claude" THEN <<q>> ELSE <<d, q>>
  BY <1>1, <1>4 DEF Ask
<1>6. d \in LineRecs /\ d.kind = "context" /\ d.step = NoStep
  <2>1. (IF f = "codex" THEN t ELSE NoTurn) \in Nat /\ "context" \in Kinds /\ NoCall \in Nat
    BY <1>3 DEF NoTurn, Kinds, NoCall
  <2>2. QED
    BY ONLY <1>4, <2>1, NoStepIsStep, SMTT(30) DEF Line, LineRecs
<1>7. q \in LineRecs /\ q.kind = "prompt" /\ q.step = NoStep
  <2>1. "prompt" \in Kinds /\ NoCall \in Nat
    BY DEF Kinds, NoCall
  <2>2. QED
    BY ONLY <1>3, <1>4, <2>1, NoStepIsStep, SMTT(30) DEF Line, LineRecs
<1>8. CASE f = "claude"
  <2>1. b = Append(a, q)
    BY ONLY <1>2, <1>5, <1>7, <1>8
  <2>2. LogWritten(b, f)
    BY ONLY <1>2, <1>7, <2>1, OtherWritten
  <2>3. QED
    BY <1>1, <2>2
<1>9. CASE f # "claude"
  <2>1. PICK c : c = Append(a, d)
    OBVIOUS
  <2>2. c \in Seq(LineRecs)
    BY <1>2, <1>6, <2>1
  <2>3. b = Append(c, q)
    <3>1. b = a \o <<d, q>>
      BY <1>5, <1>9
    <3>2. QED
      BY ONLY <1>2, <1>6, <1>7, <2>1, <3>1
  <2>4. LogWritten(c, f)
    BY ONLY <1>2, <1>6, <2>1, OtherWritten
  <2>5. LogWritten(b, f)
    BY ONLY <1>7, <2>2, <2>3, <2>4, OtherWritten
  <2>6. QED
    BY <1>1, <2>5
<1>10. QED
  BY <1>8, <1>9

LEMMA NameAgainWritten ==
  ASSUME LogInv, LogWritten(log, format), NameAgain
  PROVE  LogWritten(log', format)
<1>1. PICK t, f, a, b : t = Last(log).turn /\ f = format /\ a = log /\ b = log'
  OBVIOUS
<1>2. cli = "turn"
  BY DEF NameAgain
<1>3. a \in Seq(LineRecs) /\ LogWritten(a, f) /\ t \in Nat
  BY <1>1, <1>2, InFlight
<1>4. PICK l : l = Line("context", t, NoStep, NoCall, 0)
  OBVIOUS
<1>5. l \in LineRecs /\ l.kind = "context" /\ l.step = NoStep
  <2>1. "context" \in Kinds /\ NoCall \in Nat
    BY DEF Kinds, NoCall
  <2>2. QED
    BY ONLY <1>3, <1>4, <2>1, NoStepIsStep, SMTT(30) DEF Line, LineRecs
<1>6. b = Append(a, l)
  BY <1>1, <1>4 DEF NameAgain
<1>7. LogWritten(b, f)
  BY ONLY <1>3, <1>5, <1>6, OtherWritten
<1>8. QED
  BY <1>1, <1>7

LEMMA WriteWritten ==
  ASSUME LogInv, LogWritten(log, format), Write
  PROVE  LogWritten(log', format)
<1>1. PICK t, s, n : t = Last(log).turn /\ s = Message /\ n = Tokens(Message)
  OBVIOUS
<1>2. cli = "turn"
  BY DEF Write, MayAnswer
<1>3. t \in Nat /\ s \in Nat \X Nat /\ n \in Nat
  BY <1>1, <1>2, InFlight, MessageIsStep, TokensAreCounted
<1>4. PICK l : l = Line("text", t, s, NoCall, n)
  OBVIOUS
<1>5. l \in LineRecs /\ l.kind = "text" /\ l.turn = t /\ l.step = s /\ l.tokens = n
  <2>1. "text" \in Kinds /\ NoCall \in Nat
    BY DEF Kinds, NoCall
  <2>2. QED
    BY ONLY <1>3, <1>4, <2>1, SMTT(30) DEF Line, LineRecs
<1>6. log' = Append(log, l)
  BY <1>1, <1>4 DEF Write
<1>7. l.turn = Last(log).turn /\ l.step = Message /\ l.tokens = Tokens(Message)
  BY <1>1, <1>5
<1>8. QED
  BY <1>2, <1>5, <1>6, <1>7, AnswerWritten

LEMMA CallWritten ==
  ASSUME LogInv, LogWritten(log, format), Call
  PROVE  LogWritten(log', format)
<1>1. PICK t, s, n, c : /\ t = Last(log).turn /\ s = Message /\ n = Tokens(Message)
                        /\ c = Cardinality(Names(log, "call")) + 1
  OBVIOUS
<1>2. cli = "turn"
  BY DEF Call, MayAnswer
<1>3. t \in Nat /\ s \in Nat \X Nat /\ n \in Nat
  BY <1>1, <1>2, InFlight, MessageIsStep, TokensAreCounted
<1>4. c \in Nat
  BY <1>1, <1>2, InFlight, NextCall
<1>5. PICK l : l = Line("call", t, s, c, n)
  OBVIOUS
<1>6. l \in LineRecs /\ l.kind = "call" /\ l.turn = t /\ l.step = s /\ l.tokens = n
  <2>1. "call" \in Kinds
    BY DEF Kinds
  <2>2. QED
    BY ONLY <1>3, <1>4, <1>5, <2>1, SMTT(30) DEF Line, LineRecs
<1>7. log' = Append(log, l)
  BY <1>1, <1>5 DEF Call
<1>8. l.turn = Last(log).turn /\ l.step = Message /\ l.tokens = Tokens(Message)
  BY <1>1, <1>6
<1>9. QED
  BY <1>2, <1>6, <1>7, <1>8, AnswerWritten

LEMMA ReturnWritten ==
  ASSUME LogInv, LogWritten(log, format), Return
  PROVE  LogWritten(log', format)
<1>1. PICK t, f, a, b : t = Last(log).turn /\ f = format /\ a = log /\ b = log'
  OBVIOUS
<1>2. PICK c \in Outstanding :
        /\ cli = "turn" /\ log' = Append(log, Line("result", Last(log).turn, NoStep, c, 0))
  BY DEF Return
<1>3. LogGood(a, f) /\ a \in Seq(LineRecs) /\ LogWritten(a, f) /\ t \in Nat
  BY <1>1, <1>2, InFlight
<1>4. PICK i \in DOMAIN a : a[i].kind = "call" /\ a[i].id = c /\ a[i].turn = t
  BY <1>1 DEF Outstanding, Of
<1>5. c \in Nat
  BY <1>3, <1>4, LogGoodTyped, BoundsAssumption
<1>6. \A j \in DOMAIN a : a[j].kind = "result" => a[j].id # c
  BY <1>1 DEF Outstanding, Names, Of
<1>7. PICK l : l = Line("result", t, NoStep, c, 0)
  OBVIOUS
<1>8. l \in LineRecs /\ l.kind = "result" /\ l.id = c
  <2>1. "result" \in Kinds
    BY DEF Kinds
  <2>2. QED
    BY ONLY <1>3, <1>5, <1>7, <2>1, NoStepIsStep, SMTT(30) DEF Line, LineRecs
<1>9. b = Append(a, l)
  BY <1>1, <1>2, <1>7
<1>10. Written(a, l, f)
  BY ONLY <1>6, <1>8 DEF Written
<1>11. LogWritten(b, f)
  BY ONLY <1>3, <1>8, <1>9, <1>10, WrittenMore
<1>12. QED
  BY <1>1, <1>11

LEMMA StopWritten ==
  ASSUME LogInv, LogWritten(log, format), Stop
  PROVE  LogWritten(log', format)
<1>1. CASE format = "claude"
  BY <1>1 DEF Stop
<1>2. CASE format # "claude"
  <2>1. PICK t, f, a, b, T : /\ t = Last(log).turn /\ f = format /\ a = log /\ b = log'
                             /\ T = {i \in Of(log, "text") : log[i].turn = Last(log).turn}
    OBVIOUS
  <2>2. cli = "turn"
    BY DEF Stop
  <2>3. LogGood(a, f) /\ a \in Seq(LineRecs) /\ LogWritten(a, f) /\ t \in Nat
    BY <2>1, <2>2, InFlight
  <2>4. T = Texts(a, <<t, 0>>)
    <3>1. ASSUME NEW i \in DOMAIN a, a[i].kind = "text"
          PROVE  a[i].turn = t <=> a[i].step = <<t, 0>>
      <4>1. a[i].step[1] = a[i].turn /\ a[i].step[2] = 0 /\ a[i].step \in Nat \X Nat
        <5>1. Written(SubSeq(a, 1, i - 1), a[i], f)
          BY <2>3, <3>1 DEF LogWritten
        <5>2. f # "claude"
          BY <1>2, <2>1
        <5>3. a[i].step \in Nat \X Nat
          BY <2>3, <3>1, LogGoodTyped DEF LineRecs
        <5>4. QED
          BY <3>1, <5>1, <5>2, <5>3 DEF Written
      <4>2. a[i].step = <<a[i].turn, 0>>
        BY ONLY <4>1
      <4>3. QED
        BY ONLY <4>2
    <3>2. T = {i \in DOMAIN a : a[i].kind = "text" /\ a[i].turn = t}
      BY <2>1 DEF Of
    <3>3. QED
      BY ONLY <3>1, <3>2 DEF Texts, Answers
  <2>5. PICK n : n = Cardinality(T)
    OBVIOUS
  <2>6. n \in Nat
    <3>1. T \subseteq DOMAIN a
      BY <2>1 DEF Of
    <3>2. QED
      BY ONLY <2>3, <2>5, <3>1, Countable
  <2>7. PICK l : l = Line("usage", t, NoStep, NoCall, n)
    OBVIOUS
  <2>8. l \in LineRecs /\ l.kind = "usage" /\ l.turn = t /\ l.tokens = n
    <3>1. "usage" \in Kinds /\ NoCall \in Nat
      BY DEF Kinds, NoCall
    <3>2. QED
      BY ONLY <2>3, <2>6, <2>7, <3>1, NoStepIsStep, SMTT(30) DEF Line, LineRecs
  <2>9. b = Append(a, l)
    BY <1>2, <2>1, <2>5, <2>7 DEF Stop
  <2>10. Written(a, l, f)
    BY ONLY <2>4, <2>5, <2>8 DEF Written
  <2>11. LogWritten(b, f)
    BY ONLY <2>3, <2>8, <2>9, <2>10, WrittenMore
  <2>12. QED
    BY <2>1, <2>11
<1>3. QED
  BY <1>1, <1>2

LEMMA FileWritten ==
  ASSUME LogInv, LogWritten(log, format)
  PROVE  LogWritten(File, format)
<1>1. PICK a, b, f : a = File /\ b = log /\ f = format
  OBVIOUS
<1>2. a \in Seq(LineRecs) /\ b \in Seq(LineRecs) /\ Begins(a, b) /\ LogWritten(b, f)
  BY <1>1, FileIs
<1>3. LogWritten(a, f)
  BY ONLY <1>2, WrittenBegins
<1>4. QED
  BY <1>1, <1>3

LEMMA WrittenStep ==
  ASSUME LogInv, LogWritten(log, format), [Next]_vars
  PROVE  LogWritten(log', format')
<1>1. format' = format
  BY LogStep
<1>2. CASE Ask \/ NameAgain \/ Write \/ Call \/ Return \/ Stop
  BY <1>1, <1>2, AskWritten, NameAgainWritten, WriteWritten, CallWritten, ReturnWritten,
     StopWritten
<1>3. CASE Kill
  BY <1>1, <1>3, FileWritten DEF Kill
<1>4. CASE Flush \/ SessionEnd \/ HookOver \/ Resume \/ Hook \/ UNCHANGED vars
  <2>1. log' = log
    BY <1>4 DEF Flush, SessionEnd, HookOver, Resume, Hook, vars, cliVars, LoadSent, Settle, GiveUp,
       Refused, Export, ExportFails, Truncate, RecordSent, RecordFails
  <2>2. QED
    BY <1>1, <2>1
<1>5. QED
  BY <1>2, <1>3, <1>4 DEF Next, Cli

LEMMA WrittenInit ==
  ASSUME Init
  PROVE  LogWritten(log, format)
BY DEF Init, LogWritten

-----------------------------------------------------------------------------
(* How the slice of a step's calls grows. *)

LEMMA CapacityIs ==
  ASSUME NEW n \in Nat
  PROVE  \/ /\ Capacity(n) \in Sizes /\ n <= Capacity(n)
            /\ \A d \in Sizes : n <= d => Capacity(n) <= d
         \/ Capacity(n) = n /\ \A d \in Sizes : ~(n <= d)
<1>1. CASE \E c \in Sizes : n <= c
  <2>1. PICK S : S = {c \in Sizes : n <= c}
    OBVIOUS
  <2>2. S \in SUBSET Nat /\ S # {}
    BY <1>1, <2>1, SizesAssumption DEF SizesAssumption
  <2>3. \E c \in Sizes : n <= c /\ \A d \in Sizes : n <= d => c <= d
    BY <2>1, <2>2, HasLeast
  <2>4. QED
    BY <1>1, <2>3 DEF Capacity
<1>2. CASE \A c \in Sizes : ~(n <= c)
  BY <1>2 DEF Capacity
<1>3. QED
  BY <1>1, <1>2

\* A slice that grew from i to n calls has moved if they no longer fit where the
\* first i were, and only then.
LEMMA CapacityStays ==
  ASSUME NEW n \in Nat, NEW i \in 1..n
  PROVE  Capacity(i) = Capacity(n) <=> n <= Capacity(i)
<1>1. PICK x, y : x = Capacity(i) /\ y = Capacity(n)
  OBVIOUS
<1>2. i \in Nat /\ i <= n
  OBVIOUS
<1>3. \/ x \in Sizes /\ i <= x /\ \A d \in Sizes : i <= d => x <= d
      \/ x = i /\ \A d \in Sizes : ~(i <= d)
  BY <1>1, <1>2, CapacityIs
<1>4. \/ y \in Sizes /\ n <= y /\ \A d \in Sizes : n <= d => y <= d
      \/ y = n /\ \A d \in Sizes : ~(n <= d)
  BY <1>1, CapacityIs
<1>5. Sizes \subseteq Nat
  BY SizesAssumption DEF SizesAssumption
<1>6. x = y <=> n <= x
  <2>1. x \in Nat /\ y \in Nat /\ n <= y
    <3>1. x \in Nat
      BY ONLY <1>2, <1>3, <1>5
    <3>2. y \in Nat
      BY ONLY <1>4, <1>5, n \in Nat
    <3>3. n <= y
      BY ONLY <1>4, n \in Nat
    <3>4. QED
      BY <3>1, <3>2, <3>3
  <2>2. ASSUME n <= x PROVE x = y
    <3>1. CASE x \in Sizes
      <4>1. y \in Sizes /\ y <= x
        BY ONLY <1>4, <2>2, <3>1
      <4>2. x <= y
        BY ONLY <1>2, <1>3, <1>5, <2>1, <4>1, n \in Nat
      <4>3. QED
        BY ONLY <2>1, <4>1, <4>2
    <3>2. CASE x = i /\ \A d \in Sizes : ~(i <= d)
      <4>1. n = i
        BY ONLY <1>2, <2>2, <3>2, n \in Nat
      <4>2. QED
        BY ONLY <1>4, <3>2, <4>1
    <3>3. QED
      BY ONLY <1>3, <3>1, <3>2
  <2>3. QED
    BY ONLY <2>1, <2>2
<1>7. QED
  BY <1>1, <1>6

-----------------------------------------------------------------------------
(* Exactly what an edit does. *)

\* q is p with the record given for step k of its turn n, which may be a step more.
Puts(p, q, n, k, step) ==
  /\ ParserOK(q) /\ Len(q.turns) = Len(p.turns)
  /\ \A m \in DOMAIN p.turns : m # n => q.turns[m] = p.turns[m]
  /\ q.turns[n].id = p.turns[n].id
  /\ k \in DOMAIN q.turns[n].steps /\ q.turns[n].steps[k] = step
  /\ DOMAIN q.turns[n].steps = DOMAIN p.turns[n].steps \union {k}
  /\ \A j \in DOMAIN p.turns[n].steps : j # k => q.turns[n].steps[j] = p.turns[n].steps[j]

Keeps(p, q) == q.pending = p.pending /\ q.seen = p.seen /\ q.sent = p.sent

\* k is where step s of the turn in flight, n, is found.
At(p, n, k, s) ==
  /\ n = Len(p.turns) /\ n \in DOMAIN p.turns
  /\ k \in DOMAIN p.turns[n].steps /\ p.turns[n].steps[k].id = s
  /\ \A j \in DOMAIN p.turns[n].steps : p.turns[n].steps[j].id = s => j = k

LEMMA AtIs ==
  ASSUME NEW p, ParserOK(p), NEW n, NEW k, NEW s, At(p, n, k, s)
  PROVE  /\ Current(p) = p.turns[n] /\ StepIndex(p, s) = k /\ HasStep(p, s)
         /\ p.turns[n] \in TurnRecs /\ p.turns[n].steps[k] \in StepRecs /\ p.turns # <<>>
<1>1. p.turns # <<>> /\ p.turns[n] \in TurnRecs /\ n = Len(p.turns)
  BY TurnsAreTurns DEF At
<1>2. Current(p) = p.turns[n] /\ p.turns[n].steps[k] \in StepRecs
  BY <1>1, StepIsStep DEF At
<1>3. HasStep(p, s)
  BY <1>2 DEF HasStep, At
<1>4. StepIndex(p, s) = k
  BY <1>2 DEF StepIndex, At
<1>5. QED
  BY <1>1, <1>2, <1>3, <1>4

LEMMA PutsOn ==
  ASSUME NEW p, NEW q, NEW r, NEW n, NEW k, NEW a, NEW b, ParserOK(p), n \in DOMAIN p.turns,
         Puts(p, q, n, k, a), Puts(q, r, n, k, b)
  PROVE  Puts(p, r, n, k, b)
<1>1. DOMAIN q.turns = DOMAIN p.turns
  BY DEF Puts, ParserOK
<1>2. QED
  BY <1>1 DEF Puts

LEMMA PutsAt ==
  ASSUME NEW p, NEW q, NEW n, NEW k, NEW s, NEW step, ParserOK(p), At(p, n, k, s),
         Puts(p, q, n, k, step), step.id = s
  PROVE  ParserOK(q) /\ At(q, n, k, s) /\ q.turns[n].steps[k] = step
<1>1. DOMAIN q.turns = DOMAIN p.turns
  BY DEF Puts, ParserOK
<1>2. QED
  BY <1>1 DEF Puts, At

\* The same turns, edited no further.
LEMMA PutsSame ==
  ASSUME NEW p, NEW q, NEW r, NEW n, NEW k, NEW a, Puts(p, q, n, k, a),
         ParserOK(r), r.turns = q.turns
  PROVE  Puts(p, r, n, k, a)
BY DEF Puts

LEMMA WithStepPuts ==
  ASSUME NEW p, ParserOK(p), NEW n \in DOMAIN p.turns, NEW k \in DOMAIN p.turns[n].steps,
         NEW step, step \in StepRecs, NEW q, q = WithStep(p, n, k, step)
  PROVE  Puts(p, q, n, k, step) /\ Keeps(p, q) /\ q.turns[n].ended = p.turns[n].ended
<1>1. PICK t, u : /\ t = p.turns[n] /\ u = [t EXCEPT !.steps = [@ EXCEPT ![k] = step]]
  OBVIOUS
<1>2. t \in TurnRecs /\ k \in DOMAIN t.steps
  BY <1>1, TurnsAreTurns
<1>3. /\ t.steps \in Seq(StepRecs) /\ u.steps = [t.steps EXCEPT ![k] = step]
      /\ u.id = t.id /\ u.ended = t.ended
      /\ u = [id |-> u.id, ended |-> u.ended, steps |-> u.steps]
  BY ONLY <1>1, <1>2 DEF TurnRecs
<1>4. /\ u.steps \in Seq(StepRecs) /\ DOMAIN u.steps = DOMAIN t.steps /\ u.steps[k] = step
      /\ \A j \in DOMAIN t.steps : j # k => u.steps[j] = t.steps[j]
  BY ONLY <1>2, <1>3, step \in StepRecs
<1>5. u \in TurnRecs
  BY ONLY <1>2, <1>3, <1>4, Zenon DEF TurnRecs
<1>6. /\ q.turns = [p.turns EXCEPT ![n] = u]
      /\ q.pending = p.pending /\ q.seen = p.seen /\ q.sent = p.sent
      /\ q = [turns |-> q.turns, pending |-> q.pending, seen |-> q.seen, sent |-> q.sent]
  BY <1>1 DEF ParserOK, WithStep
<1>7. p.turns \in Seq(TurnRecs) /\ n \in DOMAIN p.turns
  BY DEF ParserOK
<1>8. /\ q.turns \in Seq(TurnRecs) /\ Len(q.turns) = Len(p.turns)
      /\ q.turns[n] = u /\ \A m \in DOMAIN p.turns : m # n => q.turns[m] = p.turns[m]
  BY ONLY <1>5, <1>6, <1>7
<1>9. ParserOK(q)
  BY <1>6, <1>8 DEF ParserOK
<1>10. DOMAIN u.steps = DOMAIN t.steps \union {k} /\ k \in DOMAIN u.steps
  BY <1>2, <1>4
<1>11. Puts(p, q, n, k, step)
  BY ONLY <1>1, <1>3, <1>4, <1>8, <1>9, <1>10 DEF Puts
<1>12. QED
  BY <1>1, <1>3, <1>6, <1>8, <1>11 DEF Keeps

LEMMA ShownIs ==
  ASSUME NEW p, ParserOK(p), NEW q, q = Shown(p)
  PROVE  /\ ParserOK(q) /\ q.turns = p.turns /\ q.pending = p.pending
         /\ q.seen = p.seen + 1 /\ q.sent = p.sent
BY DEF ParserOK, Shown

\* q is p with its turn n seen to end.
Ends(p, q, n) ==
  /\ ParserOK(q) /\ Len(q.turns) = Len(p.turns) /\ Keeps(p, q)
  /\ \A m \in DOMAIN p.turns : m # n => q.turns[m] = p.turns[m]
  /\ q.turns[n].id = p.turns[n].id /\ q.turns[n].steps = p.turns[n].steps
  /\ q.turns[n].ended = TRUE

LEMMA EndedIs ==
  ASSUME NEW p, ParserOK(p), p.turns # <<>>, NEW n, n = Len(p.turns), NEW q, q = Ended(p)
  PROVE  Ends(p, q, n)
<1>1. PICK t, u : t = p.turns[n] /\ u = [t EXCEPT !.ended = TRUE]
  OBVIOUS
<1>2. p.turns \in Seq(TurnRecs) /\ n \in DOMAIN p.turns /\ t \in TurnRecs
  BY <1>1 DEF ParserOK
<1>3. u \in TurnRecs /\ u.id = t.id /\ u.steps = t.steps /\ u.ended = TRUE
  BY ONLY <1>1, <1>2 DEF TurnRecs
<1>4. /\ q.turns = [p.turns EXCEPT ![n] = u]
      /\ q.pending = p.pending /\ q.seen = p.seen /\ q.sent = p.sent
      /\ q = [turns |-> q.turns, pending |-> q.pending, seen |-> q.seen, sent |-> q.sent]
  BY <1>1 DEF ParserOK, Ended
<1>5. /\ q.turns \in Seq(TurnRecs) /\ Len(q.turns) = Len(p.turns)
      /\ q.turns[n] = u /\ \A m \in DOMAIN p.turns : m # n => q.turns[m] = p.turns[m]
  BY ONLY <1>2, <1>3, <1>4
<1>6. ParserOK(q)
  BY <1>4, <1>5 DEF ParserOK
<1>7. QED
  BY <1>1, <1>3, <1>4, <1>5, <1>6 DEF Keeps, Ends

LEMMA EndedPuts ==
  ASSUME NEW p, ParserOK(p), NEW n, n \in DOMAIN p.turns, n = Len(p.turns), NEW q, NEW k, NEW a,
         Puts(p, q, n, k, a), NEW r, r = Ended(q)
  PROVE  Puts(p, r, n, k, a) /\ Keeps(q, r) /\ r.turns[n].ended = TRUE
<1>1. ParserOK(q) /\ n = Len(q.turns) /\ q.turns # <<>> /\ DOMAIN q.turns = DOMAIN p.turns
  BY DEF Puts, ParserOK
<1>2. Ends(q, r, n)
  BY <1>1, EndedIs
<1>3. QED
  BY <1>1, <1>2 DEF Puts, Ends

\* What the line l, which counts to m, makes of step a.
Grown(a, l, m) ==
  [id |-> a.id, said |-> IF l.kind = "text" THEN a.said + 1 ELSE a.said,
   calls |-> IF l.kind = "call" THEN Append(a.calls, [id |-> l.id, done |-> FALSE]) ELSE a.calls,
   usage |-> IF m > a.usage THEN m ELSE a.usage,
   known |-> a.known, shown |-> a.shown]

\* q is p with step k of its turn n now b, one more thing shown and more awaited.
Speaks(p, q, n, k, b, more) ==
  /\ Puts(p, q, n, k, b) /\ b \in StepRecs
  /\ q.pending = p.pending \union more /\ q.seen = p.seen + 1 /\ q.sent = p.sent

LEMMA SaidPuts ==
  ASSUME NEW p, ParserOK(p), NEW n, NEW k, NEW s, At(p, n, k, s), NEW q, q = Said(p, s),
         NEW a, a = p.turns[n].steps[k], NEW l, l.kind = "text", NEW b, b = Grown(a, l, 0)
  PROVE  Speaks(p, q, n, k, b, {}) /\ b.id = s
<1>1. /\ Current(p) = p.turns[n] /\ StepIndex(p, s) = k /\ n = Len(p.turns)
      /\ n \in DOMAIN p.turns /\ k \in DOMAIN p.turns[n].steps /\ a \in StepRecs /\ a.id = s
  BY AtIs DEF At
<1>2. b \in StepRecs /\ b.id = s
  BY ONLY <1>1, l.kind = "text", b = Grown(a, l, 0), SMTT(30) DEF StepRecs, Grown
<1>3. PICK r : r = WithStep(p, n, k, b)
  OBVIOUS
<1>4. ParserOK(p)
  OBVIOUS
<1>5. Puts(p, r, n, k, b) /\ Keeps(p, r)
  BY ONLY <1>1, <1>2, <1>3, <1>4, WithStepPuts, SMTT(30)
<1>6. q = Shown(r)
  <2>1. b = [a EXCEPT !.said = @ + 1]
    BY ONLY <1>1, l.kind = "text", b = Grown(a, l, 0), SMTT(30) DEF StepRecs, Grown
  <2>2. QED
    BY <1>1, <1>3, <2>1 DEF Said
<1>7. ParserOK(r)
  BY <1>5 DEF Puts
<1>8. /\ ParserOK(q) /\ q.turns = r.turns /\ q.pending = r.pending
      /\ q.seen = r.seen + 1 /\ q.sent = r.sent
  BY ONLY <1>6, <1>7, ShownIs
<1>9. Puts(p, q, n, k, b)
  BY ONLY <1>5, <1>8, PutsSame
<1>10. QED
  BY <1>2, <1>5, <1>8, <1>9 DEF Keeps, Speaks

\* What the parser remembers of a call.
Wait(c, n, k, j) == [id |-> c, turn |-> n, step |-> k, call |-> j, room |-> Capacity(j)]

NextWait(c, n, k, a) == Wait(c, n, k, Len(a.calls) + 1)

LEMMA CalledPuts ==
  ASSUME NEW p, ParserOK(p), NEW n, NEW k, NEW s, At(p, n, k, s),
         NEW l, l.kind = "call", l.id \in Nat, NEW q, q = Called(p, s, l.id),
         NEW a, a = p.turns[n].steps[k], NEW b, b = Grown(a, l, 0)
  PROVE  Speaks(p, q, n, k, b, {NextWait(l.id, n, k, a)}) /\ b.id = s
<1>1. /\ Current(p) = p.turns[n] /\ StepIndex(p, s) = k /\ n = Len(p.turns)
      /\ n \in DOMAIN p.turns /\ k \in DOMAIN p.turns[n].steps /\ a \in StepRecs /\ a.id = s
  BY AtIs DEF At
<1>2. /\ b \in StepRecs /\ b.id = s
      /\ b = [a EXCEPT !.calls = Append(@, [id |-> l.id, done |-> FALSE])]
  <2>1. PICK call : call = [id |-> l.id, done |-> FALSE]
    OBVIOUS
  <2>2. call \in CallRecs
    BY ONLY <2>1, l.id \in Nat DEF CallRecs
  <2>3. PICK calls : calls = Append(a.calls, call)
    OBVIOUS
  <2>4. a.calls \in Seq(CallRecs)
    BY ONLY <1>1 DEF StepRecs
  <2>5. calls \in Seq(CallRecs)
    BY ONLY <2>2, <2>3, <2>4
  <2>6. b = [id |-> a.id, said |-> a.said, calls |-> calls, usage |-> a.usage,
             known |-> a.known, shown |-> a.shown]
    <3>1. l.kind # "text" /\ a.usage \in Nat
      BY ONLY <1>1, l.kind = "call" DEF StepRecs
    <3>2. ~(0 > a.usage)
      BY ONLY <3>1
    <3>3. calls = Append(a.calls, [id |-> l.id, done |-> FALSE])
      BY <2>1, <2>3
    <3>4. QED
      BY ONLY <3>1, <3>2, <3>3, l.kind = "call", b = Grown(a, l, 0) DEF Grown
  <2>7. b = [a EXCEPT !.calls = calls]
    BY ONLY <1>1, <2>6 DEF StepRecs
  <2>8. b \in StepRecs /\ b.id = s
    BY ONLY <1>1, <2>5, <2>6, SMTT(30) DEF StepRecs
  <2>9. QED
    BY <2>1, <2>3, <2>7, <2>8
<1>3. PICK r : r = WithStep(p, n, k, b)
  OBVIOUS
<1>4. ParserOK(p)
  OBVIOUS
<1>5. Puts(p, r, n, k, b) /\ Keeps(p, r)
  BY ONLY <1>1, <1>2, <1>3, <1>4, WithStepPuts
<1>6. PICK w : w = NextWait(l.id, n, k, a)
  OBVIOUS
<1>7. PICK on : on = [r EXCEPT !.pending = @ \union {w}]
  OBVIOUS
<1>8. q = Shown(on)
  BY <1>1, <1>2, <1>3, <1>6, <1>7 DEF Called, NextWait, Wait
<1>9. ParserOK(r)
  BY <1>5 DEF Puts
<1>10. /\ ParserOK(on) /\ on.turns = r.turns /\ on.pending = r.pending \union {w}
       /\ on.seen = r.seen /\ on.sent = r.sent
  BY ONLY <1>7, <1>9 DEF ParserOK
<1>11. /\ ParserOK(q) /\ q.turns = on.turns /\ q.pending = on.pending
       /\ q.seen = on.seen + 1 /\ q.sent = on.sent
  BY ONLY <1>8, <1>10, ShownIs
<1>12. Puts(p, q, n, k, b)
  BY ONLY <1>5, <1>10, <1>11, PutsSame
<1>13. QED
  BY <1>2, <1>5, <1>6, <1>10, <1>11, <1>12 DEF Keeps, Speaks

LEMMA UsageAtLeastPuts ==
  ASSUME NEW p, ParserOK(p), NEW n, NEW k, NEW s, At(p, n, k, s), NEW u, u \in Nat,
         NEW q, q = UsageAtLeast(p, s, u),
         NEW a, a = p.turns[n].steps[k],
         NEW b, b = [a EXCEPT !.usage = IF u > @ THEN u ELSE @]
  PROVE  Puts(p, q, n, k, b) /\ b \in StepRecs /\ b.id = s /\ Keeps(p, q)
<1>1. /\ Current(p) = p.turns[n] /\ StepIndex(p, s) = k /\ n = Len(p.turns)
      /\ n \in DOMAIN p.turns /\ k \in DOMAIN p.turns[n].steps /\ a \in StepRecs /\ a.id = s
  BY AtIs DEF At
<1>2. b \in StepRecs /\ b.id = s
  BY ONLY <1>1, u \in Nat, b = [a EXCEPT !.usage = IF u > @ THEN u ELSE @], SMTT(30) DEF StepRecs
<1>3. q = WithStep(p, n, k, b)
  BY <1>1 DEF UsageAtLeast
<1>4. ParserOK(p)
  OBVIOUS
<1>5. Puts(p, q, n, k, b) /\ Keeps(p, q)
  BY ONLY <1>1, <1>2, <1>3, <1>4, WithStepPuts
<1>6. QED
  BY <1>2, <1>5

\* A step as it is when it opens.
Fresh(p, s) == [id |-> s, said |-> 0, calls |-> <<>>, usage |-> 0,
                known |-> p.sent, shown |-> p.seen]

DistinctSteps(t) == \A j, k \in DOMAIN t.steps : t.steps[j].id = t.steps[k].id => j = k

\* Where the step s is in the turn n in flight, and how it opens if it must.
Opening(p, q, n, k, s) ==
  \/ q = p /\ At(p, n, k, s)
  \/ /\ \A j \in DOMAIN p.turns[n].steps : p.turns[n].steps[j].id # s
     /\ k = Len(p.turns[n].steps) + 1 /\ Puts(p, q, n, k, Fresh(p, s))
     /\ q.pending = p.pending /\ q.seen = p.seen /\ q.sent = p.seen

LEMMA InStepOpens ==
  ASSUME NEW p, ParserOK(p), p.turns # <<>>, NEW n, n = Len(p.turns), DistinctSteps(p.turns[n]),
         NEW s, s \in Nat \X Nat, NEW q, q = InStep(p, s)
  PROVE  /\ ParserOK(q) /\ n \in DOMAIN p.turns /\ Len(q.turns) = Len(p.turns)
         /\ \E k : Opening(p, q, n, k, s) /\ At(q, n, k, s)
<1>1. /\ n \in DOMAIN p.turns /\ Current(p) = p.turns[n] /\ p.turns[n] \in TurnRecs
      /\ p.turns[n].steps \in Seq(StepRecs)
  BY StepIsStep
<1>2. CASE HasStep(p, s)
  <2>1. q = p
    BY <1>2 DEF HasStep, InStep
  <2>2. PICK k \in DOMAIN p.turns[n].steps : p.turns[n].steps[k].id = s
    BY <1>1, <1>2 DEF HasStep
  <2>3. At(p, n, k, s)
    BY <1>1, <2>2 DEF At, DistinctSteps
  <2>4. QED
    BY <1>1, <2>1, <2>3 DEF Opening
<1>3. CASE ~HasStep(p, s)
  <2>1. PICK t, step, k : t = p.turns[n] /\ step = Fresh(p, s) /\ k = Len(t.steps) + 1
    OBVIOUS
  <2>2. step \in StepRecs /\ step.id = s
    BY <2>1 DEF ParserOK, StepRecs, Fresh
  <2>3. PICK u : u = [t EXCEPT !.steps = Append(@, step)]
    OBVIOUS
  <2>4. t \in TurnRecs /\ t.steps \in Seq(StepRecs)
    BY <1>1, <2>1
  <2>5. /\ u.steps = Append(t.steps, step) /\ u.id = t.id /\ u.ended = t.ended
        /\ u = [id |-> u.id, ended |-> u.ended, steps |-> u.steps]
    BY ONLY <2>3, <2>4 DEF TurnRecs
  <2>6. /\ u.steps \in Seq(StepRecs) /\ k \in DOMAIN u.steps /\ u.steps[k] = step
        /\ DOMAIN u.steps = DOMAIN t.steps \union {k} /\ k \notin DOMAIN t.steps
        /\ \A j \in DOMAIN t.steps : u.steps[j] = t.steps[j]
    <3>1. PICK was, is : was = t.steps /\ is = u.steps
      OBVIOUS
    <3>2. was \in Seq(StepRecs) /\ step \in StepRecs /\ is = Append(was, step)
      BY <2>2, <2>4, <2>5, <3>1
    <3>3. /\ is \in Seq(StepRecs) /\ Len(was) \in Nat /\ Len(is) = Len(was) + 1
          /\ Len(is) \in DOMAIN is /\ is[Len(is)] = step
          /\ \A j \in DOMAIN was : is[j] = was[j]
      BY ONLY <3>2, OneMore
    <3>4. DOMAIN was = 1..Len(was) /\ DOMAIN is = 1..Len(is)
      BY ONLY <3>2, <3>3
    <3>5. DOMAIN is = DOMAIN was \union {Len(is)} /\ Len(is) \notin DOMAIN was
      BY ONLY <3>3, <3>4
    <3>6. k = Len(is)
      BY <2>1, <3>1, <3>3
    <3>7. QED
      BY ONLY <3>1, <3>3, <3>5, <3>6
  <2>7. u \in TurnRecs
    BY ONLY <2>4, <2>5, <2>6, Zenon DEF TurnRecs
  <2>8. PICK r : r = WithTurn(p, n, u)
    OBVIOUS
  <2>9. /\ r.turns = [p.turns EXCEPT ![n] = u]
        /\ r.pending = p.pending /\ r.seen = p.seen /\ r.sent = p.sent
        /\ r = [turns |-> r.turns, pending |-> r.pending, seen |-> r.seen, sent |-> r.sent]
    BY <2>8 DEF ParserOK, WithTurn
  <2>10. p.turns \in Seq(TurnRecs) /\ p.seen \in Nat
    BY DEF ParserOK
  <2>11. /\ r.turns \in Seq(TurnRecs) /\ Len(r.turns) = Len(p.turns)
         /\ r.turns[n] = u /\ \A m \in DOMAIN p.turns : m # n => r.turns[m] = p.turns[m]
    BY ONLY <1>1, <2>7, <2>9, <2>10
  <2>12. q = Snapshot(r)
    BY <1>1, <1>3, <2>1, <2>3, <2>8 DEF HasStep, InStep, WithTurn, Fresh
  <2>13. /\ q.turns = r.turns /\ q.pending = p.pending /\ q.seen = p.seen /\ q.sent = p.seen
         /\ q = [turns |-> q.turns, pending |-> q.pending, seen |-> q.seen, sent |-> q.sent]
    BY ONLY <2>9, <2>12 DEF Snapshot
  <2>14. ParserOK(q)
    BY ONLY <2>10, <2>11, <2>13 DEF ParserOK
  <2>15. Puts(p, q, n, k, step)
    BY ONLY <2>1, <2>5, <2>6, <2>11, <2>13, <2>14 DEF Puts
  <2>16. \A j \in DOMAIN p.turns[n].steps : p.turns[n].steps[j].id # s
    BY <1>1, <1>3 DEF HasStep
  <2>17. Opening(p, q, n, k, s)
    BY <2>1, <2>13, <2>15, <2>16 DEF Opening
  <2>18. At(q, n, k, s)
    <3>1. Len(q.turns) = n /\ n \in DOMAIN q.turns
      BY <1>1, <2>11, <2>13
    <3>2. \A j \in DOMAIN u.steps : u.steps[j].id = s => j = k
      BY <2>1, <2>6, <2>16
    <3>3. q.turns[n] = u
      BY <2>11, <2>13
    <3>4. QED
      BY ONLY <2>2, <2>6, <3>1, <3>2, <3>3 DEF At
  <2>19. QED
    BY <1>1, <2>14, <2>11, <2>13, <2>17, <2>18
<1>4. QED
  BY <1>2, <1>3

\* b is the step a with a result written at its call j, or lost.
Returns(a, b, j, kept) ==
  /\ b \in StepRecs /\ b.id = a.id /\ b.said = a.said /\ b.usage = a.usage
  /\ b.known = a.known /\ b.shown = a.shown /\ Len(b.calls) = Len(a.calls)
  /\ \A i \in DOMAIN a.calls : /\ b.calls[i].id = a.calls[i].id
                               /\ i # j => b.calls[i] = a.calls[i]
  /\ b.calls[j].done = (a.calls[j].done \/ kept)

LEMMA CallReturns ==
  ASSUME NEW a, a \in StepRecs, NEW j, j \in DOMAIN a.calls, NEW kept, kept \in BOOLEAN,
         NEW b, b = [a EXCEPT !.calls[j].done = @ \/ kept]
  PROVE  Returns(a, b, j, kept)
<1>1. PICK was : was = a.calls
  OBVIOUS
<1>2. was \in Seq(CallRecs) /\ was[j] \in CallRecs /\ j \in DOMAIN was
  BY <1>1 DEF StepRecs
<1>3. PICK done : done = (was[j].done \/ kept)
  OBVIOUS
<1>4. PICK call : call = [was[j] EXCEPT !.done = done]
  OBVIOUS
<1>5. done \in BOOLEAN
  BY <1>3, Zenon
<1>6. call \in CallRecs /\ call.id = was[j].id /\ call.done = done
  BY <1>2, <1>4, <1>5 DEF CallRecs
<1>7. PICK is : is = [was EXCEPT ![j] = call]
  OBVIOUS
<1>8. /\ is \in Seq(CallRecs) /\ Len(is) = Len(was) /\ DOMAIN is = DOMAIN was
      /\ is[j] = call /\ \A i \in DOMAIN was : i # j => is[i] = was[i]
  <2>1. Len(was) \in Nat /\ was \in [1..Len(was) -> CallRecs]
    BY ONLY <1>2
  <2>2. /\ is \in [1..Len(was) -> CallRecs]
        /\ \A i \in 1..Len(was) : is[i] = IF i = j THEN call ELSE was[i]
    BY ONLY <1>6, <1>7, <2>1
  <2>3. is \in Seq(CallRecs) /\ Len(is) = Len(was)
    BY ONLY <2>1, <2>2
  <2>4. QED
    BY ONLY <1>2, <2>1, <2>2, <2>3
<1>9. b = [a EXCEPT !.calls = is]
  BY <1>1, <1>3, <1>4, <1>7
<1>10. b = [id |-> a.id, said |-> a.said, calls |-> is, usage |-> a.usage,
            known |-> a.known, shown |-> a.shown]
  BY ONLY <1>9, a \in StepRecs DEF StepRecs
<1>11. b \in StepRecs
  BY ONLY <1>8, <1>10, a \in StepRecs DEF StepRecs
<1>12. \A i \in DOMAIN was : is[i].id = was[i].id
  BY ONLY <1>6, <1>8
<1>13. is[j].done = (was[j].done \/ kept)
  BY <1>3, <1>6, <1>8
<1>14. /\ b.id = a.id /\ b.said = a.said /\ b.usage = a.usage /\ b.calls = is
       /\ b.known = a.known /\ b.shown = a.shown
  BY ONLY <1>10
<1>15. QED
  BY ONLY <1>1, <1>8, <1>11, <1>12, <1>13, <1>14, Zenon DEF Returns

\* The result that w awaits goes to call j of step k, a, of turn n.
GoesBack(p, q, n, k, j, w, a) ==
  /\ \E b, kept : /\ kept = (w.room = Capacity(Len(a.calls)))
                  /\ Returns(a, b, j, kept) /\ Puts(p, q, n, k, b)
  /\ q.turns[n].ended = p.turns[n].ended
  /\ q.pending = p.pending \ {w} /\ q.seen = p.seen + 1 /\ q.sent = p.sent

LEMMA ReturnedPuts ==
  ASSUME NEW p, ParserOK(p), NEW c, NEW w, w \in p.pending, w.id = c,
         \A v \in p.pending : v.id = c => v = w,
         NEW n, n = w.turn, n \in DOMAIN p.turns, NEW k, k = w.step, k \in DOMAIN p.turns[n].steps,
         NEW a, a = p.turns[n].steps[k], NEW j, j = w.call, j \in DOMAIN a.calls,
         NEW q, q = Returned(p, c)
  PROVE  GoesBack(p, q, n, k, j, w, a)
<1>1. w = CHOOSE v \in p.pending : v.id = c
  OBVIOUS
<1>2. a \in StepRecs
  <2>1. p.turns[n].steps \in Seq(StepRecs)
    BY TurnsAreTurns DEF TurnRecs
  <2>2. QED
    BY <2>1
<1>3. PICK kept : kept = (w.room = Capacity(Len(a.calls)))
  OBVIOUS
<1>4. kept \in BOOLEAN
  BY ONLY <1>3, Zenon
<1>5. PICK b : b = [a EXCEPT !.calls[j].done = @ \/ kept]
  OBVIOUS
<1>6. Returns(a, b, j, kept)
  BY ONLY <1>2, <1>4, <1>5, j \in DOMAIN a.calls, CallReturns
<1>7. PICK r : r = WithStep(p, n, k, b)
  OBVIOUS
<1>8. PICK on : on = [r EXCEPT !.pending = @ \ {w}]
  OBVIOUS
<1>9. q = Shown(on)
  BY <1>1, <1>3, <1>5, <1>7, <1>8 DEF Returned, HeldThere
<1>10. b \in StepRecs
  BY <1>6 DEF Returns
<1>11. Puts(p, r, n, k, b) /\ Keeps(p, r) /\ r.turns[n].ended = p.turns[n].ended
  BY <1>7, <1>10, WithStepPuts
<1>12. ParserOK(r)
  BY <1>11 DEF Puts
<1>13. /\ ParserOK(on) /\ on.turns = r.turns /\ on.pending = r.pending \ {w}
       /\ on.seen = r.seen /\ on.sent = r.sent
  BY ONLY <1>8, <1>12 DEF ParserOK
<1>14. /\ ParserOK(q) /\ q.turns = on.turns /\ q.pending = on.pending
       /\ q.seen = on.seen + 1 /\ q.sent = on.sent
  BY ONLY <1>9, <1>13, ShownIs
<1>15. Puts(p, q, n, k, b)
  BY ONLY <1>11, <1>13, <1>14, PutsSame
<1>16. \E e, d : /\ d = (w.room = Capacity(Len(a.calls)))
                   /\ Returns(a, e, j, d) /\ Puts(p, q, n, k, e)
  BY <1>3, <1>6, <1>15, Zenon
<1>17. q.turns[n].ended = p.turns[n].ended
  BY <1>11, <1>13, <1>14, Zenon
<1>18. q.pending = p.pending \ {w} /\ q.seen = p.seen + 1 /\ q.sent = p.sent
  BY <1>11, <1>13, <1>14 DEF Keeps
<1>19. QED
  BY <1>16, <1>17, <1>18, Zenon DEF GoesBack

TakesIn(p, q, n, k, a, l, m) ==
  /\ \/ At(p, n, k, l.step) /\ a = p.turns[n].steps[k] /\ q.sent = p.sent
     \/ /\ \A j \in DOMAIN p.turns[n].steps : p.turns[n].steps[j].id # l.step
        /\ k = Len(p.turns[n].steps) + 1 /\ a = Fresh(p, l.step) /\ q.sent = p.seen
  /\ a \in StepRecs /\ Puts(p, q, n, k, Grown(a, l, m))
  /\ q.seen = p.seen + 1
  /\ q.pending = p.pending \union IF l.kind = "call" THEN {NextWait(l.id, n, k, a)}
                                  ELSE {}

LEMMA AnsweredPuts ==
  ASSUME NEW p, ParserOK(p), p.turns # <<>>, NEW n, n = Len(p.turns), DistinctSteps(p.turns[n]),
         NEW l, l \in LineRecs, l.kind \in {"text", "call"}, NEW q, q = Answered(p, l, l.step)
  PROVE  /\ n \in DOMAIN p.turns
         /\ \E k, a : TakesIn(p, q, n, k, a, l, 0) /\ At(q, n, k, l.step)
<1>1. PICK r, s : s = l.step /\ r = InStep(p, s)
  OBVIOUS
<1>2. s \in Nat \X Nat /\ l.id \in Nat
  BY <1>1 DEF LineRecs
<1>3. /\ ParserOK(r) /\ n \in DOMAIN p.turns /\ Len(r.turns) = Len(p.turns)
      /\ \E k : Opening(p, r, n, k, s) /\ At(r, n, k, s)
  BY <1>1, <1>2, InStepOpens
<1>4. PICK k : Opening(p, r, n, k, s) /\ At(r, n, k, s)
  BY <1>3
<1>5. PICK a : a = r.turns[n].steps[k]
  OBVIOUS
<1>6. a \in StepRecs /\ a.id = s
  <2>1. a \in StepRecs
    BY ONLY <1>3, <1>4, <1>5, AtIs, Zenon
  <2>2. QED
    BY <1>4, <1>5, <2>1 DEF At
<1>7. PICK b : b = Grown(a, l, 0)
  OBVIOUS
<1>8. /\ Puts(r, q, n, k, b) /\ b.id = s /\ q.seen = r.seen + 1 /\ q.sent = r.sent
      /\ q.pending = r.pending \union IF l.kind = "call" THEN {NextWait(l.id, n, k, a)}
                                      ELSE {}
  <2>1. CASE l.kind = "text"
    <3>1. q = Said(r, s)
      BY <1>1, <2>1 DEF Answered
    <3>3. Speaks(r, q, n, k, b, {}) /\ b.id = s
      BY ONLY <1>3, <1>4, <1>5, <1>7, <2>1, <3>1, SaidPuts
    <3>4. QED
      BY <2>1, <3>3 DEF Speaks
  <2>2. CASE l.kind = "call"
    <3>1. q = Called(r, s, l.id)
      BY <1>1, <2>2 DEF Answered
    <3>2. b.id = s
      BY <1>6, <1>7 DEF Grown
    <3>3. ParserOK(r) /\ At(r, n, k, s) /\ l.id \in Nat
      BY <1>2, <1>3, <1>4
    <3>4. Speaks(r, q, n, k, b, {NextWait(l.id, n, k, a)})
      BY ONLY <1>5, <1>7, <2>2, <3>1, <3>3, CalledPuts
    <3>5. QED
      BY <2>2, <3>2, <3>4 DEF Speaks
  <2>3. QED
    BY <2>1, <2>2
<1>9. At(q, n, k, s)
  BY <1>3, <1>4, <1>8, PutsAt
<1>10. CASE r = p /\ At(p, n, k, s)
  BY <1>1, <1>6, <1>3, <1>5, <1>7, <1>8, <1>9, <1>10 DEF TakesIn
<1>11. CASE /\ \A j \in DOMAIN p.turns[n].steps : p.turns[n].steps[j].id # s
            /\ k = Len(p.turns[n].steps) + 1 /\ Puts(p, r, n, k, Fresh(p, s))
            /\ r.pending = p.pending /\ r.seen = p.seen /\ r.sent = p.seen
  <2>1. Puts(p, q, n, k, b)
    BY <1>3, <1>8, <1>11, PutsOn
  <2>2. a = Fresh(p, s)
    BY <1>5, <1>11 DEF Puts
  <2>3. QED
    BY <1>1, <1>3, <1>6, <1>7, <1>8, <1>9, <1>11, <2>1, <2>2 DEF TakesIn
<1>12. QED
  BY <1>4, <1>10, <1>11 DEF Opening

\* A text or a call of the model, read to the end.
LEMMA AnswerPuts ==
  ASSUME NEW p, ParserOK(p), p.turns # <<>>, NEW n, n = Len(p.turns), DistinctSteps(p.turns[n]),
         NEW l, l \in LineRecs, l.kind \in {"text", "call"}, NEW claude, claude \in BOOLEAN,
         NEW m, m = IF claude THEN l.tokens ELSE 0,
         NEW q, q = Ended(IF claude THEN UsageAtLeast(Answered(p, l, l.step), l.step, l.tokens)
                          ELSE Answered(p, l, l.step))
  PROVE  /\ n \in DOMAIN p.turns /\ q.turns[n].ended = TRUE
         /\ \E k, a : TakesIn(p, q, n, k, a, l, m)
<1>1. PICK o : o = Answered(p, l, l.step)
  OBVIOUS
<1>2. /\ n \in DOMAIN p.turns
      /\ \E k, a : TakesIn(p, o, n, k, a, l, 0) /\ At(o, n, k, l.step)
  BY <1>1, AnsweredPuts
<1>3. PICK k, a : TakesIn(p, o, n, k, a, l, 0) /\ At(o, n, k, l.step)
  BY <1>2
<1>4. PICK r : r = IF claude THEN UsageAtLeast(o, l.step, l.tokens) ELSE o
  OBVIOUS
<1>5. q = Ended(r)
  BY <1>1, <1>4
<1>6. PICK b, c : b = Grown(a, l, 0) /\ c = Grown(a, l, m)
  OBVIOUS
<1>7. /\ Puts(p, o, n, k, b) /\ ParserOK(o) /\ b = o.turns[n].steps[k]
      /\ a.usage \in Nat
  BY <1>3, <1>6 DEF TakesIn, Puts, StepRecs
<1>8. Puts(p, r, n, k, c) /\ Keeps(o, r)
  <2>1. CASE claude
    <3>1. r = UsageAtLeast(o, l.step, l.tokens) /\ l.tokens \in Nat
      BY <1>4, <2>1 DEF LineRecs
    <3>2. c = [b EXCEPT !.usage = IF l.tokens > @ THEN l.tokens ELSE @]
      <4>0. a.usage \in Nat /\ m = l.tokens
        BY <1>7, <2>1
      <4>1. PICK said, calls :
              /\ said = IF l.kind = "text" THEN a.said + 1 ELSE a.said
              /\ calls = IF l.kind = "call" THEN Append(a.calls, [id |-> l.id, done |-> FALSE])
                        ELSE a.calls
        OBVIOUS
      <4>2. ~(0 > a.usage)
        BY ONLY <4>0
      <4>3. b = [id |-> a.id, said |-> said, calls |-> calls,
                 usage |-> a.usage, known |-> a.known, shown |-> a.shown]
        BY ONLY <1>6, <4>1, <4>2 DEF Grown
      <4>4. c = [id |-> a.id, said |-> said, calls |-> calls,
                 usage |-> IF l.tokens > a.usage THEN l.tokens ELSE a.usage,
                 known |-> a.known, shown |-> a.shown]
        BY ONLY <1>6, <4>0, <4>1 DEF Grown
      <4>5. QED
        BY ONLY <4>3, <4>4
    <3>3. Puts(o, r, n, k, c) /\ Keeps(o, r)
      BY ONLY <1>3, <1>7, <3>1, <3>2, UsageAtLeastPuts
    <3>4. QED
      BY <1>2, <1>7, <3>3, PutsOn
  <2>2. CASE ~claude
    <3>1. r = o /\ c = b
      BY <1>4, <1>6, <2>2 DEF Grown
    <3>2. QED
      BY <1>7, <3>1 DEF Keeps
  <2>3. QED
    BY <2>1, <2>2
<1>9. Puts(p, q, n, k, c) /\ Keeps(r, q) /\ q.turns[n].ended = TRUE
  BY <1>2, <1>5, <1>8, EndedPuts
<1>10. TakesIn(p, q, n, k, a, l, m)
  BY <1>3, <1>6, <1>8, <1>9 DEF TakesIn, Keeps
<1>11. QED
  BY <1>2, <1>9, <1>10

-----------------------------------------------------------------------------
(* What one line more says. *)

\* The lines b are those of a and then l.
Adds(a, b, l) ==
  /\ a \in Seq(LineRecs) /\ b \in Seq(LineRecs) /\ l \in LineRecs
  /\ Len(a) \in Nat /\ Len(b) = Len(a) + 1
  /\ DOMAIN b = DOMAIN a \union {Len(b)} /\ b[Len(b)] = l
  /\ \A j \in DOMAIN a : j \in Nat /\ j < Len(b) /\ b[j] = a[j]

LEMMA AppendAdds ==
  ASSUME NEW a, a \in Seq(LineRecs), NEW l, l \in LineRecs, NEW b, b = Append(a, l)
  PROVE  Adds(a, b, l)
<1>1. /\ b \in Seq(LineRecs) /\ Len(a) \in Nat /\ Len(b) = Len(a) + 1
      /\ Len(b) \in DOMAIN b /\ b[Len(b)] = l /\ \A j \in DOMAIN a : b[j] = a[j]
  BY OneMore
<1>2. DOMAIN a = 1..Len(a) /\ DOMAIN b = 1..Len(b)
  BY <1>1
<1>3. DOMAIN b = DOMAIN a \union {Len(b)} /\ \A j \in DOMAIN a : j \in Nat /\ j < Len(b)
  BY ONLY <1>1, <1>2
<1>4. QED
  BY <1>1, <1>3 DEF Adds

IsAnswer(l) == l.kind \in {"text", "call"}

LEMMA AnswersMore ==
  ASSUME NEW a, NEW b, NEW l, Adds(a, b, l), NEW s
  PROVE  Answers(b, s) = IF IsAnswer(l) /\ l.step = s THEN Answers(a, s) \union {Len(b)}
                         ELSE Answers(a, s)
<1>1. PICK n : n = Len(b)
  OBVIOUS
<1>2. DOMAIN b = DOMAIN a \union {n} /\ b[n] = l /\ \A j \in DOMAIN a : b[j] = a[j] /\ j # n
  BY <1>1 DEF Adds
<1>3. Answers(b, s) = IF IsAnswer(l) /\ l.step = s THEN Answers(a, s) \union {n} ELSE Answers(a, s)
  BY ONLY <1>2 DEF Answers, IsAnswer
<1>4. QED
  BY <1>1, <1>3

LEMMA TextsMore ==
  ASSUME NEW a, NEW b, NEW l, Adds(a, b, l), NEW s
  PROVE  Texts(b, s) = IF l.kind = "text" /\ l.step = s THEN Texts(a, s) \union {Len(b)}
                       ELSE Texts(a, s)
<1>1. PICK n : n = Len(b)
  OBVIOUS
<1>2. DOMAIN b = DOMAIN a \union {n} /\ b[n] = l /\ \A j \in DOMAIN a : b[j] = a[j] /\ j # n
  BY <1>1 DEF Adds
<1>3. Texts(b, s) = IF l.kind = "text" /\ l.step = s THEN Texts(a, s) \union {n} ELSE Texts(a, s)
  BY ONLY <1>2 DEF Texts, Answers
<1>4. QED
  BY <1>1, <1>3

IsWork(l, t) ==
  l.turn = t /\ (IsAnswer(l) \/ (format = "codex" /\ l.kind = "prompt"))

LEMMA WorksMore ==
  ASSUME NEW a, NEW b, NEW l, Adds(a, b, l), NEW t
  PROVE  /\ Works(b, t) = IF IsWork(l, t) THEN Works(a, t) \union {Len(b)} ELSE Works(a, t)
         /\ \A i \in Works(a, t) : i \in DOMAIN a /\ b[i] = a[i]
<1>1. PICK n : n = Len(b)
  OBVIOUS
<1>2. DOMAIN b = DOMAIN a \union {n} /\ b[n] = l /\ \A j \in DOMAIN a : b[j] = a[j] /\ j # n
  BY <1>1 DEF Adds
<1>3. Works(b, t) = IF IsWork(l, t) THEN Works(a, t) \union {n} ELSE Works(a, t)
  BY ONLY <1>2 DEF Works, IsWork, IsAnswer
<1>4. \A i \in Works(a, t) : i \in DOMAIN a
  BY DEF Works
<1>5. QED
  BY <1>1, <1>2, <1>3, <1>4

LEMMA ItemsMore ==
  ASSUME NEW a, NEW b, NEW l, Adds(a, b, l)
  PROVE  /\ Items(b) = IF l.kind \in {"prompt", "text", "call", "result"}
                       THEN Items(a) \union {Len(b)} ELSE Items(a)
         /\ Cardinality(Items(b)) = Cardinality(Items(a))
              + IF l.kind \in {"prompt", "text", "call", "result"} THEN 1 ELSE 0
<1>1. PICK n : n = Len(b)
  OBVIOUS
<1>2. DOMAIN b = DOMAIN a \union {n} /\ b[n] = l /\ \A j \in DOMAIN a : b[j] = a[j] /\ j # n
  BY <1>1 DEF Adds
<1>3. Items(b) = IF l.kind \in {"prompt", "text", "call", "result"}
                 THEN Items(a) \union {n} ELSE Items(a)
  BY ONLY <1>2 DEF Items
<1>4. Items(a) \subseteq DOMAIN a /\ a \in Seq(LineRecs)
  BY DEF Items, Adds
<1>5. IsFiniteSet(Items(a)) /\ Cardinality(Items(a)) \in Nat
  BY <1>4, Countable
<1>6. n \notin Items(a)
  BY <1>2, <1>4
<1>7. Cardinality(Items(a) \union {n}) = Cardinality(Items(a)) + 1
  BY <1>5, <1>6, FS_AddElement
<1>8. QED
  BY <1>1, <1>3, <1>5, <1>7

\* The kind of line that opens a turn.
IsOpening(l) == l.kind = IF format = "codex" THEN "context" ELSE "prompt"

LEMMA TurnsMore ==
  ASSUME NEW a, NEW b, NEW l, Adds(a, b, l)
  PROVE  TurnsWritten(b) = IF IsOpening(l) THEN TurnsWritten(a) \union {l.turn} ELSE TurnsWritten(a)
<1>1. PICK n : n = Len(b)
  OBVIOUS
<1>2. DOMAIN b = DOMAIN a \union {n} /\ b[n] = l /\ \A j \in DOMAIN a : b[j] = a[j] /\ j # n
  BY <1>1 DEF Adds
<1>3. QED
  BY ONLY <1>2 DEF TurnsWritten, IsOpening

LEMMA ResultsMore ==
  ASSUME NEW a, NEW b, NEW l, Adds(a, b, l)
  PROVE  Names(b, "result") = IF l.kind = "result" THEN Names(a, "result") \union {l.id}
                              ELSE Names(a, "result")
<1>1. PICK n : n = Len(b)
  OBVIOUS
<1>2. DOMAIN b = DOMAIN a \union {n} /\ b[n] = l /\ \A j \in DOMAIN a : b[j] = a[j] /\ j # n
  BY <1>1 DEF Adds
<1>3. QED
  BY ONLY <1>2 DEF Names, Of

\* The calls of step s.
CallsOf(a, s) == CallsBefore(a, s, Len(a) + 1)

LEMMA CallsMore ==
  ASSUME NEW a, NEW b, NEW l, Adds(a, b, l), NEW s
  PROVE  /\ \A r \in DOMAIN a : CallsBefore(b, s, r) = CallsBefore(a, s, r)
         /\ CallsBefore(b, s, Len(b)) = CallsOf(a, s)
         /\ CallsOf(b, s) = IF l.kind = "call" /\ l.step = s THEN CallsOf(a, s) \union {l.id}
                            ELSE CallsOf(a, s)
<1>1. PICK n : n = Len(b)
  OBVIOUS
<1>2. /\ DOMAIN b = DOMAIN a \union {n} /\ b[n] = l /\ n \in Nat /\ n = Len(a) + 1
      /\ \A j \in DOMAIN a : b[j] = a[j] /\ j \in Nat /\ j < n
  BY <1>1 DEF Adds
<1>3. PICK A : A = {j \in Answers(a, s) : a[j].kind = "call"}
  OBVIOUS
<1>4. PICK B : B = {j \in Answers(b, s) : b[j].kind = "call"}
  OBVIOUS
<1>5. A \subseteq DOMAIN a /\ B \subseteq DOMAIN b
  BY <1>3, <1>4 DEF Answers
<1>6. B = IF l.kind = "call" /\ l.step = s THEN A \union {n} ELSE A
  BY ONLY <1>2, <1>3, <1>4 DEF Answers
<1>7. \A r : CallsBefore(a, s, r) = {a[i].id : i \in {j \in A : j < r}}
  BY ONLY <1>3 DEF CallsBefore
<1>8. \A r : CallsBefore(b, s, r) = {b[i].id : i \in {j \in B : j < r}}
  BY ONLY <1>4 DEF CallsBefore
<1>9. \A j \in A : j \in Nat /\ j < n /\ b[j] = a[j] /\ j < n + 1
  BY <1>2, <1>5
<1>10. ASSUME NEW r \in DOMAIN a PROVE CallsBefore(b, s, r) = CallsBefore(a, s, r)
  <2>1. PICK C : C = {j \in A : j < r}
    OBVIOUS
  <2>2. {j \in B : j < r} = C
    BY <1>2, <1>6, <2>1
  <2>3. \A j \in C : b[j] = a[j]
    BY <1>9, <2>1
  <2>4. CallsBefore(a, s, r) = {a[i].id : i \in C} /\ CallsBefore(b, s, r) = {b[i].id : i \in C}
    BY <1>7, <1>8, <2>1, <2>2
  <2>5. QED
    BY ONLY <2>3, <2>4
<1>11. CallsOf(a, s) = {a[i].id : i \in A}
  <2>1. {j \in A : j < n} = A
    BY <1>9
  <2>2. QED
    BY <1>2, <1>7, <2>1 DEF CallsOf
<1>12. CallsBefore(b, s, n) = CallsOf(a, s)
  <2>1. {j \in B : j < n} = A
    BY <1>2, <1>6, <1>9
  <2>2. QED
    BY <1>8, <1>9, <1>11, <2>1
<1>13. CallsOf(b, s) = IF l.kind = "call" /\ l.step = s THEN CallsOf(a, s) \union {l.id}
                       ELSE CallsOf(a, s)
  <2>1. {j \in B : j < n + 1} = B
    BY <1>2, <1>6, <1>9
  <2>2. CallsOf(b, s) = {b[i].id : i \in B}
    BY <1>1, <1>8, <2>1 DEF CallsOf
  <2>3. QED
    BY ONLY <1>2, <1>6, <1>9, <1>11, <2>2
<1>14. QED
  BY <1>1, <1>10, <1>12, <1>13

LEMMA FirstIs ==
  ASSUME NEW S, S \subseteq Nat, S # {}
  PROVE  FirstOf(S) \in S /\ \A j \in S : FirstOf(S) <= j
<1>1. \E i \in S : \A j \in S : i <= j
  BY HasLeast
<1>2. QED
  BY <1>1 DEF FirstOf

LEMMA FirstStays ==
  ASSUME NEW S, S \subseteq Nat, S # {}, NEW n, n \in Nat, \A j \in S : j < n
  PROVE  FirstOf(S \union {n}) = FirstOf(S)
<1>1. PICK T : T = S \union {n}
  OBVIOUS
<1>2. T \subseteq Nat /\ T # {}
  BY <1>1
<1>3. FirstOf(S) \in S /\ \A j \in S : FirstOf(S) <= j
  BY FirstIs
<1>4. FirstOf(T) \in T /\ \A j \in T : FirstOf(T) <= j
  BY <1>2, FirstIs
<1>5. PICK f, g : f = FirstOf(S) /\ g = FirstOf(T)
  OBVIOUS
<1>6. f \in S /\ f \in Nat /\ g \in Nat /\ f < n /\ g \in T /\ g <= f
  BY <1>1, <1>2, <1>3, <1>4, <1>5
<1>7. g \in S => f <= g
  BY <1>3, <1>5
<1>8. f = g
  BY ONLY <1>1, <1>6, <1>7, n \in Nat
<1>9. QED
  BY <1>1, <1>5, <1>8

LEMMA AnswersAre ==
  ASSUME NEW a, a \in Seq(LineRecs), NEW s
  PROVE  /\ Answers(a, s) \subseteq DOMAIN a /\ Answers(a, s) \subseteq Nat
         /\ Texts(a, s) \subseteq DOMAIN a
         /\ IsFiniteSet(Answers(a, s)) /\ Cardinality(Answers(a, s)) \in Nat
         /\ IsFiniteSet(Texts(a, s)) /\ Cardinality(Texts(a, s)) \in Nat
<1>1. Answers(a, s) \subseteq DOMAIN a /\ Texts(a, s) \subseteq DOMAIN a
  BY DEF Answers, Texts
<1>2. DOMAIN a \subseteq Nat
  OBVIOUS
<1>3. QED
  BY <1>1, <1>2, Countable

\* A step that the model has begun had been shown what it had.
LEMMA ShownStays ==
  ASSUME NEW a, NEW b, NEW l, Adds(a, b, l), NEW s, Answers(a, s) # {}
  PROVE  /\ FirstOf(Answers(b, s)) = FirstOf(Answers(a, s))
         /\ FirstOf(Answers(a, s)) \in DOMAIN a
         /\ Answers(b, s) # {} /\ ShownBefore(b, s) = ShownBefore(a, s)
<1>1. PICK n, f, S : n = Len(b) /\ f = FirstOf(Answers(a, s)) /\ S = Answers(a, s)
  OBVIOUS
<1>2. /\ n \in Nat /\ \A j \in DOMAIN a : j \in Nat /\ j < n
      /\ a \in Seq(LineRecs)
  BY <1>1 DEF Adds
<1>3. S \subseteq Nat /\ S \subseteq DOMAIN a /\ S # {}
  BY <1>1, <1>2, AnswersAre
<1>4. f \in S /\ f \in DOMAIN a /\ f \in Nat /\ f < n
  BY <1>1, <1>2, <1>3, FirstIs
<1>5. Answers(b, s) = S \/ Answers(b, s) = S \union {n}
  BY <1>1, AnswersMore
<1>6. FirstOf(S \union {n}) = FirstOf(S)
  BY ONLY <1>2, <1>3, FirstStays
<1>7. FirstOf(Answers(b, s)) = f /\ Answers(b, s) # {}
  BY <1>1, <1>3, <1>5, <1>6
<1>8. Items(b) = Items(a) \/ Items(b) = Items(a) \union {n}
  BY <1>1, ItemsMore
<1>9. {i \in Items(b) : i < f} = {i \in Items(a) : i < f}
  BY ONLY <1>2, <1>4, <1>8
<1>10. QED
  BY <1>1, <1>4, <1>7, <1>9 DEF ShownBefore

\* A step that begins had been shown all there was.
LEMMA ShownFirst ==
  ASSUME NEW a, NEW b, NEW l, Adds(a, b, l), NEW s, Answers(a, s) = {}, IsAnswer(l), l.step = s
  PROVE  /\ FirstOf(Answers(b, s)) = Len(b) /\ Answers(b, s) # {}
         /\ ShownBefore(b, s) = Cardinality(Items(a))
<1>1. PICK n : n = Len(b)
  OBVIOUS
<1>2. n \in Nat /\ \A j \in DOMAIN a : j \in Nat /\ j < n
  BY <1>1 DEF Adds
<1>3. Answers(b, s) = {n}
  BY <1>1, AnswersMore
<1>4. FirstOf({n}) = n
  <2>1. {n} \subseteq Nat /\ {n} # {}
    BY <1>2
  <2>2. FirstOf({n}) \in {n}
    BY ONLY <2>1, FirstIs
  <2>3. QED
    BY <2>2
<1>5. Items(b) = Items(a) \union {n}
  BY <1>1, ItemsMore DEF IsAnswer
<1>6. Items(a) \subseteq DOMAIN a
  BY DEF Items
<1>7. {i \in Items(b) : i < n} = Items(a)
  BY ONLY <1>2, <1>5, <1>6
<1>8. QED
  BY <1>1, <1>3, <1>4, <1>7 DEF ShownBefore

-----------------------------------------------------------------------------
(* The calls of a step, and which of their results are kept. *)

\* Calls are numbered in the order they were made.
InOrder(calls) == \A j \in DOMAIN calls : \A i \in 1..j - 1 : calls[i].id < calls[j].id

IDsTo(calls, m) == {calls[i].id : i \in 1..m}

LEMMA InOrderIs ==
  ASSUME NEW calls, calls \in Seq(CallRecs), InOrder(calls)
  PROVE  /\ Len(calls) \in Nat /\ DOMAIN calls = 1..Len(calls)
         /\ \A j \in DOMAIN calls : calls[j] \in CallRecs /\ calls[j].id \in Nat
         /\ \A i, j \in DOMAIN calls : i < j => calls[i].id < calls[j].id
         /\ \A i, j \in DOMAIN calls : calls[i].id = calls[j].id => i = j
<1>1. Len(calls) \in Nat /\ DOMAIN calls = 1..Len(calls)
  OBVIOUS
<1>2. \A j \in DOMAIN calls : calls[j] \in CallRecs
  OBVIOUS
<1>3. \A j \in DOMAIN calls : calls[j].id \in Nat
  BY <1>2 DEF CallRecs
<1>4. \A i, j \in DOMAIN calls : i < j => calls[i].id < calls[j].id
  <2>1. ASSUME NEW i \in DOMAIN calls, NEW j \in DOMAIN calls, i < j
        PROVE  calls[i].id < calls[j].id
    <3>1. i \in 1..j - 1
      BY ONLY <1>1, <2>1
    <3>2. QED
      BY <3>1 DEF InOrder
  <2>2. QED
    BY <2>1
<1>5. ASSUME NEW i \in DOMAIN calls, NEW j \in DOMAIN calls, calls[i].id = calls[j].id
      PROVE  i = j
  <2>1. PICK c, d : c = calls[i].id /\ d = calls[j].id
    OBVIOUS
  <2>2. c \in Nat /\ (i < j => c < d) /\ (j < i => d < c) /\ c = d /\ i \in Nat /\ j \in Nat
    BY <1>1, <1>3, <1>4, <1>5, <2>1
  <2>3. QED
    BY ONLY <2>2
<1>6. QED
  BY <1>1, <1>2, <1>3, <1>4, <1>5

LEMMA IDsCounted ==
  ASSUME NEW calls, calls \in Seq(CallRecs), InOrder(calls), NEW n, n \in 0..Len(calls)
  PROVE  IsFiniteSet(IDsTo(calls, n)) /\ Cardinality(IDsTo(calls, n)) = n
<1> DEFINE Good(m) == IsFiniteSet(IDsTo(calls, m)) /\ Cardinality(IDsTo(calls, m)) = m
           S == {m \in 0..Len(calls) : Good(m)}
<1>1. /\ Len(calls) \in Nat /\ DOMAIN calls = 1..Len(calls)
      /\ \A i, j \in DOMAIN calls : calls[i].id = calls[j].id => i = j
  BY InOrderIs
<1>2. Good(0)
  <2>1. IDsTo(calls, 0) = {}
    BY DEF IDsTo
  <2>2. QED
    BY <2>1, FS_EmptySet
<1>3. ASSUME NEW m \in 0..Len(calls), Good(m), m < Len(calls) PROVE Good(m + 1)
  <2>1. PICK A, c : A = IDsTo(calls, m) /\ c = calls[m + 1].id
    OBVIOUS
  <2>2. m \in Nat /\ m + 1 \in DOMAIN calls /\ 1..m + 1 = (1..m) \union {m + 1}
    BY <1>1, <1>3
  <2>3. IDsTo(calls, m + 1) = A \union {c}
    BY ONLY <2>1, <2>2 DEF IDsTo
  <2>4. c \notin A
    <3>1. \A i \in 1..m : i \in DOMAIN calls /\ i # m + 1
      BY ONLY <1>1, <1>3, m \in 0..Len(calls)
    <3>2. QED
      BY <1>1, <2>1, <2>2, <3>1 DEF IDsTo
  <2>5. IsFiniteSet(A) /\ Cardinality(A) = m
    BY <1>3, <2>1
  <2>6. IsFiniteSet(A \union {c}) /\ Cardinality(A \union {c}) = m + 1
    BY <2>4, <2>5, FS_AddElement
  <2>7. QED
    BY <2>3, <2>6
<1>4. 0 \in S /\ \A m \in S : m < Len(calls) => m + 1 \in S
  BY <1>1, <1>2, <1>3
<1>5. S \in SUBSET (0..Len(calls))
  OBVIOUS
<1> HIDE DEF S
<1>6. S = 0..Len(calls)
  BY ONLY <1>1, <1>4, <1>5, HoldsForAll
<1> USE DEF S
<1>7. QED
  BY <1>6

LEMMA CallsCounted ==
  ASSUME NEW calls, calls \in Seq(CallRecs), InOrder(calls),
         NEW C, C = {calls[j].id : j \in DOMAIN calls}, NEW j, j \in DOMAIN calls
  PROVE  /\ Cardinality(C) = Len(calls)
         /\ Cardinality({d \in C : d <= calls[j].id}) = j
<1>1. /\ Len(calls) \in Nat /\ DOMAIN calls = 1..Len(calls)
      /\ \A i \in DOMAIN calls : calls[i].id \in Nat
      /\ \A i, k \in DOMAIN calls : i < k => calls[i].id < calls[k].id
  BY InOrderIs
<1>2. C = IDsTo(calls, Len(calls))
  BY <1>1 DEF IDsTo
<1>3. PICK D : D = {d \in C : d <= calls[j].id}
  OBVIOUS
<1>4. D = IDsTo(calls, j)
  <2>1. \A i \in DOMAIN calls : calls[i].id <= calls[j].id <=> i <= j
    <3>1. ASSUME NEW i \in DOMAIN calls PROVE calls[i].id <= calls[j].id <=> i <= j
      <4>1. PICK c, d : c = calls[i].id /\ d = calls[j].id
        OBVIOUS
      <4>2. /\ c \in Nat /\ d \in Nat /\ i \in Nat /\ j \in Nat
            /\ (i < j => c < d) /\ (j < i => d < c) /\ (i = j => c = d)
        BY <1>1, <4>1
      <4>3. c <= d <=> i <= j
        BY ONLY <4>2
      <4>4. QED
        BY <4>1, <4>3
    <3>2. QED
      BY <3>1
  <2>2. D = {calls[i].id : i \in {k \in DOMAIN calls : k <= j}}
    BY <1>3, <2>1
  <2>3. {k \in DOMAIN calls : k <= j} = 1..j
    BY ONLY <1>1, j \in DOMAIN calls
  <2>4. QED
    BY <2>2, <2>3 DEF IDsTo
<1>5. j \in 0..Len(calls) /\ Len(calls) \in 0..Len(calls)
  BY ONLY <1>1, j \in DOMAIN calls
<1>6. Cardinality(IDsTo(calls, j)) = j /\ Cardinality(IDsTo(calls, Len(calls))) = Len(calls)
  BY <1>5, IDsCounted
<1>7. QED
  BY <1>2, <1>3, <1>4, <1>6

\* The slice of a step's calls has not moved since c was added to it.
NotMoved(calls, c) == Cardinality(calls) <= Capacity(Cardinality({d \in calls : d <= c}))

Result(l, c) == l.kind = "result" /\ l.id = c

LEMMA KeptIs ==
  ASSUME NEW lines, NEW s, NEW c
  PROVE  ResultKept(lines, s, c)
           = \E r \in DOMAIN lines : Result(lines[r], c) /\ NotMoved(CallsBefore(lines, s, r), c)
BY DEF ResultKept, Result, NotMoved

LEMMA KeptStays ==
  ASSUME NEW a, NEW b, NEW l, Adds(a, b, l), NEW s, NEW c, ~Result(l, c)
  PROVE  ResultKept(b, s, c) = ResultKept(a, s, c)
<1>1. PICK n : n = Len(b)
  OBVIOUS
<1>2. DOMAIN b = DOMAIN a \union {n} /\ b[n] = l /\ \A j \in DOMAIN a : b[j] = a[j]
  BY <1>1 DEF Adds
<1>3. \A r \in DOMAIN a : CallsBefore(b, s, r) = CallsBefore(a, s, r)
  BY CallsMore
<1>4. (\E r \in DOMAIN b : Result(b[r], c) /\ NotMoved(CallsBefore(b, s, r), c))
        = (\E r \in DOMAIN a : Result(a[r], c) /\ NotMoved(CallsBefore(a, s, r), c))
  BY ONLY <1>2, <1>3, ~Result(l, c), Zenon
<1>5. QED
  BY <1>4, KeptIs

LEMMA KeptNever ==
  ASSUME NEW a, NEW s, NEW c, \A r \in DOMAIN a : ~Result(a[r], c)
  PROVE  ResultKept(a, s, c) = FALSE
BY KeptIs, Zenon

LEMMA KeptNow ==
  ASSUME NEW a, NEW b, NEW l, Adds(a, b, l), NEW s, NEW c, Result(l, c),
         \A r \in DOMAIN a : ~Result(a[r], c)
  PROVE  ResultKept(b, s, c) <=> NotMoved(CallsOf(a, s), c)
<1>1. PICK n : n = Len(b)
  OBVIOUS
<1>2. DOMAIN b = DOMAIN a \union {n} /\ b[n] = l /\ \A j \in DOMAIN a : b[j] = a[j]
  BY <1>1 DEF Adds
<1>3. CallsBefore(b, s, n) = CallsOf(a, s)
  BY <1>1, CallsMore
<1>4. (\E r \in DOMAIN b : Result(b[r], c) /\ NotMoved(CallsBefore(b, s, r), c))
        <=> NotMoved(CallsOf(a, s), c)
  <2>1. ASSUME NotMoved(CallsOf(a, s), c)
        PROVE  \E r \in DOMAIN b : Result(b[r], c) /\ NotMoved(CallsBefore(b, s, r), c)
    <3>1. n \in DOMAIN b /\ Result(b[n], c) /\ NotMoved(CallsBefore(b, s, n), c)
      BY <1>2, <1>3, <2>1
    <3>2. QED
      BY <3>1
  <2>2. ASSUME \E r \in DOMAIN b : Result(b[r], c) /\ NotMoved(CallsBefore(b, s, r), c)
        PROVE  NotMoved(CallsOf(a, s), c)
    <3>1. PICK r \in DOMAIN b : Result(b[r], c) /\ NotMoved(CallsBefore(b, s, r), c)
      BY <2>2
    <3>2. r = n
      BY <1>2, <3>1
    <3>3. QED
      BY <1>3, <3>1, <3>2
  <2>3. QED
    BY <2>1, <2>2
<1>5. QED
  BY <1>4, KeptIs, Zenon

LEMMA NotMovedIs ==
  ASSUME NEW calls, calls \in Seq(CallRecs), InOrder(calls),
         NEW C, C = {calls[j].id : j \in DOMAIN calls}, NEW j, j \in DOMAIN calls
  PROVE  NotMoved(C, calls[j].id) <=> Capacity(j) = Capacity(Len(calls))
<1>1. PICK n : n = Len(calls)
  OBVIOUS
<1>2. n \in Nat /\ j \in 1..n
  BY <1>1
<1>3. Cardinality(C) = n /\ Cardinality({d \in C : d <= calls[j].id}) = j
  BY <1>1, CallsCounted
<1>4. NotMoved(C, calls[j].id) <=> n <= Capacity(j)
  BY <1>3 DEF NotMoved
<1>5. Capacity(j) = Capacity(n) <=> n <= Capacity(j)
  BY <1>2, CapacityStays
<1>6. QED
  BY <1>1, <1>4, <1>5

CallsAsWritten(lines, calls, s) ==
  /\ {calls[j].id : j \in DOMAIN calls} = CallsOf(lines, s)
  /\ InOrder(calls)
  /\ \A j \in DOMAIN calls : calls[j].done = ResultKept(lines, s, calls[j].id)

LEMMA CallsStay ==
  ASSUME NEW a, NEW b, NEW l, Adds(a, b, l), NEW s, NEW calls, CallsAsWritten(a, calls, s),
         ~(l.kind = "call" /\ l.step = s), \A j \in DOMAIN calls : ~Result(l, calls[j].id)
  PROVE  CallsAsWritten(b, calls, s)
<1>1. CallsOf(b, s) = CallsOf(a, s)
  BY CallsMore
<1>2. ASSUME NEW j \in DOMAIN calls
      PROVE  calls[j].done = ResultKept(b, s, calls[j].id)
  <2>1. ResultKept(b, s, calls[j].id) = ResultKept(a, s, calls[j].id)
    BY KeptStays
  <2>2. calls[j].done = ResultKept(a, s, calls[j].id)
    BY DEF CallsAsWritten
  <2>3. QED
    BY <2>1, <2>2
<1>3. QED
  BY <1>1, <1>2 DEF CallsAsWritten

LEMMA CallsGrow ==
  ASSUME NEW a, NEW b, NEW l, Adds(a, b, l), NEW s, NEW calls, calls \in Seq(CallRecs),
         CallsAsWritten(a, calls, s), l.kind = "call", l.step = s,
         \A r \in DOMAIN a : a[r].kind = "call" => a[r].id < l.id,
         \A r \in DOMAIN a : ~Result(a[r], l.id),
         NEW is, is = Append(calls, [id |-> l.id, done |-> FALSE])
  PROVE  CallsAsWritten(b, is, s) /\ is \in Seq(CallRecs)
<1>1. PICK call, n : call = [id |-> l.id, done |-> FALSE] /\ n = Len(calls) + 1
  OBVIOUS
<1>2. l.id \in Nat /\ l.kind # "result"
  BY DEF Adds, LineRecs
<1>3. call \in CallRecs /\ call.id = l.id /\ call.done = FALSE
  BY <1>1, <1>2 DEF CallRecs
<1>4. /\ is \in Seq(CallRecs) /\ Len(calls) \in Nat /\ Len(is) = n
      /\ is[n] = call /\ \A j \in DOMAIN calls : is[j] = calls[j]
  <2>1. is = Append(calls, call)
    BY <1>1
  <2>2. /\ is \in Seq(CallRecs) /\ Len(calls) \in Nat /\ Len(is) = Len(calls) + 1
        /\ is[Len(is)] = call /\ \A j \in DOMAIN calls : is[j] = calls[j]
    BY ONLY <1>3, <2>1, calls \in Seq(CallRecs), OneMore
  <2>3. QED
    BY <1>1, <2>2
<1>5. /\ DOMAIN calls = 1..Len(calls) /\ DOMAIN is = DOMAIN calls \union {n} /\ n \notin DOMAIN calls
      /\ \A j \in DOMAIN is : 1..j - 1 \subseteq DOMAIN calls
      /\ \A j \in DOMAIN calls : n \notin 1..j - 1
  <2>1. DOMAIN calls = 1..Len(calls) /\ DOMAIN is = 1..Len(is)
    BY <1>4
  <2>2. QED
    BY ONLY <1>1, <1>4, <2>1
<1>6. \A j \in DOMAIN calls : calls[j].id < l.id
  <2>1. \A j \in DOMAIN calls : calls[j].id \in CallsOf(a, s)
    BY DEF CallsAsWritten
  <2>2. \A c \in CallsOf(a, s) : \E r \in DOMAIN a : a[r].kind = "call" /\ a[r].id = c
    BY DEF CallsOf, CallsBefore, Answers
  <2>3. QED
    BY <2>1, <2>2
<1>7. {is[j].id : j \in DOMAIN is} = CallsOf(b, s)
  <2>1. CallsOf(b, s) = CallsOf(a, s) \union {l.id}
    BY CallsMore
  <2>2. CallsOf(a, s) = {calls[j].id : j \in DOMAIN calls}
    BY DEF CallsAsWritten
  <2>3. QED
    BY ONLY <1>3, <1>4, <1>5, <2>1, <2>2
<1>8. InOrder(is)
  <2>1. ASSUME NEW j \in DOMAIN is, NEW i \in 1..j - 1 PROVE is[i].id < is[j].id
    <3>1. i \in DOMAIN calls /\ is[i] = calls[i]
      BY <1>4, <1>5
    <3>2. CASE j = n
      BY <1>3, <1>4, <1>6, <3>1, <3>2
    <3>3. CASE j # n
      <4>1. j \in DOMAIN calls /\ is[j] = calls[j]
        BY <1>4, <1>5, <3>3
      <4>2. calls[i].id < calls[j].id
        BY <4>1 DEF CallsAsWritten, InOrder
      <4>3. QED
        BY <3>1, <4>1, <4>2
    <3>4. QED
      BY <3>2, <3>3
  <2>2. QED
    BY <2>1 DEF InOrder
<1>9. ASSUME NEW j \in DOMAIN is PROVE is[j].done = ResultKept(b, s, is[j].id)
  <2>1. ResultKept(b, s, is[j].id) = ResultKept(a, s, is[j].id)
    BY <1>2, KeptStays DEF Result
  <2>2. CASE j = n
    <3>1. ResultKept(a, s, l.id) = FALSE
      BY KeptNever
    <3>2. is[j].id = l.id /\ is[j].done = FALSE
      BY <1>3, <1>4, <2>2
    <3>3. QED
      BY <2>1, <3>1, <3>2, Zenon
  <2>3. CASE j # n
    <3>1. j \in DOMAIN calls /\ is[j] = calls[j]
      BY <1>4, <1>5, <2>3
    <3>2. calls[j].done = ResultKept(a, s, calls[j].id)
      BY <3>1 DEF CallsAsWritten
    <3>3. QED
      BY <2>1, <3>1, <3>2
  <2>4. QED
    BY <2>2, <2>3
<1>10. QED
  BY <1>4, <1>7, <1>8, <1>9 DEF CallsAsWritten

LEMMA CallsReturn ==
  ASSUME NEW a, NEW b, NEW l, Adds(a, b, l), NEW s, NEW calls, calls \in Seq(CallRecs),
         CallsAsWritten(a, calls, s), NEW j, j \in DOMAIN calls, Result(l, calls[j].id),
         \A r \in DOMAIN a : ~Result(a[r], l.id),
         NEW is, is \in Seq(CallRecs), Len(is) = Len(calls),
         \A i \in DOMAIN calls : is[i].id = calls[i].id /\ (i # j => is[i] = calls[i]),
         is[j].done = (calls[j].done \/ Capacity(j) = Capacity(Len(calls)))
  PROVE  CallsAsWritten(b, is, s)
<1>1. PICK c : c = calls[j].id
  OBVIOUS
<1>2. l.id = c /\ l.kind = "result" /\ Result(l, c) /\ \A r \in DOMAIN a : ~Result(a[r], c)
  BY <1>1 DEF Result
<1>3. InOrder(calls) /\ {calls[i].id : i \in DOMAIN calls} = CallsOf(a, s)
  BY DEF CallsAsWritten
<1>4. DOMAIN is = DOMAIN calls
  OBVIOUS
<1>5. \A i \in DOMAIN calls : 1..i - 1 \subseteq DOMAIN calls
  <2>1. DOMAIN calls = 1..Len(calls) /\ Len(calls) \in Nat
    OBVIOUS
  <2>2. QED
    BY ONLY <2>1
<1>6. {is[i].id : i \in DOMAIN is} = CallsOf(b, s)
  <2>1. CallsOf(b, s) = CallsOf(a, s)
    BY <1>2, CallsMore
  <2>2. \A i \in DOMAIN calls : is[i].id = calls[i].id
    OBVIOUS
  <2>3. QED
    BY ONLY <1>3, <1>4, <2>1, <2>2
<1>7. InOrder(is)
  BY <1>3, <1>4, <1>5 DEF InOrder
<1>8. ASSUME NEW i \in DOMAIN is PROVE is[i].done = ResultKept(b, s, is[i].id)
  <2>1. CASE i = j
    <3>1. ResultKept(b, s, c) <=> NotMoved(CallsOf(a, s), c)
      BY <1>2, KeptNow
    <3>2. NotMoved(CallsOf(a, s), c) <=> (Capacity(j) = Capacity(Len(calls)))
      <4>1. PICK C : C = {calls[m].id : m \in DOMAIN calls}
        OBVIOUS
      <4>2. NotMoved(C, calls[j].id) <=> Capacity(j) = Capacity(Len(calls))
        BY ONLY <1>3, <4>1, calls \in Seq(CallRecs), j \in DOMAIN calls, NotMovedIs
      <4>3. C = CallsOf(a, s)
        BY <1>3, <4>1
      <4>4. QED
        BY ONLY <1>1, <4>2, <4>3, Zenon
    <3>3. ResultKept(a, s, c) = FALSE
      BY <1>2, KeptNever
    <3>4. calls[j].done = ResultKept(a, s, c)
      BY <1>1 DEF CallsAsWritten
    <3>5. calls[j].done = FALSE
      BY ONLY <3>3, <3>4
    <3>6. is[j].done = (Capacity(j) = Capacity(Len(calls)))
      BY <3>5, Zenon
    <3>7. is[j].id = c
      BY <1>1
    <3>8. ResultKept(b, s, c) = (Capacity(j) = Capacity(Len(calls)))
      BY ONLY <3>1, <3>2, Zenon DEF ResultKept
    <3>9. QED
      BY ONLY <2>1, <3>6, <3>7, <3>8, Zenon
  <2>2. CASE i # j
    <3>1. is[i] = calls[i] /\ i \in DOMAIN calls
      BY <1>4, <2>2
    <3>2. calls[i].id # c
      BY <1>1, <1>3, <2>2, <3>1, InOrderIs
    <3>3. ResultKept(b, s, calls[i].id) = ResultKept(a, s, calls[i].id)
      BY <1>2, <3>2, KeptStays DEF Result
    <3>4. calls[i].done = ResultKept(a, s, calls[i].id)
      BY <3>1 DEF CallsAsWritten
    <3>5. QED
      BY <3>1, <3>3, <3>4
  <2>3. QED
    BY <2>1, <2>2
<1>9. QED
  BY <1>6, <1>7, <1>8 DEF CallsAsWritten

-----------------------------------------------------------------------------
(* The steps of a turn, when a line is added. *)

\* What a step says, but for what it had been shown.
StepSays(lines, step) ==
  /\ step.said = Cardinality(Texts(lines, step.id))
  /\ CallsAsWritten(lines, step.calls, step.id)
  /\ step.usage = UsageOf(lines, step.id)

LEMMA StepIs ==
  ASSUME NEW lines, NEW step
  PROVE  StepAsWritten(lines, step)
           <=> StepSays(lines, step) /\ step.shown = ShownBefore(lines, step.id)
BY DEF StepAsWritten, StepSays, CallsAsWritten, CallsOf, InOrder

Counts(l, t) == l.kind = "usage" /\ l.turn = t

LEMMA UsageIsOf ==
  ASSUME NEW lines, NEW s
  PROVE  /\ format = "claude" => UsageOf(lines, s) = Cardinality(Answers(lines, s))
         /\ format # "claude" /\ (\E i \in DOMAIN lines : Counts(lines[i], s[1]))
              => UsageOf(lines, s) = Cardinality(Texts(lines, s))
         /\ format # "claude" /\ (\A i \in DOMAIN lines : ~Counts(lines[i], s[1]))
              => UsageOf(lines, s) = 0
BY DEF UsageOf, Counts

LEMMA CountedMore ==
  ASSUME NEW a, NEW b, NEW l, Adds(a, b, l), NEW t, ~Counts(l, t)
  PROVE  (\E i \in DOMAIN b : Counts(b[i], t)) <=> (\E i \in DOMAIN a : Counts(a[i], t))
<1>1. PICK n : n = Len(b)
  OBVIOUS
<1>2. DOMAIN b = DOMAIN a \union {n} /\ b[n] = l /\ \A j \in DOMAIN a : b[j] = a[j]
  BY <1>1 DEF Adds
<1>3. QED
  BY ONLY <1>2, ~Counts(l, t)

LEMMA StepStays ==
  ASSUME NEW a, NEW b, NEW l, Adds(a, b, l), NEW step, StepAsWritten(a, step),
         Answers(a, step.id) # {}, ~(IsAnswer(l) /\ l.step = step.id),
         \A j \in DOMAIN step.calls : ~Result(l, step.calls[j].id),
         format = "claude" \/ ~Counts(l, step.id[1])
  PROVE  StepAsWritten(b, step)
<1>1. PICK s : s = step.id
  OBVIOUS
<1>2. StepSays(a, step) /\ step.shown = ShownBefore(a, s)
  BY <1>1, StepIs
<1>3. Answers(b, s) = Answers(a, s) /\ Texts(b, s) = Texts(a, s)
  BY <1>1, AnswersMore, TextsMore DEF IsAnswer
<1>4. ShownBefore(b, s) = ShownBefore(a, s)
  BY <1>1, ShownStays
<1>5. CallsAsWritten(b, step.calls, s)
  <2>1. CallsAsWritten(a, step.calls, s) /\ ~(l.kind = "call" /\ l.step = s)
    BY <1>1, <1>2 DEF StepSays, IsAnswer
  <2>2. QED
    BY <2>1, CallsStay
<1>6. UsageOf(b, s) = UsageOf(a, s)
  <2>1. CASE format = "claude"
    BY <1>3, <2>1, UsageIsOf
  <2>2. CASE format # "claude"
    <3>1. (\E i \in DOMAIN b : Counts(b[i], s[1])) <=> (\E i \in DOMAIN a : Counts(a[i], s[1]))
      BY <1>1, <2>2, CountedMore
    <3>2. QED
      BY <1>3, <2>2, <3>1, UsageIsOf
  <2>3. QED
    BY <2>1, <2>2
<1>7. StepSays(b, step)
  BY <1>1, <1>2, <1>3, <1>5, <1>6 DEF StepSays
<1>8. QED
  BY <1>1, <1>2, <1>4, <1>7, StepIs

LEMMA StepTakesIn ==
  ASSUME NEW a, NEW b, NEW l, Adds(a, b, l), IsAnswer(l), NEW s, s = l.step,
         NEW o, o \in StepRecs, o.id = s, StepSays(a, o), o.shown = ShownBefore(b, s),
         format = "claude" => l.tokens = Cardinality(Answers(a, s)) + 1,
         \A r \in DOMAIN a : ~Counts(a[r], s[1]),
         \A r \in DOMAIN a : l.kind = "call" => /\ a[r].kind = "call" => a[r].id < l.id
                                                /\ ~Result(a[r], l.id),
         NEW m, m = IF format = "claude" THEN l.tokens ELSE 0,
         NEW c, c = Grown(o, l, m)
  PROVE  StepAsWritten(b, c)
<1>1. PICK n : n = Len(b)
  OBVIOUS
<1>2. /\ a \in Seq(LineRecs) /\ l \in LineRecs /\ n \in Nat
      /\ \A j \in DOMAIN a : j \in Nat /\ j < n
  BY <1>1 DEF Adds
<1>3. /\ o.said = Cardinality(Texts(a, s)) /\ o.usage = UsageOf(a, s)
      /\ CallsAsWritten(a, o.calls, s)
  BY DEF StepSays
<1>4. /\ IsFiniteSet(Answers(a, s)) /\ Cardinality(Answers(a, s)) \in Nat /\ n \notin Answers(a, s)
      /\ IsFiniteSet(Texts(a, s)) /\ Cardinality(Texts(a, s)) \in Nat /\ n \notin Texts(a, s)
  BY <1>2, AnswersAre
<1>5. c.said = Cardinality(Texts(b, s))
  <2>1. CASE l.kind = "text"
    <3>1. Texts(b, s) = Texts(a, s) \union {n}
      BY <1>1, <2>1, TextsMore
    <3>2. Cardinality(Texts(b, s)) = Cardinality(Texts(a, s)) + 1
      BY <1>4, <3>1, FS_AddElement
    <3>3. c.said = o.said + 1
      BY <2>1 DEF Grown
    <3>4. QED
      BY <1>3, <3>2, <3>3
  <2>2. CASE l.kind # "text"
    <3>1. Texts(b, s) = Texts(a, s)
      BY <2>2, TextsMore
    <3>2. c.said = o.said
      BY <2>2 DEF Grown
    <3>3. QED
      BY <1>3, <3>1, <3>2
  <2>3. QED
    BY <2>1, <2>2
<1>6. CallsAsWritten(b, c.calls, s)
  <2>1. CASE l.kind = "call"
    <3>1. c.calls = Append(o.calls, [id |-> l.id, done |-> FALSE])
      BY <2>1 DEF Grown
    <3>2. o.calls \in Seq(CallRecs)
      BY DEF StepRecs
    <3>3. /\ \A r \in DOMAIN a : a[r].kind = "call" => a[r].id < l.id
          /\ \A r \in DOMAIN a : ~Result(a[r], l.id)
      BY <2>1
    <3>4. QED
      BY <1>3, <2>1, <3>1, <3>2, <3>3, CallsGrow
  <2>2. CASE l.kind # "call"
    <3>1. c.calls = o.calls
      BY <2>2 DEF Grown
    <3>2. \A j \in DOMAIN o.calls : ~Result(l, o.calls[j].id)
      BY DEF Result, IsAnswer
    <3>3. QED
      BY <1>3, <2>2, <3>1, <3>2, CallsStay
  <2>3. QED
    BY <2>1, <2>2
<1>7. c.usage = UsageOf(b, s)
  <2>1. CASE format = "claude"
    <3>1. Answers(b, s) = Answers(a, s) \union {n}
      BY <1>1, AnswersMore
    <3>2. Cardinality(Answers(b, s)) = Cardinality(Answers(a, s)) + 1
      BY <1>4, <3>1, FS_AddElement
    <3>3. UsageOf(b, s) = l.tokens /\ o.usage = Cardinality(Answers(a, s)) /\ m = l.tokens
      BY <1>3, <2>1, <3>2, UsageIsOf
    <3>4. m > o.usage
      BY <1>4, <2>1, <3>3
    <3>5. c.usage = m
      BY <3>4 DEF Grown
    <3>6. QED
      BY <3>3, <3>5
  <2>2. CASE format # "claude"
    <3>1. ~Counts(l, s[1])
      BY DEF Counts, IsAnswer
    <3>2. \A r \in DOMAIN b : ~Counts(b[r], s[1])
      BY <3>1, CountedMore
    <3>3. UsageOf(b, s) = 0 /\ o.usage = 0 /\ m = 0
      BY <1>3, <2>2, <3>2, UsageIsOf
    <3>4. ~(m > o.usage)
      BY <3>3
    <3>5. c.usage = o.usage
      BY <3>4 DEF Grown
    <3>6. QED
      BY <3>3, <3>5
  <2>3. QED
    BY <2>1, <2>2
<1>8. c.id = s /\ c.shown = o.shown
  BY DEF Grown
<1>9. StepSays(b, c)
  BY <1>5, <1>6, <1>7, <1>8 DEF StepSays
<1>10. QED
  BY <1>8, <1>9, StepIs

LEMMA FreshSays ==
  ASSUME NEW a, NEW s, Answers(a, s) = {}, \A r \in DOMAIN a : ~Counts(a[r], s[1]), NEW p
  PROVE  StepSays(a, Fresh(p, s))
<1>1. PICK o : o = Fresh(p, s)
  OBVIOUS
<1>2. o.id = s /\ o.said = 0 /\ o.calls = <<>> /\ o.usage = 0
  BY <1>1 DEF Fresh
<1>3. Texts(a, s) = {} /\ CallsOf(a, s) = {} /\ Cardinality({}) = 0
  BY FS_EmptySet DEF Texts, CallsOf, CallsBefore
<1>4. UsageOf(a, s) = 0
  BY <1>3, UsageIsOf
<1>5. CallsAsWritten(a, o.calls, s)
  <2>1. DOMAIN o.calls = {}
    BY <1>2
  <2>2. QED
    BY <1>3, <2>1 DEF CallsAsWritten, InOrder
<1>6. QED
  BY <1>1, <1>2, <1>3, <1>4, <1>5 DEF StepSays

LEMMA StepReturned ==
  ASSUME NEW a, NEW b, NEW l, Adds(a, b, l), NEW o, o \in StepRecs, StepAsWritten(a, o),
         Answers(a, o.id) # {}, NEW j, j \in DOMAIN o.calls, Result(l, o.calls[j].id),
         \A r \in DOMAIN a : ~Result(a[r], l.id),
         NEW kept, kept = (Capacity(j) = Capacity(Len(o.calls))),
         NEW c, Returns(o, c, j, kept)
  PROVE  StepAsWritten(b, c)
<1>1. PICK s : s = o.id
  OBVIOUS
<1>2. StepSays(a, o) /\ o.shown = ShownBefore(a, s) /\ l.kind = "result"
  BY <1>1, StepIs DEF Result
<1>3. Answers(b, s) = Answers(a, s) /\ Texts(b, s) = Texts(a, s)
  BY <1>2, AnswersMore, TextsMore DEF IsAnswer
<1>4. ShownBefore(b, s) = ShownBefore(a, s)
  BY <1>1, ShownStays
<1>5. CallsAsWritten(b, c.calls, s)
  <2>1. CallsAsWritten(a, o.calls, s) /\ o.calls \in Seq(CallRecs)
    BY <1>1, <1>2 DEF StepSays, StepRecs
  <2>2. /\ c.calls \in Seq(CallRecs) /\ Len(c.calls) = Len(o.calls)
        /\ \A i \in DOMAIN o.calls : /\ c.calls[i].id = o.calls[i].id
                                     /\ i # j => c.calls[i] = o.calls[i]
    BY DEF Returns, StepRecs
  <2>3. c.calls[j].done = (o.calls[j].done \/ Capacity(j) = Capacity(Len(o.calls)))
    BY Zenon DEF Returns
  <2>4. PICK is, calls : is = c.calls /\ calls = o.calls
    OBVIOUS
  <2>5. /\ CallsAsWritten(a, calls, s) /\ calls \in Seq(CallRecs)
        /\ is \in Seq(CallRecs) /\ Len(is) = Len(calls)
        /\ \A i \in DOMAIN calls : is[i].id = calls[i].id /\ (i # j => is[i] = calls[i])
        /\ j \in DOMAIN calls /\ Result(l, calls[j].id)
    BY <2>1, <2>2, <2>4
  <2>6. is[j].done = (calls[j].done \/ Capacity(j) = Capacity(Len(calls)))
    BY <2>3, <2>4, Zenon
  <2>7. CallsAsWritten(b, is, s)
    BY ONLY Adds(a, b, l), \A r \in DOMAIN a : ~Result(a[r], l.id), <2>5, <2>6, CallsReturn, SMTT(30)
  <2>8. QED
    BY <2>4, <2>7
<1>6. UsageOf(b, s) = UsageOf(a, s)
  <2>1. CASE format = "claude"
    BY <1>3, <2>1, UsageIsOf
  <2>2. CASE format # "claude"
    <3>1. (\E i \in DOMAIN b : Counts(b[i], s[1])) <=> (\E i \in DOMAIN a : Counts(a[i], s[1]))
      BY <1>2, CountedMore DEF Counts
    <3>2. QED
      BY <1>3, <2>2, <3>1, UsageIsOf
  <2>3. QED
    BY <2>1, <2>2
<1>7. c.id = s /\ c.said = o.said /\ c.usage = o.usage /\ c.shown = o.shown
  BY <1>1 DEF Returns
<1>8. StepSays(b, c)
  BY <1>1, <1>2, <1>3, <1>5, <1>6, <1>7 DEF StepSays
<1>9. QED
  BY <1>2, <1>4, <1>7, <1>8, StepIs

LEMMA StepCounted ==
  ASSUME NEW a, NEW b, NEW l, Adds(a, b, l), NEW o, o \in StepRecs, StepAsWritten(a, o),
         Answers(a, o.id) # {}, format # "claude", Counts(l, o.id[1]),
         l.tokens = Cardinality(Texts(a, o.id)), NEW c, c = [o EXCEPT !.usage = l.tokens]
  PROVE  StepAsWritten(b, c)
<1>1. PICK s, n : s = o.id /\ n = Len(b)
  OBVIOUS
<1>2. StepSays(a, o) /\ o.shown = ShownBefore(a, s) /\ l.kind = "usage"
  BY <1>1, StepIs DEF Counts
<1>3. Answers(b, s) = Answers(a, s) /\ Texts(b, s) = Texts(a, s)
  BY <1>2, AnswersMore, TextsMore DEF IsAnswer
<1>4. ShownBefore(b, s) = ShownBefore(a, s)
  BY <1>1, ShownStays
<1>5. CallsAsWritten(b, o.calls, s)
  <2>1. CallsAsWritten(a, o.calls, s) /\ \A j \in DOMAIN o.calls : ~Result(l, o.calls[j].id)
    BY <1>1, <1>2 DEF StepSays, Result
  <2>2. QED
    BY <1>2, <2>1, CallsStay
<1>6. UsageOf(b, s) = l.tokens
  <2>1. n \in DOMAIN b /\ b[n] = l
    BY <1>1 DEF Adds
  <2>2. \E i \in DOMAIN b : Counts(b[i], s[1])
    BY <1>1, <2>1
  <2>3. QED
    BY <1>1, <1>3, <2>2, UsageIsOf
<1>7. /\ c.id = s /\ c.said = o.said /\ c.usage = l.tokens /\ c.shown = o.shown
      /\ c.calls = o.calls
  BY <1>1 DEF StepRecs
<1>8. StepSays(b, c)
  BY <1>1, <1>2, <1>3, <1>5, <1>6, <1>7 DEF StepSays
<1>9. QED
  BY <1>2, <1>4, <1>7, <1>8, StepIs

-----------------------------------------------------------------------------
(* The turns, when a line is added. *)

\* An answer is a step of its turn, codex's only one; a prompt is none.
Stepped(lines) ==
  \A i \in DOMAIN lines :
    /\ IsAnswer(lines[i]) =>
         /\ lines[i].turn # NoTurn /\ lines[i].step[1] = lines[i].turn
         /\ format # "claude" => lines[i].step[2] = 0
    /\ lines[i].kind = "prompt" => lines[i].step = NoStep

LEMMA LogStepped ==
  ASSUME NEW a, LogGood(a, format), LogWritten(a, format)
  PROVE  Stepped(a)
<1>1. ASSUME NEW i \in DOMAIN a
      PROVE  /\ IsAnswer(a[i]) =>
                  /\ a[i].turn # NoTurn /\ a[i].step[1] = a[i].turn
                  /\ format # "claude" => a[i].step[2] = 0
             /\ a[i].kind = "prompt" => a[i].step = NoStep
  <2>1. LineOK(a, i, format)
    BY DEF LogGood, LineGood
  <2>2. Fits(a[i], format)
    BY <2>1 DEF LineOK
  <2>3. a[i].kind # "context" => a[i].turn # NoTurn
    BY <2>2 DEF Fits
  <2>4. Written(SubSeq(a, 1, i - 1), a[i], format)
    BY DEF LogWritten
  <2>5. QED
    BY ONLY <2>3, <2>4 DEF Written, IsAnswer
<1>2. QED
  BY <1>1 DEF Stepped

WorkSteps(lines, t) == {lines[i].step : i \in Works(lines, t)} \ {NoStep}

Ordered(lines, steps) ==
  \A k \in DOMAIN steps : \A j \in 1..k - 1 :
    FirstOf(Answers(lines, steps[j].id)) < FirstOf(Answers(lines, steps[k].id))

\* The turn has ended if and only if it has been worked on.
EndedRightly(lines, turn) == turn.ended = (Works(lines, turn.id) # {})

LEMMA TurnIs ==
  ASSUME NEW lines, NEW turn
  PROVE  TurnAsWritten(lines, turn)
           <=> /\ EndedRightly(lines, turn)
               /\ {turn.steps[k].id : k \in DOMAIN turn.steps} = WorkSteps(lines, turn.id)
               /\ Ordered(lines, turn.steps)
               /\ \A k \in DOMAIN turn.steps : StepAsWritten(lines, turn.steps[k])
BY DEF TurnAsWritten, WorkSteps, Ordered, EndedRightly

\* What the lines tell of the steps of a turn.
StepsThere(lines, turn) ==
  /\ \A k \in DOMAIN turn.steps :
       /\ Answers(lines, turn.steps[k].id) # {} /\ turn.steps[k].id[1] = turn.id
       /\ format # "claude" => turn.steps[k].id = <<turn.id, 0>>
       /\ \E i \in DOMAIN lines : IsAnswer(lines[i]) /\ lines[i].turn = turn.id
                                                     /\ lines[i].step = turn.steps[k].id
  /\ DistinctSteps(turn)
  /\ \A i \in DOMAIN lines :
       IsAnswer(lines[i]) /\ lines[i].turn = turn.id
         => \E k \in DOMAIN turn.steps : turn.steps[k].id = lines[i].step

LEMMA StepsAreThere ==
  ASSUME NEW a, a \in Seq(LineRecs), Stepped(a), NEW turn, turn \in TurnRecs, turn.id # NoTurn,
         TurnAsWritten(a, turn)
  PROVE  StepsThere(a, turn)
<1>1. PICK t, steps : t = turn.id /\ steps = turn.steps
  OBVIOUS
<1>2. /\ {steps[k].id : k \in DOMAIN steps} = WorkSteps(a, t) /\ Ordered(a, steps)
      /\ steps \in Seq(StepRecs)
  BY <1>1, TurnIs DEF TurnRecs
<1>3. ASSUME NEW k \in DOMAIN steps
      PROVE  \E i \in DOMAIN a : IsAnswer(a[i]) /\ a[i].turn = t /\ a[i].step = steps[k].id
  <2>1. PICK i \in Works(a, t) : a[i].step = steps[k].id /\ a[i].step # NoStep
    BY <1>2 DEF WorkSteps
  <2>2. i \in DOMAIN a /\ a[i].turn = t /\ (IsAnswer(a[i]) \/ a[i].kind = "prompt")
    BY <2>1 DEF Works, IsAnswer
  <2>3. a[i].kind # "prompt"
    BY <2>1, <2>2 DEF Stepped
  <2>4. QED
    BY <2>1, <2>2, <2>3
<1>4. ASSUME NEW k \in DOMAIN steps
      PROVE  /\ Answers(a, steps[k].id) # {} /\ steps[k].id[1] = t
             /\ format # "claude" => steps[k].id = <<t, 0>>
  <2>1. PICK i \in DOMAIN a : IsAnswer(a[i]) /\ a[i].turn = t /\ a[i].step = steps[k].id
    BY <1>3
  <2>2. i \in Answers(a, steps[k].id)
    BY <2>1 DEF Answers, IsAnswer
  <2>3. a[i].step \in Nat \X Nat
    <3>1. a[i] \in LineRecs
      OBVIOUS
    <3>2. QED
      BY <3>1 DEF LineRecs
  <2>4. a[i].step[1] = t /\ (format # "claude" => a[i].step[2] = 0)
    BY <2>1 DEF Stepped
  <2>5. QED
    BY <2>1, <2>2, <2>3, <2>4
<1>5. DistinctSteps(turn)
  <2>1. ASSUME NEW j \in DOMAIN steps, NEW k \in DOMAIN steps, steps[j].id = steps[k].id, j < k
        PROVE  FALSE
    <3>1. j \in 1..k - 1
      BY <1>2, <2>1
    <3>2. FirstOf(Answers(a, steps[j].id)) < FirstOf(Answers(a, steps[k].id))
      BY <1>2, <3>1 DEF Ordered
    <3>3. Answers(a, steps[k].id) \subseteq Nat /\ Answers(a, steps[k].id) # {}
      BY <1>4, AnswersAre
    <3>4. FirstOf(Answers(a, steps[k].id)) \in Nat
      BY <3>3, FirstIs
    <3>5. QED
      BY <2>1, <3>2, <3>4
  <2>2. \A j, k \in DOMAIN steps : j < k \/ k < j \/ j = k
    BY <1>2
  <2>3. \A j, k \in DOMAIN steps : steps[j].id = steps[k].id => j = k
    BY <2>1, <2>2
  <2>4. QED
    BY <1>1, <2>3 DEF DistinctSteps
<1>6. ASSUME NEW i \in DOMAIN a, IsAnswer(a[i]), a[i].turn = t
      PROVE  \E k \in DOMAIN steps : steps[k].id = a[i].step
  <2>1. i \in Works(a, t)
    BY <1>6 DEF Works, IsAnswer
  <2>2. a[i].step[1] # 0
    BY <1>1, <1>6 DEF Stepped, NoTurn
  <2>3. a[i].step # NoStep
    BY <2>2 DEF NoStep
  <2>4. a[i].step \in WorkSteps(a, t)
    BY <2>1, <2>3 DEF WorkSteps
  <2>5. QED
    BY <1>2, <2>4
<1>7. QED
  BY <1>1, <1>3, <1>4, <1>5, <1>6 DEF StepsThere

\* The line is no part of the step.
Untouched(l, step) ==
  /\ ~(IsAnswer(l) /\ l.step = step.id)
  /\ \A j \in DOMAIN step.calls : ~Result(l, step.calls[j].id)
  /\ format = "claude" \/ ~Counts(l, step.id[1])

LEMMA StepUntouched ==
  ASSUME NEW a, NEW b, NEW l, Adds(a, b, l), NEW step, StepAsWritten(a, step),
         Answers(a, step.id) # {}, Untouched(l, step)
  PROVE  StepAsWritten(b, step)
BY StepStays DEF Untouched

\* A turn of which a line changes no more than what its steps hold, and that it ended.
LEMMA TurnKeepsSteps ==
  ASSUME NEW a, NEW b, NEW l, Adds(a, b, l), NEW t, t \in TurnRecs, TurnAsWritten(a, t),
         StepsThere(a, t),
         NEW u, u.id = t.id, DOMAIN u.steps = DOMAIN t.steps,
         \A k \in DOMAIN t.steps : u.steps[k].id = t.steps[k].id,
         EndedRightly(b, u), WorkSteps(b, t.id) = WorkSteps(a, t.id),
         \A k \in DOMAIN t.steps : StepAsWritten(b, u.steps[k])
  PROVE  TurnAsWritten(b, u)
<1>1. {t.steps[k].id : k \in DOMAIN t.steps} = WorkSteps(a, t.id) /\ Ordered(a, t.steps)
  BY TurnIs
<1>2. \A k \in DOMAIN t.steps :
        FirstOf(Answers(b, t.steps[k].id)) = FirstOf(Answers(a, t.steps[k].id))
  BY ShownStays DEF StepsThere
<1>3. {u.steps[k].id : k \in DOMAIN u.steps} = WorkSteps(b, u.id)
  BY <1>1
<1>4. Ordered(b, u.steps)
  <2>1. ASSUME NEW k \in DOMAIN t.steps, NEW j \in 1..k - 1
        PROVE  FirstOf(Answers(b, u.steps[j].id)) < FirstOf(Answers(b, u.steps[k].id))
    <3>1. FirstOf(Answers(a, t.steps[j].id)) < FirstOf(Answers(a, t.steps[k].id))
      BY <1>1 DEF Ordered
    <3>2. j \in DOMAIN t.steps
      <4>1. t.steps \in Seq(StepRecs)
        BY DEF TurnRecs
      <4>2. QED
        BY <4>1
    <3>3. QED
      BY <1>2, <3>1, <3>2
  <2>2. QED
    BY <2>1 DEF Ordered
<1>5. QED
  BY <1>3, <1>4, TurnIs

LEMMA WorkStepsMore ==
  ASSUME NEW a, NEW b, NEW l, Adds(a, b, l), NEW t
  PROVE  /\ ~IsWork(l, t) \/ l.step = NoStep => WorkSteps(b, t) = WorkSteps(a, t)
         /\ IsWork(l, t) /\ l.step # NoStep
              => WorkSteps(b, t) = WorkSteps(a, t) \union {l.step}
         /\ IsWork(l, t) => Works(b, t) # {}
         /\ ~IsWork(l, t) => Works(b, t) = Works(a, t)
<1>1. PICK n : n = Len(b)
  OBVIOUS
<1>2. b[n] = l
  BY <1>1 DEF Adds
<1>3. /\ Works(b, t) = IF IsWork(l, t) THEN Works(a, t) \union {n} ELSE Works(a, t)
      /\ \A i \in Works(a, t) : b[i] = a[i]
  BY <1>1, WorksMore
<1>4. CASE IsWork(l, t)
  <2>1. Works(b, t) = Works(a, t) \union {n}
    BY <1>3, <1>4
  <2>2. CASE l.step = NoStep
    <3>1. \A s : s \in WorkSteps(b, t) <=> s \in WorkSteps(a, t)
      BY <1>2, <1>3, <2>1, <2>2 DEF WorkSteps
    <3>2. WorkSteps(b, t) = WorkSteps(a, t)
      BY <3>1
    <3>3. QED
      BY <1>4, <2>1, <2>2, <3>2
  <2>3. CASE l.step # NoStep
    <3>1. \A s : s \in WorkSteps(b, t) <=> s \in WorkSteps(a, t) \/ s = l.step
      BY <1>2, <1>3, <2>1, <2>3 DEF WorkSteps
    <3>2. WorkSteps(b, t) = WorkSteps(a, t) \union {l.step}
      BY <3>1
    <3>3. QED
      BY <1>4, <2>1, <2>3, <3>2
  <2>4. QED
    BY <2>2, <2>3
<1>5. CASE ~IsWork(l, t)
  <2>1. Works(b, t) = Works(a, t)
    BY <1>3, <1>5
  <2>2. \A s : s \in WorkSteps(b, t) <=> s \in WorkSteps(a, t)
    BY <1>3, <2>1 DEF WorkSteps
  <2>3. QED
    BY <1>5, <2>1, <2>2
<1>6. QED
  BY <1>4, <1>5

LEMMA TurnStays ==
  ASSUME NEW a, NEW b, NEW l, Adds(a, b, l), NEW t, t \in TurnRecs, TurnAsWritten(a, t),
         StepsThere(a, t), ~IsWork(l, t.id), IsAnswer(l) => l.step[1] = l.turn,
         \A k \in DOMAIN t.steps : \A j \in DOMAIN t.steps[k].calls :
           ~Result(l, t.steps[k].calls[j].id),
         format = "claude" \/ ~Counts(l, t.id) \/ t.steps = <<>>
  PROVE  TurnAsWritten(b, t)
<1>1. ASSUME NEW k \in DOMAIN t.steps
      PROVE  StepAsWritten(b, t.steps[k])
  <2>1. t.steps # <<>> /\ t.steps[k].id[1] = t.id /\ Answers(a, t.steps[k].id) # {}
    BY DEF StepsThere
  <2>2. ~(IsAnswer(l) /\ l.step = t.steps[k].id)
    BY <2>1 DEF IsWork
  <2>3. Untouched(l, t.steps[k])
    BY <2>1, <2>2 DEF Untouched
  <2>4. StepAsWritten(a, t.steps[k])
    BY TurnIs
  <2>5. QED
    BY <2>1, <2>3, <2>4, StepUntouched
<1>2. Works(b, t.id) = Works(a, t.id) /\ WorkSteps(b, t.id) = WorkSteps(a, t.id)
  BY WorkStepsMore
<1>3. EndedRightly(b, t)
  <2>1. EndedRightly(a, t)
    BY TurnIs
  <2>2. QED
    BY <1>2, <2>1 DEF EndedRightly
<1>4. QED
  BY <1>1, <1>2, <1>3, TurnKeepsSteps

\* One step of the turn takes the line in.
LEMMA TurnWithStep ==
  ASSUME NEW a, NEW b, NEW l, Adds(a, b, l), NEW t, t \in TurnRecs, TurnAsWritten(a, t),
         StepsThere(a, t), NEW u, u.id = t.id, DOMAIN u.steps = DOMAIN t.steps,
         NEW k, k \in DOMAIN t.steps, u.steps[k].id = t.steps[k].id, StepAsWritten(b, u.steps[k]),
         \A j \in DOMAIN t.steps : j # k => u.steps[j] = t.steps[j] /\ Untouched(l, t.steps[j]),
         EndedRightly(b, u), WorkSteps(b, t.id) = WorkSteps(a, t.id)
  PROVE  TurnAsWritten(b, u)
<1>1. ASSUME NEW j \in DOMAIN t.steps
      PROVE  u.steps[j].id = t.steps[j].id /\ StepAsWritten(b, u.steps[j])
  <2>1. CASE j = k
    BY <2>1
  <2>2. CASE j # k
    <3>1. StepAsWritten(a, t.steps[j]) /\ Answers(a, t.steps[j].id) # {}
      BY TurnIs DEF StepsThere
    <3>2. StepAsWritten(b, t.steps[j])
      BY <2>2, <3>1, StepUntouched
    <3>3. QED
      BY <2>2, <3>2
  <2>3. QED
    BY <2>1, <2>2
<1>2. QED
  BY <1>1, TurnKeepsSteps

\* The line opens a step of the turn.
LEMMA TurnWithMore ==
  ASSUME NEW a, NEW b, NEW l, Adds(a, b, l), NEW t, t \in TurnRecs, TurnAsWritten(a, t),
         StepsThere(a, t), IsAnswer(l), l.turn = t.id, l.step # NoStep, Answers(a, l.step) = {},
         NEW u, u.id = t.id, EndedRightly(b, u), NEW k, k = Len(t.steps) + 1,
         DOMAIN u.steps = DOMAIN t.steps \union {k}, u.steps[k].id = l.step,
         StepAsWritten(b, u.steps[k]), \A j \in DOMAIN t.steps : u.steps[j] = t.steps[j]
  PROVE  TurnAsWritten(b, u)
<1>1. PICK s, n : s = l.step /\ n = Len(b)
  OBVIOUS
<1>2. IsWork(l, t.id) /\ l.kind # "result" /\ l.kind # "usage"
  BY DEF IsWork, IsAnswer, Result
<1>3. Works(b, t.id) # {} /\ WorkSteps(b, t.id) = WorkSteps(a, t.id) \union {s}
  BY <1>1, <1>2, WorkStepsMore
<1>4. /\ {t.steps[j].id : j \in DOMAIN t.steps} = WorkSteps(a, t.id) /\ Ordered(a, t.steps)
      /\ Len(t.steps) \in Nat /\ DOMAIN t.steps = 1..Len(t.steps)
  <2>1. t.steps \in Seq(StepRecs)
    BY DEF TurnRecs
  <2>2. Len(t.steps) \in Nat /\ DOMAIN t.steps = 1..Len(t.steps)
    BY <2>1
  <2>3. {t.steps[j].id : j \in DOMAIN t.steps} = WorkSteps(a, t.id) /\ Ordered(a, t.steps)
    BY TurnIs
  <2>4. QED
    BY <2>2, <2>3
<1>5. {u.steps[j].id : j \in DOMAIN u.steps} = WorkSteps(b, u.id)
  <2>1. \A x : x \in {u.steps[j].id : j \in DOMAIN u.steps}
                 <=> x \in {t.steps[j].id : j \in DOMAIN t.steps} \/ x = s
    BY <1>1
  <2>2. QED
    BY <1>3, <1>4, <2>1
<1>6. ASSUME NEW j \in DOMAIN t.steps
      PROVE  /\ StepAsWritten(b, u.steps[j]) /\ u.steps[j] = t.steps[j]
             /\ FirstOf(Answers(b, t.steps[j].id)) = FirstOf(Answers(a, t.steps[j].id))
             /\ FirstOf(Answers(b, t.steps[j].id)) < n
  <2>1. StepAsWritten(a, t.steps[j]) /\ Answers(a, t.steps[j].id) # {}
    BY TurnIs DEF StepsThere
  <2>2. Untouched(l, t.steps[j])
    BY <1>2, <2>1 DEF Untouched, Result, Counts
  <2>3. StepAsWritten(b, t.steps[j])
    BY <2>1, <2>2, StepUntouched
  <2>4. /\ FirstOf(Answers(b, t.steps[j].id)) = FirstOf(Answers(a, t.steps[j].id))
        /\ FirstOf(Answers(a, t.steps[j].id)) \in DOMAIN a
    BY <2>1, ShownStays
  <2>5. QED
    BY <1>1, <2>3, <2>4 DEF Adds
<1>7. FirstOf(Answers(b, s)) = n
  BY <1>1, ShownFirst
<1>8. Ordered(b, u.steps)
  <2>1. ASSUME NEW i \in DOMAIN u.steps, NEW j \in 1..i - 1
        PROVE  FirstOf(Answers(b, u.steps[j].id)) < FirstOf(Answers(b, u.steps[i].id))
    <3>1. j \in DOMAIN t.steps /\ (i = k \/ i \in DOMAIN t.steps)
      BY <1>4
    <3>2. CASE i = k
      BY <1>1, <1>6, <1>7, <3>1, <3>2
    <3>3. CASE i \in DOMAIN t.steps
      <4>1. FirstOf(Answers(a, t.steps[j].id)) < FirstOf(Answers(a, t.steps[i].id))
        BY <1>4, <3>3 DEF Ordered
      <4>2. QED
        BY <1>6, <3>1, <3>3, <4>1
    <3>4. QED
      BY <3>1, <3>2, <3>3
  <2>2. QED
    BY <2>1 DEF Ordered
<1>9. \A j \in DOMAIN u.steps : StepAsWritten(b, u.steps[j])
  BY <1>6
<1>10. QED
  BY <1>5, <1>8, <1>9, TurnIs

\* A turn of which the lines have no work yet.
LEMMA TurnBegins ==
  ASSUME NEW a, NEW t, t.ended = FALSE, t.steps = <<>>, Works(a, t.id) = {}
  PROVE  TurnAsWritten(a, t)
<1>1. DOMAIN t.steps = {} /\ WorkSteps(a, t.id) = {}
  BY DEF WorkSteps
<1>2. {t.steps[j].id : j \in DOMAIN t.steps} = WorkSteps(a, t.id) /\ Ordered(a, t.steps)
  BY <1>1 DEF Ordered
<1>3. EndedRightly(a, t)
  BY Zenon DEF EndedRightly
<1>4. QED
  BY <1>1, <1>2, <1>3, TurnIs

-----------------------------------------------------------------------------
(* The calls awaited, when a line is added. *)

\* Call c is the one at n, k and j.
IsCall(p, c, n, k, j) ==
  /\ n \in DOMAIN p.turns /\ k \in DOMAIN p.turns[n].steps
  /\ j \in DOMAIN p.turns[n].steps[k].calls /\ p.turns[n].steps[k].calls[j].id = c

\* The calls whose result is not among the lines are those that are awaited.
Awaited(p, lines) ==
  /\ \A w \in p.pending : \E c, n, k, j : /\ IsCall(p, c, n, k, j) /\ w = Wait(c, n, k, j)
                                          /\ c \notin Names(lines, "result")
  /\ \A c, n, k, j :
       IsCall(p, c, n, k, j) /\ c \notin Names(lines, "result") => Wait(c, n, k, j) \in p.pending

TurnsHold(p, lines) ==
  \A n \in DOMAIN p.turns : /\ TurnAsWritten(lines, p.turns[n])
                            /\ StepsThere(lines, p.turns[n])

TurnsApart(p) == \A m, n \in DOMAIN p.turns : p.turns[m].id = p.turns[n].id => m = n

CallsApart(lines) ==
  \A i, j \in DOMAIN lines :
    lines[i].kind = "call" /\ lines[j].kind = "call" /\ lines[i].id = lines[j].id => i = j

LEMMA CallsOfAre ==
  ASSUME NEW a, a \in Seq(LineRecs), NEW s, NEW c
  PROVE  c \in CallsOf(a, s)
           <=> \E i \in DOMAIN a : a[i].kind = "call" /\ a[i].step = s /\ a[i].id = c
<1>1. \A i \in DOMAIN a : i < Len(a) + 1
  OBVIOUS
<1>2. CallsOf(a, s)
        = {a[i].id : i \in {j \in Answers(a, s) : j < Len(a) + 1 /\ a[j].kind = "call"}}
  BY DEF CallsOf, CallsBefore
<1>3. \A i : i \in Answers(a, s) /\ a[i].kind = "call"
               <=> i \in DOMAIN a /\ a[i].kind = "call" /\ a[i].step = s
  BY DEF Answers
<1>4. QED
  BY ONLY <1>1, <1>2, <1>3

LEMMA CallIsLine ==
  ASSUME NEW a, a \in Seq(LineRecs), NEW step, StepAsWritten(a, step), NEW j, j \in DOMAIN step.calls
  PROVE  \E i \in DOMAIN a : /\ a[i].kind = "call" /\ a[i].step = step.id
                             /\ a[i].id = step.calls[j].id
<1>1. StepSays(a, step)
  BY StepIs
<1>2. {step.calls[i].id : i \in DOMAIN step.calls} = CallsOf(a, step.id)
  BY <1>1 DEF StepSays, CallsAsWritten
<1>3. step.calls[j].id \in CallsOf(a, step.id)
  BY <1>2
<1>4. QED
  BY <1>3, CallsOfAre

LEMMA LineIsCall ==
  ASSUME NEW a, a \in Seq(LineRecs), NEW step, StepAsWritten(a, step),
         NEW i, i \in DOMAIN a, a[i].kind = "call", a[i].step = step.id
  PROVE  \E j \in DOMAIN step.calls : step.calls[j].id = a[i].id
<1>1. StepSays(a, step)
  BY StepIs
<1>2. {step.calls[j].id : j \in DOMAIN step.calls} = CallsOf(a, step.id)
  BY <1>1 DEF StepSays, CallsAsWritten
<1>3. a[i].id \in CallsOf(a, step.id)
  BY CallsOfAre
<1>4. QED
  BY <1>2, <1>3

LEMMA TurnSteps ==
  ASSUME NEW t, t \in TurnRecs
  PROVE  /\ t.steps \in Seq(StepRecs) /\ Len(t.steps) \in Nat /\ DOMAIN t.steps = 1..Len(t.steps)
         /\ \A k \in DOMAIN t.steps : t.steps[k] \in StepRecs /\ t.steps[k].calls \in Seq(CallRecs)
<1>1. t.steps \in Seq(StepRecs)
  BY DEF TurnRecs
<1>2. \A k \in DOMAIN t.steps : t.steps[k] \in StepRecs
  BY <1>1
<1>3. \A k \in DOMAIN t.steps : t.steps[k].calls \in Seq(CallRecs)
  BY <1>2 DEF StepRecs
<1>4. Len(t.steps) \in Nat /\ DOMAIN t.steps = 1..Len(t.steps)
  BY <1>1
<1>5. QED
  BY <1>1, <1>2, <1>3, <1>4

\* A call is in one place.
LEMMA CallOnce ==
  ASSUME NEW a, a \in Seq(LineRecs), CallsApart(a), NEW p, ParserOK(p), TurnsHold(p, a),
         TurnsApart(p), NEW c, NEW n, NEW k, NEW j, IsCall(p, c, n, k, j),
         NEW m, NEW i, NEW h, IsCall(p, c, m, i, h)
  PROVE  m = n /\ i = k /\ h = j
<1>1. PICK t, u : t = p.turns[n] /\ u = p.turns[m]
  OBVIOUS
<1>2. n \in DOMAIN p.turns /\ m \in DOMAIN p.turns /\ t \in TurnRecs /\ u \in TurnRecs
  BY <1>1, TurnsAreTurns DEF IsCall
<1>3. PICK x, y : x = t.steps[k] /\ y = u.steps[i]
  OBVIOUS
<1>4. /\ k \in DOMAIN t.steps /\ j \in DOMAIN x.calls /\ x.calls[j].id = c
      /\ i \in DOMAIN u.steps /\ h \in DOMAIN y.calls /\ y.calls[h].id = c
  BY <1>1, <1>3 DEF IsCall
<1>5. /\ TurnAsWritten(a, t) /\ StepsThere(a, t) /\ TurnAsWritten(a, u) /\ StepsThere(a, u)
  BY <1>1, <1>2 DEF TurnsHold
<1>6. StepAsWritten(a, x) /\ StepAsWritten(a, y)
  BY <1>3, <1>4, <1>5, TurnIs
<1>7. PICK r \in DOMAIN a : a[r].kind = "call" /\ a[r].step = x.id /\ a[r].id = c
  BY <1>4, <1>6, CallIsLine
<1>8. PICK v \in DOMAIN a : a[v].kind = "call" /\ a[v].step = y.id /\ a[v].id = c
  BY <1>4, <1>6, CallIsLine
<1>9. x.id = y.id
  BY <1>7, <1>8 DEF CallsApart
<1>10. x.id[1] = t.id /\ y.id[1] = u.id
  BY <1>3, <1>4, <1>5 DEF StepsThere
<1>11. m = n
  BY <1>1, <1>2, <1>9, <1>10 DEF TurnsApart
<1>12. i = k
  <2>1. DistinctSteps(t) /\ u = t
    BY <1>1, <1>5, <1>11 DEF StepsThere
  <2>2. QED
    BY <1>3, <1>4, <1>9, <2>1 DEF DistinctSteps
<1>13. h = j
  <2>1. x = y /\ StepSays(a, x)
    BY <1>1, <1>3, <1>6, <1>11, <1>12, StepIs
  <2>2. InOrder(x.calls)
    BY <2>1 DEF StepSays, CallsAsWritten
  <2>3. x.calls \in Seq(CallRecs)
    BY <1>2, <1>3, <1>4, TurnSteps
  <2>4. \A f, g \in DOMAIN x.calls : x.calls[f].id = x.calls[g].id => f = g
    BY <2>2, <2>3, InOrderIs
  <2>5. QED
    BY <1>4, <2>1, <2>4
<1>14. QED
  BY <1>11, <1>12, <1>13

LEMMA AwaitedSame ==
  ASSUME NEW a, NEW b, Names(b, "result") = Names(a, "result"), NEW p, NEW q, Awaited(p, a),
         q.pending = p.pending,
         \A c, n, k, j : IsCall(q, c, n, k, j) <=> IsCall(p, c, n, k, j)
  PROVE  Awaited(q, b)
BY DEF Awaited

LEMMA AwaitedMore ==
  ASSUME NEW a, NEW b, Names(b, "result") = Names(a, "result"), NEW p, NEW q, Awaited(p, a),
         NEW d, d \notin Names(a, "result"), NEW m, NEW i, NEW h,
         NEW w, w = Wait(d, m, i, h), q.pending = p.pending \union {w},
         \A c, n, k, j : IsCall(q, c, n, k, j)
           <=> IsCall(p, c, n, k, j) \/ (c = d /\ n = m /\ k = i /\ j = h)
  PROVE  Awaited(q, b)
<1>1. ASSUME NEW v \in q.pending
      PROVE  \E c, n, k, j : /\ IsCall(q, c, n, k, j) /\ v = Wait(c, n, k, j)
                             /\ c \notin Names(b, "result")
  <2>1. CASE v \in p.pending
    BY <2>1 DEF Awaited
  <2>2. CASE v = w
    BY <2>2
  <2>3. QED
    BY <2>1, <2>2
<1>2. ASSUME NEW c, NEW n, NEW k, NEW j, IsCall(q, c, n, k, j), c \notin Names(b, "result")
      PROVE  Wait(c, n, k, j) \in q.pending
  <2>1. CASE IsCall(p, c, n, k, j)
    BY <1>2, <2>1 DEF Awaited
  <2>2. CASE c = d /\ n = m /\ k = i /\ j = h
    BY <2>2
  <2>3. QED
    BY <1>2, <2>1, <2>2
<1>3. QED
  BY <1>1, <1>2 DEF Awaited

LEMMA WaitIs ==
  ASSUME NEW c, NEW n, NEW k, NEW j, NEW w, w = Wait(c, n, k, j)
  PROVE  w.id = c /\ w.turn = n /\ w.step = k /\ w.call = j /\ w.room = Capacity(j)
BY DEF Wait

LEMMA AwaitedLess ==
  ASSUME NEW a, NEW b, NEW d,
         \A x : x \in Names(b, "result") <=> x \in Names(a, "result") \/ x = d,
         NEW p, NEW q, Awaited(p, a),
         NEW w, w.id = d, \A v \in p.pending : v.id = d => v = w, q.pending = p.pending \ {w},
         \A c, n, k, j : IsCall(q, c, n, k, j) <=> IsCall(p, c, n, k, j)
  PROVE  Awaited(q, b)
<1>1. ASSUME NEW v \in q.pending
      PROVE  \E c, n, k, j : /\ IsCall(q, c, n, k, j) /\ v = Wait(c, n, k, j)
                             /\ c \notin Names(b, "result")
  <2>1. PICK c, n, k, j : /\ IsCall(p, c, n, k, j) /\ v = Wait(c, n, k, j)
                          /\ c \notin Names(a, "result")
    BY DEF Awaited
  <2>2. v.id = c
    BY <2>1, WaitIs
  <2>3. c # d
    BY <2>2
  <2>4. QED
    BY <2>1, <2>3
<1>2. ASSUME NEW c, NEW n, NEW k, NEW j, IsCall(q, c, n, k, j), c \notin Names(b, "result")
      PROVE  Wait(c, n, k, j) \in q.pending
  <2>1. PICK v : v = Wait(c, n, k, j)
    OBVIOUS
  <2>2. v \in p.pending
    BY <1>2, <2>1 DEF Awaited
  <2>3. v.id # d
    BY <1>2, <2>1, WaitIs
  <2>4. QED
    BY <2>1, <2>2, <2>3
<1>3. QED
  BY <1>1, <1>2 DEF Awaited
\* How the calls change as a step is put in its place.
LEMMA IsCallPuts ==
  ASSUME NEW p, NEW q, NEW n, NEW k, NEW b, Puts(p, q, n, k, b), ParserOK(p), n \in DOMAIN p.turns,
         NEW c, NEW m, NEW i, NEW j
  PROVE  /\ m = n /\ i = k =>
              (IsCall(q, c, m, i, j) <=> j \in DOMAIN b.calls /\ b.calls[j].id = c)
         /\ ~(m = n /\ i = k) => (IsCall(q, c, m, i, j) <=> IsCall(p, c, m, i, j))
<1>1. DOMAIN q.turns = DOMAIN p.turns
  BY TurnsAreTurns DEF Puts
<1>2. CASE m # n
  BY <1>1, <1>2 DEF Puts, IsCall
<1>3. CASE m = n /\ i = k
  BY <1>1, <1>3 DEF Puts, IsCall
<1>4. CASE m = n /\ i # k
  <2>1. i \in DOMAIN q.turns[n].steps <=> i \in DOMAIN p.turns[n].steps
    BY <1>4 DEF Puts
  <2>2. i \in DOMAIN p.turns[n].steps => q.turns[n].steps[i] = p.turns[n].steps[i]
    BY <1>4 DEF Puts
  <2>3. QED
    BY <1>1, <1>4, <2>1, <2>2 DEF IsCall
<1>5. QED
  BY <1>2, <1>3, <1>4

\* The step's calls stay, but for what is done.
LEMMA IsCallStays ==
  ASSUME NEW p, NEW q, NEW n, NEW k, NEW b, Puts(p, q, n, k, b), ParserOK(p), n \in DOMAIN p.turns,
         k \in DOMAIN p.turns[n].steps, NEW a, a = p.turns[n].steps[k],
         DOMAIN b.calls = DOMAIN a.calls, \A h \in DOMAIN a.calls : b.calls[h].id = a.calls[h].id,
         NEW c, NEW m, NEW i, NEW j
  PROVE  IsCall(q, c, m, i, j) <=> IsCall(p, c, m, i, j)
<1>1. CASE m = n /\ i = k
  <2>1. IsCall(q, c, m, i, j) <=> j \in DOMAIN b.calls /\ b.calls[j].id = c
    BY <1>1, IsCallPuts
  <2>2. IsCall(p, c, m, i, j) <=> j \in DOMAIN a.calls /\ a.calls[j].id = c
    BY <1>1 DEF IsCall
  <2>3. QED
    BY <2>1, <2>2
<1>2. CASE ~(m = n /\ i = k)
  BY <1>2, IsCallPuts
<1>3. QED
  BY <1>1, <1>2

\* A step that is new or was there takes an answer in.
LEMMA IsCallMore ==
  ASSUME NEW p, NEW q, NEW n, NEW k, NEW o, NEW l, NEW u, TakesIn(p, q, n, k, o, l, u),
         ParserOK(p), n \in DOMAIN p.turns, NEW c, NEW m, NEW i, NEW j
  PROVE  IsCall(q, c, m, i, j)
           <=> \/ IsCall(p, c, m, i, j)
               \/ l.kind = "call" /\ c = l.id /\ m = n /\ i = k /\ j = Len(o.calls) + 1
<1>1. PICK b : b = Grown(o, l, u)
  OBVIOUS
<1>2. Puts(p, q, n, k, b) /\ o \in StepRecs
  BY <1>1 DEF TakesIn
<1>3. o.calls \in Seq(CallRecs)
  BY <1>2 DEF StepRecs
<1>4. CASE ~(m = n /\ i = k)
  BY <1>2, <1>4, IsCallPuts
<1>5. CASE m = n /\ i = k
  <2>1. IsCall(p, c, m, i, j) <=> j \in DOMAIN o.calls /\ o.calls[j].id = c
    <3>1. CASE At(p, n, k, l.step) /\ o = p.turns[n].steps[k]
      BY <1>5, <3>1 DEF IsCall, At
    <3>2. CASE k = Len(p.turns[n].steps) + 1 /\ o = Fresh(p, l.step)
      <4>1. DOMAIN o.calls = {}
        BY <3>2 DEF Fresh
      <4>2. p.turns[n] \in TurnRecs
        BY TurnsAreTurns
      <4>3. k \notin DOMAIN p.turns[n].steps
        BY <3>2, <4>2, TurnSteps
      <4>4. QED
        BY <1>5, <4>1, <4>3 DEF IsCall
    <3>3. QED
      BY <3>1, <3>2 DEF TakesIn
  <2>2. IsCall(q, c, m, i, j) <=> j \in DOMAIN b.calls /\ b.calls[j].id = c
    BY <1>2, <1>5, IsCallPuts
  <2>3. CASE l.kind = "call"
    <3>1. PICK e : e = [id |-> l.id, done |-> FALSE]
      OBVIOUS
    <3>2. b.calls = Append(o.calls, e) /\ e.id = l.id
      BY <1>1, <2>3, <3>1 DEF Grown
    <3>3. PICK was, is : was = o.calls /\ is = b.calls
      OBVIOUS
    <3>4. was \in Seq(CallRecs) /\ is = Append(was, e)
      BY <1>3, <3>2, <3>3
    <3>5. /\ Len(was) \in Nat /\ DOMAIN was = 1..Len(was) /\ DOMAIN is = 1..Len(was) + 1
          /\ \A h \in DOMAIN was : is[h] = was[h]
          /\ is[Len(was) + 1] = e
      BY ONLY <3>4
    <3>6. j \in DOMAIN is /\ is[j].id = c
            <=> (j \in DOMAIN was /\ was[j].id = c) \/ (j = Len(was) + 1 /\ c = l.id)
      BY ONLY <3>2, <3>5
    <3>7. QED
      BY <1>5, <2>1, <2>2, <2>3, <3>3, <3>6
  <2>4. CASE l.kind # "call"
    <3>1. b.calls = o.calls
      BY <1>1, <2>4 DEF Grown
    <3>2. QED
      BY <2>1, <2>2, <2>4, <3>1
  <2>5. QED
    BY <2>3, <2>4
<1>6. QED
  BY <1>4, <1>5

LEMMA IsCallOpens ==
  ASSUME NEW p, ParserOK(p), NEW t, NEW q, Opens(p, q, t), NEW c, NEW m, NEW i, NEW j
  PROVE  IsCall(q, c, m, i, j) <=> IsCall(p, c, m, i, j)
<1>1. /\ Len(p.turns) \in Nat /\ DOMAIN p.turns = 1..Len(p.turns)
      /\ DOMAIN q.turns = 1..Len(p.turns) + 1
      /\ \A n \in DOMAIN p.turns : q.turns[n] = p.turns[n]
      /\ q.turns[Len(p.turns) + 1].id = t /\ q.turns[Len(p.turns) + 1].steps = <<>>
  BY OpensLast
<1>2. m \in DOMAIN q.turns <=> m \in DOMAIN p.turns \/ m = Len(p.turns) + 1
  BY <1>1
<1>3. CASE m = Len(p.turns) + 1
  <2>1. DOMAIN q.turns[m].steps = {} /\ m \notin DOMAIN p.turns
    BY <1>1, <1>3
  <2>2. QED
    BY <2>1 DEF IsCall
<1>4. CASE m # Len(p.turns) + 1
  BY <1>1, <1>2, <1>4 DEF IsCall
<1>5. QED
  BY <1>3, <1>4

-----------------------------------------------------------------------------
(* The contexts of the steps, when a line is added. *)

\* The steps of a turn were shown what those of the other were.
ShownAlike(t, u) ==
  /\ DOMAIN u.steps = DOMAIN t.steps
  /\ \A k \in DOMAIN t.steps : u.steps[k].known = t.steps[k].known
                               /\ u.steps[k].shown = t.steps[k].shown

LEMMA LastAlike ==
  ASSUME NEW t, t \in TurnRecs, NEW u, u \in TurnRecs, ShownAlike(t, u)
  PROVE  /\ u.steps = <<>> <=> t.steps = <<>>
         /\ t.steps # <<>> => Last(u.steps).shown = Last(t.steps).shown
<1>1. PICK a, b : a = t.steps /\ b = u.steps
  OBVIOUS
<1>2. a \in Seq(StepRecs) /\ b \in Seq(StepRecs) /\ DOMAIN a = DOMAIN b
  BY <1>1, TurnSteps DEF ShownAlike
<1>3. Len(a) = Len(b)
  BY ONLY <1>2
<1>4. a = <<>> <=> b = <<>>
  BY ONLY <1>2, <1>3
<1>5. a # <<>> => Len(a) \in DOMAIN a
  BY ONLY <1>2
<1>6. a # <<>> => b[Len(b)].shown = a[Len(a)].shown
  BY <1>1, <1>3, <1>5 DEF ShownAlike
<1>7. QED
  BY <1>1, <1>4, <1>6 DEF Last

LEMMA LastShownAlike ==
  ASSUME NEW T, T \in Seq(TurnRecs), NEW U, U \in Seq(TurnRecs), NEW n, n \in Nat,
         n <= Len(T), n <= Len(U), \A m \in 1..n : ShownAlike(T[m], U[m]),
         NEW x, LastShown(T, n, x)
  PROVE  LastShown(U, n, x)
<1>1. ASSUME NEW m \in 1..n
      PROVE  /\ U[m].steps = <<>> <=> T[m].steps = <<>>
             /\ T[m].steps # <<>> => Last(U[m].steps).shown = Last(T[m].steps).shown
  <2>1. T[m] \in TurnRecs /\ U[m] \in TurnRecs
    OBVIOUS
  <2>2. QED
    BY <2>1, LastAlike
<1>2. CASE x = 0 /\ \A m \in 1..n : T[m].steps = <<>>
  BY <1>1, <1>2 DEF LastShown
<1>3. CASE \E m \in 1..n : /\ T[m].steps # <<>> /\ x = Last(T[m].steps).shown
                           /\ \A j \in m + 1..n : T[j].steps = <<>>
  <2>1. PICK m \in 1..n : /\ T[m].steps # <<>> /\ x = Last(T[m].steps).shown
                          /\ \A j \in m + 1..n : T[j].steps = <<>>
    BY <1>3
  <2>2. \A j \in m + 1..n : j \in 1..n
    OBVIOUS
  <2>3. \A j \in m + 1..n : U[j].steps = <<>>
    BY <1>1, <2>1, <2>2
  <2>4. U[m].steps # <<>> /\ x = Last(U[m].steps).shown
    BY <1>1, <2>1
  <2>5. QED
    BY <2>3, <2>4 DEF LastShown
<1>4. QED
  BY <1>2, <1>3 DEF LastShown

Meets(T, n, k) ==
  IF k = 1 THEN LastShown(T, n - 1, T[n].steps[k].known)
  ELSE T[n].steps[k].known = T[n].steps[k - 1].shown

LEMMA MeetsAlike ==
  ASSUME NEW T, T \in Seq(TurnRecs), NEW U, U \in Seq(TurnRecs), NEW n, n \in DOMAIN T,
         n \in DOMAIN U, \A m \in 1..n - 1 : ShownAlike(T[m], U[m]), NEW k, k \in DOMAIN T[n].steps,
         \A i \in DOMAIN T[n].steps : /\ U[n].steps[i].known = T[n].steps[i].known
                                      /\ U[n].steps[i].shown = T[n].steps[i].shown,
         Meets(T, n, k)
  PROVE  Meets(U, n, k)
<1>1. CASE k = 1
  <2>1. PICK m : m = n - 1
    OBVIOUS
  <2>2. m \in Nat /\ m <= Len(T) /\ m <= Len(U)
    BY <2>1
  <2>3. LastShown(T, m, T[n].steps[k].known)
    BY <1>1, <2>1 DEF Meets
  <2>4. LastShown(U, m, T[n].steps[k].known)
    BY <2>1, <2>2, <2>3, LastShownAlike
  <2>5. QED
    BY <1>1, <2>1, <2>4 DEF Meets
<1>2. CASE k # 1
  <2>1. T[n] \in TurnRecs
    OBVIOUS
  <2>2. k - 1 \in DOMAIN T[n].steps
    BY <1>2, <2>1, TurnSteps
  <2>3. QED
    BY <1>2, <2>2 DEF Meets
<1>3. QED
  BY <1>1, <1>2

Contexts(p) == ContextsMeet(p.turns) /\ LastShown(p.turns, Len(p.turns), p.sent)

LEMMA ContextsAre ==
  ASSUME NEW T
  PROVE  ContextsMeet(T) <=> \A n \in DOMAIN T : \A k \in DOMAIN T[n].steps : Meets(T, n, k)
BY DEF ContextsMeet, Meets

LEMMA ContextsSame ==
  ASSUME NEW p, ParserOK(p), NEW q, ParserOK(q), Len(q.turns) = Len(p.turns), q.sent = p.sent,
         \A n \in DOMAIN p.turns : ShownAlike(p.turns[n], q.turns[n]), Contexts(p)
  PROVE  Contexts(q)
<1>1. PICK T, U : T = p.turns /\ U = q.turns
  OBVIOUS
<1>2. /\ T \in Seq(TurnRecs) /\ U \in Seq(TurnRecs) /\ Len(U) = Len(T) /\ Len(T) \in Nat
      /\ DOMAIN T = 1..Len(T) /\ DOMAIN U = 1..Len(T)
      /\ \A n \in 1..Len(T) : ShownAlike(T[n], U[n])
  BY <1>1, TurnsAreTurns DEF ParserOK
<1>3. ASSUME NEW n \in DOMAIN U, NEW k \in DOMAIN U[n].steps
      PROVE  Meets(U, n, k)
  <2>1. /\ n \in DOMAIN T /\ k \in DOMAIN T[n].steps
        /\ \A i \in DOMAIN T[n].steps : /\ U[n].steps[i].known = T[n].steps[i].known
                                        /\ U[n].steps[i].shown = T[n].steps[i].shown
    BY <1>2 DEF ShownAlike
  <2>2. \A m \in 1..n - 1 : ShownAlike(T[m], U[m])
    BY <1>2, <2>1
  <2>3. Meets(T, n, k)
    BY <1>1, <2>1, ContextsAre DEF Contexts
  <2>4. QED
    BY <1>2, <2>1, <2>2, <2>3, MeetsAlike
<1>4. LastShown(U, Len(T), p.sent)
  <2>1. LastShown(T, Len(T), p.sent)
    BY <1>1 DEF Contexts
  <2>2. QED
    BY <1>2, <2>1, LastShownAlike
<1>5. QED
  BY <1>1, <1>2, <1>3, <1>4, ContextsAre DEF Contexts

LEMMA ContextsOpened ==
  ASSUME NEW p, ParserOK(p), NEW q, NEW t, Opens(p, q, t), q.sent = p.sent, Contexts(p)
  PROVE  Contexts(q)
<1>1. PICK T, U, N : T = p.turns /\ U = q.turns /\ N = Len(p.turns)
  OBVIOUS
<1>2. /\ T \in Seq(TurnRecs) /\ U \in Seq(TurnRecs) /\ N \in Nat /\ N = Len(T)
      /\ DOMAIN T = 1..N /\ DOMAIN U = 1..N + 1 /\ Len(U) = N + 1
      /\ \A n \in 1..N : U[n] = T[n]
      /\ U[N + 1].steps = <<>>
  <2>1. T \in Seq(TurnRecs) /\ U \in Seq(TurnRecs)
    BY <1>1 DEF ParserOK, Opens
  <2>2. /\ N \in Nat /\ DOMAIN T = 1..N /\ DOMAIN U = 1..N + 1
        /\ \A n \in DOMAIN T : U[n] = T[n]
        /\ U[N + 1].steps = <<>>
    BY <1>1, OpensLast
  <2>3. N = Len(T) /\ Len(U) = N + 1
    BY ONLY <1>1, <2>1, <2>2
  <2>4. QED
    BY <2>1, <2>2, <2>3
<1>3. \A n \in 1..N : ShownAlike(T[n], U[n])
  BY <1>2 DEF ShownAlike
<1>4. ASSUME NEW n \in DOMAIN U, NEW k \in DOMAIN U[n].steps
      PROVE  Meets(U, n, k)
  <2>1. n \in DOMAIN T
    BY <1>2
  <2>2. /\ k \in DOMAIN T[n].steps
        /\ \A i \in DOMAIN T[n].steps : /\ U[n].steps[i].known = T[n].steps[i].known
                                        /\ U[n].steps[i].shown = T[n].steps[i].shown
    BY <1>2, <2>1
  <2>3. \A m \in 1..n - 1 : ShownAlike(T[m], U[m])
    BY <1>2, <1>3, <2>1
  <2>4. Meets(T, n, k)
    BY <1>1, <2>1, <2>2, ContextsAre DEF Contexts
  <2>5. QED
    BY <1>2, <2>1, <2>2, <2>3, <2>4, MeetsAlike
<1>5. LastShown(U, N, p.sent)
  <2>1. LastShown(T, N, p.sent)
    BY <1>1 DEF Contexts
  <2>2. QED
    BY <1>2, <1>3, <2>1, LastShownAlike
<1>6. LastShown(U, N + 1, p.sent)
  <2>1. CASE p.sent = 0 /\ \A m \in 1..N : U[m].steps = <<>>
    <3>1. \A m \in 1..N + 1 : m \in 1..N \/ m = N + 1
      BY <1>2
    <3>2. QED
      BY <1>2, <2>1, <3>1 DEF LastShown
  <2>2. CASE \E m \in 1..N : /\ U[m].steps # <<>> /\ p.sent = Last(U[m].steps).shown
                             /\ \A j \in m + 1..N : U[j].steps = <<>>
    <3>1. PICK m \in 1..N : /\ U[m].steps # <<>> /\ p.sent = Last(U[m].steps).shown
                            /\ \A j \in m + 1..N : U[j].steps = <<>>
      BY <2>2
    <3>2. m \in 1..N + 1 /\ \A j \in m + 1..N + 1 : j \in m + 1..N \/ j = N + 1
      BY <1>2
    <3>3. QED
      BY <1>2, <3>1, <3>2 DEF LastShown
  <2>3. QED
    BY <1>5, <2>1, <2>2 DEF LastShown
<1>7. QED
  BY <1>1, <1>2, <1>4, <1>6, ContextsAre DEF Contexts

\* A step that opens was known what the last one had been shown.
LEMMA ContextsMore ==
  ASSUME NEW p, ParserOK(p), NEW q, NEW n, n = Len(p.turns), n \in DOMAIN p.turns,
         NEW k, k = Len(p.turns[n].steps) + 1, NEW step, Puts(p, q, n, k, step),
         step.known = p.sent, step.shown = q.sent, Contexts(p)
  PROVE  Contexts(q)
<1>1. PICK T, U : T = p.turns /\ U = q.turns
  OBVIOUS
<1>2. /\ T \in Seq(TurnRecs) /\ U \in Seq(TurnRecs) /\ n \in Nat \ {0} /\ n = Len(T) /\ Len(U) = n
      /\ DOMAIN T = 1..n /\ DOMAIN U = 1..n
  BY <1>1, TurnsAreTurns DEF ParserOK, Puts
<1>3. PICK a, b : a = T[n].steps /\ b = U[n].steps
  OBVIOUS
<1>4. T[n] \in TurnRecs /\ U[n] \in TurnRecs
  BY ONLY <1>2
<1>5. /\ a \in Seq(StepRecs) /\ b \in Seq(StepRecs) /\ DOMAIN b = DOMAIN a \union {k}
      /\ k = Len(a) + 1 /\ b[k] = step /\ \A j \in DOMAIN a : j # k => b[j] = a[j]
  BY <1>1, <1>3, <1>4, TurnSteps DEF Puts
<1>6. /\ Len(a) \in Nat /\ DOMAIN a = 1..Len(a) /\ Len(b) = k /\ k \in DOMAIN b
      /\ \A j \in DOMAIN a : b[j] = a[j] /\ j \in DOMAIN b
  <2>1. Len(a) \in Nat /\ DOMAIN a = 1..Len(a) /\ DOMAIN b = 1..Len(b) /\ Len(b) \in Nat
    BY ONLY <1>5
  <2>2. DOMAIN b = 1..k
    BY ONLY <1>5, <2>1
  <2>3. Len(b) = k
    BY ONLY <1>5, <2>1, <2>2
  <2>4. QED
    BY ONLY <1>5, <2>1, <2>2, <2>3
<1>7. \A m \in 1..n - 1 : ShownAlike(T[m], U[m])
  <2>1. \A m \in DOMAIN T : m # n => U[m] = T[m]
    BY <1>1 DEF Puts
  <2>2. QED
    BY <1>2, <2>1 DEF ShownAlike
<1>8. LastShown(T, n, p.sent)
  BY <1>1 DEF Contexts
<1>9. Meets(U, n, k)
  <2>1. CASE a = <<>>
    <3>1. k = 1
      BY <1>5, <2>1
    <3>2. PICK r : r = n - 1
      OBVIOUS
    <3>3. r \in Nat /\ r <= Len(T) /\ r <= Len(U) /\ \A m \in 1..r : m \in 1..n
      BY <1>2, <3>2
    <3>4. LastShown(T, r, p.sent)
      <4>1. CASE p.sent = 0 /\ \A m \in 1..n : T[m].steps = <<>>
        BY <3>3, <4>1 DEF LastShown
      <4>2. CASE \E m \in 1..n : /\ T[m].steps # <<>> /\ p.sent = Last(T[m].steps).shown
                                 /\ \A j \in m + 1..n : T[j].steps = <<>>
        <5>1. PICK m \in 1..n : /\ T[m].steps # <<>> /\ p.sent = Last(T[m].steps).shown
                                /\ \A j \in m + 1..n : T[j].steps = <<>>
          BY <4>2
        <5>2. m # n
          BY <1>3, <2>1, <5>1
        <5>3. m \in 1..r /\ \A j \in m + 1..r : j \in m + 1..n
          BY <1>2, <3>2, <5>2
        <5>4. QED
          BY <5>1, <5>3 DEF LastShown
      <4>3. QED
        BY <1>8, <4>1, <4>2 DEF LastShown
    <3>5. LastShown(U, r, p.sent)
      BY <1>2, <1>7, <3>2, <3>3, <3>4, LastShownAlike
    <3>6. QED
      BY <1>3, <1>5, <3>1, <3>2, <3>5 DEF Meets
  <2>2. CASE a # <<>>
    <3>1. k # 1 /\ k - 1 = Len(a) /\ k - 1 \in DOMAIN a
      BY <1>5, <1>6, <2>2
    <3>2. p.sent = a[Len(a)].shown
      <4>1. ~(\A m \in 1..n : T[m].steps = <<>>)
        BY <1>2, <1>3, <2>2
      <4>2. PICK m \in 1..n : /\ T[m].steps # <<>> /\ p.sent = Last(T[m].steps).shown
                              /\ \A j \in m + 1..n : T[j].steps = <<>>
        BY <1>8, <4>1 DEF LastShown
      <4>3. m = n
        <5>1. ASSUME m # n PROVE FALSE
          <6>1. n \in m + 1..n
            BY <1>2, <5>1
          <6>2. QED
            BY <1>3, <2>2, <4>2, <6>1
        <5>2. QED
          BY <5>1
      <4>4. QED
        BY <1>3, <4>2, <4>3 DEF Last
    <3>3. U[n].steps[k - 1].shown = p.sent
      BY <1>3, <1>6, <3>1, <3>2
    <3>4. QED
      BY <1>3, <1>5, <3>1, <3>3 DEF Meets
  <2>3. QED
    BY <2>1, <2>2
<1>10. ASSUME NEW m \in DOMAIN U, NEW i \in DOMAIN U[m].steps
       PROVE  Meets(U, m, i)
  <2>1. m \in DOMAIN T
    BY <1>2
  <2>2. CASE m = n /\ i = k
    BY <1>9, <2>2
  <2>3. CASE ~(m = n /\ i = k)
    <3>1. /\ i \in DOMAIN T[m].steps
          /\ \A j \in DOMAIN T[m].steps : /\ U[m].steps[j].known = T[m].steps[j].known
                                          /\ U[m].steps[j].shown = T[m].steps[j].shown
      <4>1. CASE m = n
        <5>1. T[m].steps = a /\ U[m].steps = b /\ i # k
          BY <1>3, <2>3, <4>1
        <5>2. i \in DOMAIN b
          BY <5>1
        <5>3. i \in DOMAIN a /\ \A j \in DOMAIN a : b[j] = a[j]
          BY ONLY <1>5, <1>6, <5>1, <5>2
        <5>4. QED
          BY <5>1, <5>3
      <4>2. CASE m # n
        <5>1. U[m] = T[m]
          BY <1>1, <2>1, <4>2 DEF Puts
        <5>2. QED
          BY <5>1
      <4>3. QED
        BY <4>1, <4>2
    <3>2. \A j \in 1..m - 1 : ShownAlike(T[j], U[j])
      BY <1>2, <1>7, <2>1
    <3>3. Meets(T, m, i)
      BY <1>1, <2>1, <3>1, ContextsAre DEF Contexts
    <3>4. QED
      BY <1>2, <2>1, <3>1, <3>2, <3>3, MeetsAlike
  <2>4. QED
    BY <2>2, <2>3
<1>11. LastShown(U, n, q.sent)
  <2>1. b # <<>>
    BY ONLY <1>5, <1>6
  <2>2. Last(b) = step
    BY <1>5, <1>6 DEF Last
  <2>3. n \in 1..n /\ \A j \in n + 1..n : FALSE
    BY <1>2
  <2>4. QED
    BY <1>3, <2>1, <2>2, <2>3 DEF LastShown
<1>12. QED
  BY <1>1, <1>2, <1>10, <1>11, ContextsAre DEF Contexts

-----------------------------------------------------------------------------
(* What is held and what is written, line by line. *)

\* What line l is, coming after the lines a.
AfterAll(a, l) ==
  /\ IsAnswer(l) =>
       /\ l.turn # NoTurn /\ l.step[1] = l.turn /\ l.step # NoStep
       /\ format # "claude" => l.step = <<l.turn, 0>>
       /\ format = "claude" => l.tokens = Cardinality(Answers(a, l.step)) + 1
       /\ \A r \in DOMAIN a : ~Counts(a[r], l.turn)
  /\ \A r \in DOMAIN a : l.kind = "call" => /\ a[r].kind = "call" => a[r].id < l.id
                                            /\ ~Result(a[r], l.id)
  /\ l.kind = "result" =>
       /\ \E r \in DOMAIN a : a[r].kind = "call" /\ a[r].id = l.id /\ a[r].turn = l.turn
       /\ \A r \in DOMAIN a : ~Result(a[r], l.id)
  /\ l.kind = "usage" => /\ format # "claude"
                         /\ l.tokens = Cardinality(Texts(a, <<l.turn, 0>>))
  /\ l.kind = "prompt" => l.step = NoStep
  /\ Fits(l, format)

LEMMA WrittenLast ==
  ASSUME NEW a, NEW b, NEW l, Adds(a, b, l), LogWritten(b, format)
  PROVE  Written(a, l, format) /\ Begins(a, b) /\ SubSeq(b, 1, Len(a)) = a
<1>1. PICK n : n = Len(b)
  OBVIOUS
<1>2. /\ a \in Seq(LineRecs) /\ b \in Seq(LineRecs) /\ Len(a) \in Nat /\ n = Len(a) + 1
      /\ n \in DOMAIN b /\ b[n] = l /\ n - 1 = Len(a)
      /\ \A j \in DOMAIN a : b[j] = a[j]
  BY <1>1 DEF Adds
<1>3. Begins(a, b)
  BY <1>1, <1>2 DEF Begins
<1>4. SubSeq(a, 1, Len(a)) = SubSeq(b, 1, Len(a)) /\ SubSeq(a, 1, Len(a)) = a
  <2>1. Len(a) \in 0..Len(a)
    BY <1>2
  <2>2. QED
    BY <1>2, <1>3, <2>1, PrefixSame, PrefixWhole
<1>5. Written(SubSeq(b, 1, n - 1), b[n], format)
  BY <1>2 DEF LogWritten
<1>6. QED
  BY <1>2, <1>3, <1>4, <1>5

LEMMA LineAfter ==
  ASSUME NEW a, NEW b, NEW l, Adds(a, b, l), LogGood(b, format)
  PROVE  /\ Fits(l, format)
         /\ \A r \in DOMAIN a : l.kind = "call" /\ a[r].kind = "call" => a[r].id < l.id
         /\ l.kind = "result" =>
              \E r \in DOMAIN a : a[r].kind = "call" /\ a[r].id = l.id /\ a[r].turn = l.turn
<1>1. PICK n : n = Len(b)
  OBVIOUS
<1>2. /\ n \in DOMAIN b /\ b[n] = l /\ n \in Nat /\ DOMAIN a = 1..n - 1
      /\ \A j \in DOMAIN a : b[j] = a[j]
  <2>1. /\ a \in Seq(LineRecs) /\ n = Len(a) + 1 /\ Len(a) \in Nat
        /\ n \in DOMAIN b /\ b[n] = l
        /\ \A j \in DOMAIN a : b[j] = a[j]
    BY <1>1 DEF Adds
  <2>2. DOMAIN a = 1..Len(a) /\ Len(a) = n - 1
    BY ONLY <2>1
  <2>3. QED
    BY ONLY <2>1, <2>2
<1>3. LineOK(b, n, format)
  BY <1>2 DEF LogGood, LineGood
<1>4. Fits(l, format)
  BY <1>2, <1>3 DEF LineOK
<1>5. l.kind = "call" => \A j \in 1..n - 1 : b[j].kind = "call" => b[j].id < l.id
  BY <1>2, <1>3 DEF LineOK
<1>6. l.kind = "result" => \E j \in 1..n - 1 : /\ b[j].kind = "call" /\ b[j].id = l.id
                                               /\ b[j].turn = l.turn
  BY <1>2, <1>3 DEF LineOK
<1>7. QED
  BY <1>2, <1>4, <1>5, <1>6

\* A result names a call made before it.
LEMMA ResultNames ==
  ASSUME NEW a, LogGood(a, format), NEW r, r \in DOMAIN a, a[r].kind = "result"
  PROVE  \E j \in DOMAIN a : a[j].kind = "call" /\ a[j].id = a[r].id
<1>1. a \in Seq(LineRecs) /\ LineOK(a, r, format)
  BY DEF LogGood, LineGood
<1>2. \E j \in 1..r - 1 : a[j].kind = "call" /\ a[j].id = a[r].id
  BY <1>1 DEF LineOK
<1>3. \A j \in 1..r - 1 : j \in DOMAIN a
  BY <1>1
<1>4. QED
  BY <1>2, <1>3

LEMMA LineIsAfter ==
  ASSUME NEW a, NEW b, NEW l, Adds(a, b, l), LogGood(b, format), LogWritten(b, format)
  PROVE  AfterAll(a, l)
<1>1. Written(a, l, format) /\ Begins(a, b) /\ a \in Seq(LineRecs) /\ l \in LineRecs
  BY WrittenLast DEF Adds
<1>2. LogGood(a, format)
  BY <1>1, LogGoodBegins
<1>3. /\ Fits(l, format)
      /\ \A r \in DOMAIN a : l.kind = "call" /\ a[r].kind = "call" => a[r].id < l.id
      /\ l.kind = "result" =>
           \E r \in DOMAIN a : a[r].kind = "call" /\ a[r].id = l.id /\ a[r].turn = l.turn
  BY LineAfter
<1>4. ASSUME IsAnswer(l)
      PROVE  /\ l.turn # NoTurn /\ l.step[1] = l.turn /\ l.step # NoStep
             /\ format # "claude" => l.step = <<l.turn, 0>>
             /\ format = "claude" => l.tokens = Cardinality(Answers(a, l.step)) + 1
             /\ \A r \in DOMAIN a : ~Counts(a[r], l.turn)
  <2>1. l.turn # NoTurn /\ l.step \in Nat \X Nat
    BY <1>1, <1>3, <1>4 DEF Fits, IsAnswer, LineRecs
  <2>2. /\ l.step[1] = l.turn /\ (format # "claude" => l.step[2] = 0)
        /\ format = "claude" => l.tokens = Cardinality(Answers(a, l.step)) + 1
        /\ \A r \in DOMAIN a : a[r].kind = "usage" => a[r].turn # l.turn
    BY <1>1, <1>4 DEF Written, IsAnswer
  <2>3. l.step = <<l.step[1], l.step[2]>>
    BY <2>1
  <2>4. l.step # NoStep
    BY <2>1, <2>2 DEF NoStep, NoTurn
  <2>5. QED
    BY <2>1, <2>2, <2>3, <2>4 DEF Counts
<1>5. ASSUME NEW r \in DOMAIN a, l.kind = "call", Result(a[r], l.id)
      PROVE  FALSE
  <2>1. PICK j \in DOMAIN a : a[j].kind = "call" /\ a[j].id = l.id
    BY <1>2, <1>5, ResultNames DEF Result
  <2>2. l.id \in Nat /\ l.id < l.id
    BY <1>1, <1>3, <1>5, <2>1 DEF LineRecs
  <2>3. QED
    BY <2>2
<1>6. l.kind = "result" => \A r \in DOMAIN a : ~Result(a[r], l.id)
  BY <1>1 DEF Written, Result
<1>7. l.kind = "usage" => format # "claude" /\ l.tokens = Cardinality(Texts(a, <<l.turn, 0>>))
  BY <1>1, <1>3 DEF Fits, Written
<1>8. l.kind = "prompt" => l.step = NoStep
  BY <1>1 DEF Written
<1>9. QED
  BY <1>3, <1>4, <1>5, <1>6, <1>7, <1>8 DEF AfterAll

LEMMA LogCallsApart ==
  ASSUME NEW a, LogGood(a, format)
  PROVE  CallsApart(a)
<1>1. a \in Seq(LineRecs)
  BY DEF LogGood
<1>2. ASSUME NEW i \in DOMAIN a, NEW j \in DOMAIN a, a[i].kind = "call", a[j].kind = "call", i < j
      PROVE  a[i].id # a[j].id
  <2>1. LineOK(a, j, format) /\ i \in 1..j - 1 /\ a[i] \in LineRecs
    BY <1>1, <1>2 DEF LogGood, LineGood
  <2>2. a[i].id < a[j].id /\ a[i].id \in Nat
    BY <1>2, <2>1 DEF LineOK, LineRecs
  <2>3. QED
    BY <2>2
<1>3. \A i, j \in DOMAIN a : i < j \/ j < i \/ i = j
  BY <1>1
<1>4. QED
  BY <1>2, <1>3 DEF CallsApart

AllWritten(p, lines) == \A n \in DOMAIN p.turns : TurnAsWritten(lines, p.turns[n])

Holds(p, lines) ==
  /\ {p.turns[n].id : n \in DOMAIN p.turns} = TurnsWritten(lines)
  /\ AllWritten(p, lines) /\ Contexts(p)
  /\ p.seen = Cardinality(Items(lines)) /\ Awaited(p, lines)

\* What the parser is, having read the lines a.
Stands(p, a) ==
  /\ ParserOK(p) /\ TurnsApart(p) /\ \A n \in DOMAIN p.turns : p.turns[n].id # NoTurn
  /\ Stepped(a) /\ CallsApart(a) /\ TurnsHold(p, a) /\ Holds(p, a)

LEMMA ParserStands ==
  ASSUME NEW a, LogGood(a, format), LogWritten(a, format), NEW p,
         ReadSoFar(p, a, Len(a), format), Holds(p, a)
  PROVE  Stands(p, a)
<1>1. a \in Seq(LineRecs) /\ Stepped(a) /\ CallsApart(a)
  BY LogStepped, LogCallsApart DEF LogGood
<1>2. ParserOK(p) /\ \A n \in DOMAIN p.turns : p.turns[n].id # NoTurn
  BY DEF ReadSoFar
<1>3. TurnsApart(p)
  <2>1. \A m, n \in DOMAIN p.turns : m < n => p.turns[m].id < p.turns[n].id
    BY DEF ReadSoFar
  <2>2. \A n \in DOMAIN p.turns : n \in Nat /\ p.turns[n].id \in Nat
    <3>1. \A n \in DOMAIN p.turns : n \in Nat /\ p.turns[n] \in TurnRecs
      BY <1>2, TurnsAreTurns
    <3>2. QED
      BY <3>1 DEF TurnRecs
  <2>3. QED
    BY <2>1, <2>2 DEF TurnsApart
<1>4. ASSUME NEW n \in DOMAIN p.turns
      PROVE  TurnAsWritten(a, p.turns[n]) /\ StepsThere(a, p.turns[n])
  <2>1. TurnAsWritten(a, p.turns[n]) /\ p.turns[n] \in TurnRecs /\ p.turns[n].id # NoTurn
    BY <1>2, TurnsAreTurns DEF Holds, AllWritten
  <2>2. QED
    BY <1>1, <2>1, StepsAreThere
<1>5. QED
  BY <1>1, <1>2, <1>3, <1>4 DEF Stands, TurnsHold

LEMMA TurnAside ==
  ASSUME NEW a, NEW b, NEW l, Adds(a, b, l), AfterAll(a, l), NEW p, Stands(p, a),
         NEW n, n \in DOMAIN p.turns, ~IsWork(l, p.turns[n].id),
         format = "claude" \/ ~Counts(l, p.turns[n].id) \/ p.turns[n].steps = <<>>,
         l.kind # "result" \/ \A k, j : ~IsCall(p, l.id, n, k, j)
  PROVE  TurnAsWritten(b, p.turns[n])
<1>1. PICK t : t = p.turns[n]
  OBVIOUS
<1>2. t \in TurnRecs
  BY <1>1, TurnsAreTurns DEF Stands
<1>3. TurnAsWritten(a, t) /\ StepsThere(a, t)
  BY <1>1 DEF Stands, TurnsHold
<1>4. \A k \in DOMAIN t.steps : \A j \in DOMAIN t.steps[k].calls :
        ~Result(l, t.steps[k].calls[j].id)
  BY <1>1 DEF IsCall, Result
<1>5. IsAnswer(l) => l.step[1] = l.turn
  BY DEF AfterAll
<1>6. TurnAsWritten(b, t)
  BY <1>1, <1>2, <1>3, <1>4, <1>5, TurnStays
<1>7. QED
  BY <1>1, <1>6

LEMMA OpenedOpens ==
  ASSUME NEW p, ParserOK(p), NEW r, ParserOK(r), r.turns = p.turns, r.pending = p.pending,
         NEW t, t \in Nat, NEW q, q = Opened(r, t)
  PROVE  Opens(p, q, t) /\ q.sent = r.sent /\ q.seen = r.seen
<1>1. PICK e : e = [id |-> t, ended |-> FALSE, steps |-> <<>>]
  OBVIOUS
<1>2. e \in TurnRecs
  BY <1>1 DEF TurnRecs
<1>3. PICK was, is : was = r.turns /\ is = Append(r.turns, e)
  OBVIOUS
<1>4. is \in Seq(TurnRecs) /\ was \in Seq(TurnRecs)
  <2>1. was \in Seq(TurnRecs)
    BY <1>3 DEF ParserOK
  <2>2. QED
    BY <1>2, <1>3, <2>1
<1>5. /\ r = [turns |-> was, pending |-> r.pending, seen |-> r.seen, sent |-> r.sent]
      /\ r.seen \in Nat /\ r.sent \in Nat
  BY <1>3 DEF ParserOK
<1>6. q = [r EXCEPT !.turns = is]
  BY <1>1, <1>3 DEF Opened
<1>7. q = [turns |-> is, pending |-> r.pending, seen |-> r.seen, sent |-> r.sent]
  BY <1>5, <1>6
<1>8. ParserOK(q)
  BY <1>4, <1>5, <1>7 DEF ParserOK
<1>9. QED
  BY <1>1, <1>3, <1>7, <1>8 DEF Opens

\* A turn begins.
LEMMA HoldsOpened ==
  ASSUME NEW a, NEW b, NEW l, Adds(a, b, l), AfterAll(a, l), NEW p, Stands(p, a),
         IsOpening(l), ~GoesOn(l, format), \A r \in DOMAIN a : a[r].turn # l.turn,
         NEW q, Opens(p, q, l.turn), q.sent = p.sent,
         q.seen = p.seen + IF l.kind = "prompt" THEN 1 ELSE 0
  PROVE  Holds(q, b)
<1>1. PICK n, t : n = Len(p.turns) + 1 /\ t = l.turn
  OBVIOUS
<1>2. ParserOK(p) /\ Holds(p, a) /\ TurnsHold(p, a)
  BY DEF Stands
<1>3. /\ l.kind \in {"context", "prompt"} /\ ~IsAnswer(l) /\ ~(format = "codex" /\ l.kind = "prompt")
      /\ l.kind # "result" /\ l.kind # "usage"
  BY DEF IsOpening, GoesOn, IsAnswer
<1>4. /\ DOMAIN p.turns = 1..Len(p.turns) /\ DOMAIN q.turns = DOMAIN p.turns \union {n}
      /\ \A m \in DOMAIN p.turns : q.turns[m] = p.turns[m]
  <2>1. Len(p.turns) \in Nat /\ DOMAIN p.turns = 1..Len(p.turns) /\ DOMAIN q.turns = 1..n
    BY <1>1, <1>2, OpensLast
  <2>2. DOMAIN q.turns = DOMAIN p.turns \union {n}
    BY <1>1, <2>1
  <2>3. QED
    BY <1>2, <2>1, <2>2, OpensLast
<1>5. q.turns[n].id = t /\ q.turns[n].steps = <<>> /\ q.turns[n].ended = FALSE
  <2>1. PICK e : e = [id |-> t, ended |-> FALSE, steps |-> <<>>]
    OBVIOUS
  <2>2. q.turns = Append(p.turns, e) /\ p.turns \in Seq(TurnRecs)
    BY <1>1, <1>2, <2>1 DEF Opens, ParserOK
  <2>3. q.turns[n] = e
    BY <1>1, <2>2
  <2>4. QED
    BY <2>1, <2>3
<1>6. {q.turns[m].id : m \in DOMAIN q.turns} = TurnsWritten(b)
  <2>1. TurnsWritten(b) = TurnsWritten(a) \union {t}
    BY <1>1, TurnsMore
  <2>2. \A x : x \in {q.turns[m].id : m \in DOMAIN q.turns}
                 <=> x \in {p.turns[m].id : m \in DOMAIN p.turns} \/ x = t
    BY <1>4, <1>5
  <2>3. {p.turns[m].id : m \in DOMAIN p.turns} = TurnsWritten(a)
    BY <1>2 DEF Holds
  <2>4. QED
    BY <2>1, <2>2, <2>3
<1>7. AllWritten(q, b)
  <2>1. ASSUME NEW m \in DOMAIN p.turns
        PROVE  TurnAsWritten(b, q.turns[m])
    <3>1. ~IsWork(l, p.turns[m].id) /\ ~Counts(l, p.turns[m].id)
      BY <1>3 DEF IsWork, Counts
    <3>2. TurnAsWritten(b, p.turns[m])
      BY <1>3, <3>1, TurnAside
    <3>3. QED
      BY <1>4, <3>2
  <2>2. TurnAsWritten(b, q.turns[n])
    <3>1. ~IsWork(l, t)
      BY <1>3 DEF IsWork
    <3>2. Works(b, t) = Works(a, t)
      BY <3>1, WorkStepsMore
    <3>3. Works(a, t) = {}
      BY <1>1 DEF Works
    <3>4. QED
      BY <1>5, <3>2, <3>3, TurnBegins
  <2>3. QED
    BY <1>4, <2>1, <2>2 DEF AllWritten
<1>8. Contexts(q)
  BY <1>1, <1>2, ContextsOpened DEF Holds
<1>9. q.seen = Cardinality(Items(b))
  <2>1. p.seen = Cardinality(Items(a))
    BY <1>2 DEF Holds
  <2>2. Cardinality(Items(b)) = Cardinality(Items(a)) + IF l.kind = "prompt" THEN 1 ELSE 0
    <3>1. Cardinality(Items(b)) = Cardinality(Items(a))
            + IF l.kind \in {"prompt", "text", "call", "result"} THEN 1 ELSE 0
      BY ItemsMore
    <3>2. QED
      BY <1>3, <3>1
  <2>3. QED
    BY <2>1, <2>2
<1>10. Awaited(q, b)
  <2>1. Names(b, "result") = Names(a, "result")
    BY <1>3, ResultsMore
  <2>2. \A c, m, k, j : IsCall(q, c, m, k, j) <=> IsCall(p, c, m, k, j)
    BY <1>1, <1>2, IsCallOpens
  <2>3. q.pending = p.pending /\ Awaited(p, a)
    BY <1>2 DEF Opens, Holds
  <2>4. QED
    BY <2>1, <2>2, <2>3, AwaitedSame
<1>11. QED
  BY <1>6, <1>7, <1>8, <1>9, <1>10 DEF Holds

\* A line that tells nothing of any turn.
LEMMA HoldsStill ==
  ASSUME NEW a, NEW b, NEW l, Adds(a, b, l), AfterAll(a, l), NEW p, Stands(p, a),
         l.kind \in {"context", "usage"}, IsOpening(l) => l.turn \in TurnsWritten(a),
         \A n \in DOMAIN p.turns : Counts(l, p.turns[n].id) => p.turns[n].steps = <<>>
  PROVE  Holds(p, b)
<1>1. Holds(p, a)
  BY DEF Stands
<1>2. TurnsWritten(b) = TurnsWritten(a)
  <2>1. TurnsWritten(b) = IF IsOpening(l) THEN TurnsWritten(a) \union {l.turn}
                          ELSE TurnsWritten(a)
    BY TurnsMore
  <2>2. QED
    BY <2>1
<1>3. ASSUME NEW n \in DOMAIN p.turns
      PROVE  TurnAsWritten(b, p.turns[n])
  <2>1. ~IsWork(l, p.turns[n].id) /\ l.kind # "result"
    BY DEF IsWork, IsAnswer
  <2>2. QED
    BY <2>1, TurnAside
<1>4. Cardinality(Items(b)) = Cardinality(Items(a))
  <2>1. Items(b) = Items(a)
    BY ItemsMore
  <2>2. QED
    BY <2>1
<1>5. Awaited(p, b)
  <2>1. Names(b, "result") = Names(a, "result")
    BY ResultsMore
  <2>2. Awaited(p, a)
    BY <1>1 DEF Holds
  <2>3. QED
    BY <2>1, <2>2 DEF Awaited
<1>6. QED
  BY <1>1, <1>2, <1>3, <1>4, <1>5 DEF Holds, AllWritten

\* Codex's prompt, in the turn that its delimiter opened.
LEMMA HoldsPrompted ==
  ASSUME NEW a, NEW b, NEW l, Adds(a, b, l), AfterAll(a, l), NEW p, Stands(p, a),
         format = "codex", l.kind = "prompt", NEW n, n = Len(p.turns), n \in DOMAIN p.turns,
         p.turns[n].id = l.turn, NEW q, q = Ended(Shown(p))
  PROVE  Holds(q, b)
<1>1. PICK r : r = Shown(p)
  OBVIOUS
<1>2. ParserOK(p) /\ Holds(p, a) /\ TurnsHold(p, a) /\ TurnsApart(p)
  BY DEF Stands
<1>3. /\ ParserOK(r) /\ r.turns = p.turns /\ r.pending = p.pending
      /\ r.seen = p.seen + 1 /\ r.sent = p.sent
  BY <1>1, <1>2, ShownIs
<1>4. Ends(r, q, n)
  <2>1. r.turns # <<>> /\ n = Len(r.turns)
    BY <1>3
  <2>2. QED
    BY <1>1, <1>3, <2>1, EndedIs
<1>5. /\ ParserOK(q) /\ Len(q.turns) = Len(p.turns) /\ q.pending = p.pending
      /\ q.seen = p.seen + 1 /\ q.sent = p.sent
      /\ \A m \in DOMAIN p.turns : m # n => q.turns[m] = p.turns[m]
      /\ q.turns[n].id = p.turns[n].id /\ q.turns[n].steps = p.turns[n].steps
  BY <1>3, <1>4 DEF Ends, Keeps
<1>6. DOMAIN q.turns = DOMAIN p.turns /\ q.turns[n].ended = TRUE
  <2>1. DOMAIN q.turns = DOMAIN p.turns
    BY <1>2, <1>5, TurnsAreTurns
  <2>2. q.turns[n].ended = TRUE
    BY <1>4, Zenon DEF Ends
  <2>3. QED
    BY <2>1, <2>2, Zenon
<1>7. /\ l.step = NoStep /\ ~IsAnswer(l) /\ l.kind # "result" /\ l.kind # "usage" /\ ~IsOpening(l)
      /\ \A x : ~Counts(l, x)
  BY DEF AfterAll, IsAnswer, IsOpening, Counts
<1>8. {q.turns[m].id : m \in DOMAIN q.turns} = TurnsWritten(b)
  <2>1. TurnsWritten(b) = TurnsWritten(a)
    BY <1>7, TurnsMore
  <2>2. \A m \in DOMAIN p.turns : q.turns[m].id = p.turns[m].id
    BY <1>5
  <2>3. {p.turns[m].id : m \in DOMAIN p.turns} = TurnsWritten(a)
    BY <1>2 DEF Holds
  <2>4. QED
    BY <1>6, <2>1, <2>2, <2>3
<1>9. ASSUME NEW m \in DOMAIN p.turns, m # n
      PROVE  TurnAsWritten(b, q.turns[m])
  <2>1. ~IsWork(l, p.turns[m].id)
    BY <1>2, <1>9 DEF IsWork, TurnsApart
  <2>2. TurnAsWritten(b, p.turns[m])
    BY <1>7, <2>1, TurnAside
  <2>3. QED
    BY <1>5, <1>9, <2>2
<1>10. TurnAsWritten(b, q.turns[n])
  <2>1. PICK t, u : t = p.turns[n] /\ u = q.turns[n]
    OBVIOUS
  <2>2. t \in TurnRecs /\ TurnAsWritten(a, t) /\ StepsThere(a, t)
    BY <1>2, <2>1, TurnsAreTurns DEF TurnsHold
  <2>3. u.id = t.id /\ u.steps = t.steps /\ t.id = l.turn
    BY <1>5, <2>1
  <2>4. IsWork(l, t.id)
    BY <2>3 DEF IsWork
  <2>5. Works(b, t.id) # {} /\ WorkSteps(b, t.id) = WorkSteps(a, t.id)
    BY <1>7, <2>4, WorkStepsMore
  <2>6. EndedRightly(b, u)
    BY <1>6, <2>1, <2>3, <2>5, Zenon DEF EndedRightly
  <2>7. ASSUME NEW k \in DOMAIN t.steps PROVE StepAsWritten(b, u.steps[k])
    <3>1. StepAsWritten(a, t.steps[k]) /\ Answers(a, t.steps[k].id) # {}
      BY <2>2, TurnIs DEF StepsThere
    <3>2. Untouched(l, t.steps[k])
      BY <1>7 DEF Untouched, Result
    <3>3. QED
      BY <2>3, <3>1, <3>2, StepUntouched
  <2>8. TurnAsWritten(b, u)
    BY <2>2, <2>3, <2>5, <2>6, <2>7, TurnKeepsSteps
  <2>9. QED
    BY <2>1, <2>8
<1>11. AllWritten(q, b)
  BY <1>6, <1>9, <1>10 DEF AllWritten
<1>12. Contexts(q)
  <2>1. \A m \in DOMAIN p.turns : ShownAlike(p.turns[m], q.turns[m])
    BY <1>5 DEF ShownAlike
  <2>2. QED
    BY <1>2, <1>5, <2>1, ContextsSame DEF Holds
<1>13. q.seen = Cardinality(Items(b))
  <2>1. Cardinality(Items(b)) = Cardinality(Items(a)) + 1
    BY ItemsMore
  <2>2. QED
    BY <1>2, <1>5, <2>1 DEF Holds
<1>14. Awaited(q, b)
  <2>1. Names(b, "result") = Names(a, "result")
    BY <1>7, ResultsMore
  <2>2. \A m \in DOMAIN p.turns : q.turns[m].steps = p.turns[m].steps
    BY <1>5
  <2>3. \A c, m, k, j : IsCall(q, c, m, k, j) <=> IsCall(p, c, m, k, j)
    BY <1>6, <2>2 DEF IsCall
  <2>4. Awaited(p, a)
    BY <1>2 DEF Holds
  <2>5. QED
    BY <1>5, <2>1, <2>3, <2>4, AwaitedSame
<1>15. QED
  BY <1>8, <1>11, <1>12, <1>13, <1>14 DEF Holds

LEMMA GrownIs ==
  ASSUME NEW o, NEW l, NEW m, NEW c, c = Grown(o, l, m)
  PROVE  c.id = o.id /\ c.known = o.known /\ c.shown = o.shown
BY DEF Grown

\* What an answer says of the usage.
Counting(l) == IF format = "claude" THEN l.tokens ELSE 0

\* The step that takes an answer in, as it is and as the lines have it.
LEMMA StepAnswers ==
  ASSUME NEW a, NEW b, NEW l, Adds(a, b, l), AfterAll(a, l), NEW p, Stands(p, a), IsAnswer(l),
         NEW n, n \in DOMAIN p.turns, p.turns[n].id = l.turn, NEW q, NEW k, NEW o,
         NEW m, m = Counting(l), TakesIn(p, q, n, k, o, l, m)
  PROVE  /\ StepAsWritten(b, Grown(o, l, m)) /\ o.id = l.step
         /\ k \notin DOMAIN p.turns[n].steps => Answers(a, l.step) = {}
<1>1. PICK s, t : s = l.step /\ t = p.turns[n]
  OBVIOUS
<1>2. TurnAsWritten(a, t) /\ StepsThere(a, t) /\ t \in TurnRecs /\ p.seen = Cardinality(Items(a))
  BY <1>1, TurnsAreTurns DEF Stands, TurnsHold, Holds
<1>3. /\ s[1] = l.turn /\ o \in StepRecs
      /\ \A r \in DOMAIN a : ~Counts(a[r], s[1])
      /\ format = "claude" => l.tokens = Cardinality(Answers(a, s)) + 1
      /\ \A r \in DOMAIN a : l.kind = "call" => /\ a[r].kind = "call" => a[r].id < l.id
                                                /\ ~Result(a[r], l.id)
  BY <1>1 DEF AfterAll, TakesIn
<1>4. /\ o.id = s /\ StepSays(a, o) /\ o.shown = ShownBefore(b, s)
      /\ k \notin DOMAIN p.turns[n].steps => Answers(a, s) = {}
  <2>1. CASE At(p, n, k, s) /\ o = p.turns[n].steps[k]
    <3>1. k \in DOMAIN t.steps /\ o = t.steps[k] /\ o.id = s
      BY <1>1, <2>1 DEF At
    <3>2. StepAsWritten(a, o) /\ Answers(a, s) # {}
      BY <1>2, <3>1, TurnIs DEF StepsThere
    <3>3. StepSays(a, o) /\ o.shown = ShownBefore(a, s)
      BY <3>1, <3>2, StepIs
    <3>4. ShownBefore(b, s) = ShownBefore(a, s)
      BY <3>2, ShownStays
    <3>5. QED
      BY <1>1, <3>1, <3>3, <3>4
  <2>2. CASE /\ \A j \in DOMAIN p.turns[n].steps : p.turns[n].steps[j].id # s
             /\ o = Fresh(p, s)
    <3>1. Answers(a, s) = {}
      <4>1. ASSUME NEW i \in Answers(a, s) PROVE FALSE
        <5>1. i \in DOMAIN a /\ IsAnswer(a[i]) /\ a[i].step = s
          BY <4>1 DEF Answers, IsAnswer
        <5>2. \E j \in DOMAIN t.steps : t.steps[j].id = s
          <6>1. a[i].turn = t.id
            <7>1. a[i].step[1] = a[i].turn
              BY <5>1 DEF Stands, Stepped
            <7>2. QED
              BY <1>1, <1>3, <5>1, <7>1
          <6>2. QED
            BY <1>2, <5>1, <6>1 DEF StepsThere
        <5>3. QED
          BY <1>1, <2>2, <5>2
      <4>2. QED
        BY <4>1
    <3>2. StepSays(a, o)
      BY <1>3, <2>2, <3>1, FreshSays
    <3>3. ShownBefore(b, s) = Cardinality(Items(a))
      BY <1>1, <3>1, ShownFirst
    <3>4. o.id = s /\ o.shown = p.seen
      BY <2>2 DEF Fresh
    <3>5. QED
      BY <1>2, <3>1, <3>2, <3>3, <3>4
  <2>3. QED
    BY <1>1, <2>1, <2>2 DEF TakesIn
<1>5. PICK c : c = Grown(o, l, m)
  OBVIOUS
<1>6. StepAsWritten(b, c)
  BY <1>1, <1>3, <1>4, <1>5, StepTakesIn DEF Counting
<1>7. QED
  BY <1>1, <1>4, <1>5, <1>6
\* The model answers.
LEMMA HoldsAnswered ==
  ASSUME NEW a, NEW b, NEW l, Adds(a, b, l), AfterAll(a, l), NEW p, Stands(p, a), IsAnswer(l),
         NEW n, n = Len(p.turns), n \in DOMAIN p.turns, p.turns[n].id = l.turn,
         NEW q, NEW k, NEW o, NEW m, m = IF format = "claude" THEN l.tokens ELSE 0,
         TakesIn(p, q, n, k, o, l, m), q.turns[n].ended = TRUE
  PROVE  Holds(q, b)
<1>1. PICK c : c = Grown(o, l, m)
  OBVIOUS
<1>2. ParserOK(p) /\ Holds(p, a) /\ TurnsHold(p, a) /\ TurnsApart(p) /\ Contexts(p)
  BY DEF Stands, Holds
<1>3. /\ Puts(p, q, n, k, c) /\ q.seen = p.seen + 1 /\ o \in StepRecs
      /\ c.id = o.id /\ c.known = o.known /\ c.shown = o.shown
  BY <1>1, GrownIs DEF TakesIn
<1>4. /\ StepAsWritten(b, c) /\ c.id = l.step
      /\ k \notin DOMAIN p.turns[n].steps => Answers(a, l.step) = {}
  <2>1. /\ StepAsWritten(b, Grown(o, l, m)) /\ o.id = l.step
        /\ k \notin DOMAIN p.turns[n].steps => Answers(a, l.step) = {}
    <3>1. /\ Adds(a, b, l) /\ AfterAll(a, l) /\ Stands(p, a) /\ IsAnswer(l)
          /\ n \in DOMAIN p.turns /\ p.turns[n].id = l.turn /\ TakesIn(p, q, n, k, o, l, m)
      OBVIOUS
    <3>2. m = Counting(l)
      BY DEF Counting
    <3>3. QED
      BY ONLY <3>1, <3>2, StepAnswers
  <2>2. QED
    BY <1>1, <1>3, <2>1
<1>5. /\ ParserOK(q) /\ DOMAIN q.turns = DOMAIN p.turns /\ q.turns[n].id = p.turns[n].id
      /\ \A h \in DOMAIN p.turns : h # n => q.turns[h] = p.turns[h]
  BY <1>2, <1>3, TurnsAreTurns DEF Puts
<1>6. /\ ~IsOpening(l) /\ l.kind # "result" /\ l.kind # "usage" /\ l.step # NoStep
      /\ \A x : ~Counts(l, x)
      /\ \A x : ~Result(l, x)
      /\ l.kind \in {"prompt", "text", "call", "result"}
  BY DEF AfterAll, IsAnswer, IsOpening, Counts, Result
<1>7. {q.turns[h].id : h \in DOMAIN q.turns} = TurnsWritten(b)
  <2>1. TurnsWritten(b) = TurnsWritten(a)
    BY <1>6, TurnsMore
  <2>2. {p.turns[h].id : h \in DOMAIN p.turns} = TurnsWritten(a)
    BY <1>2 DEF Holds
  <2>3. \A h \in DOMAIN p.turns : q.turns[h].id = p.turns[h].id
    BY <1>5
  <2>4. QED
    BY <1>5, <2>1, <2>2, <2>3
<1>8. ASSUME NEW h \in DOMAIN p.turns, h # n
      PROVE  TurnAsWritten(b, q.turns[h])
  <2>1. ~IsWork(l, p.turns[h].id)
    BY <1>2, <1>8 DEF IsWork, TurnsApart
  <2>2. TurnAsWritten(b, p.turns[h])
    BY <1>6, <2>1, TurnAside
  <2>3. QED
    BY <1>5, <1>8, <2>2
<1>9. TurnAsWritten(b, q.turns[n])
  <2>1. PICK t, u : t = p.turns[n] /\ u = q.turns[n]
    OBVIOUS
  <2>2. t \in TurnRecs /\ TurnAsWritten(a, t) /\ StepsThere(a, t)
    BY <1>2, <2>1, TurnsAreTurns DEF TurnsHold
  <2>3. /\ u.id = t.id /\ t.id = l.turn /\ u.steps[k] = c
        /\ DOMAIN u.steps = DOMAIN t.steps \union {k}
        /\ \A j \in DOMAIN t.steps : j # k => u.steps[j] = t.steps[j]
    BY <1>3, <1>5, <2>1 DEF Puts
  <2>4. IsWork(l, t.id)
    BY <2>3 DEF IsWork
  <2>5. EndedRightly(b, u)
    <3>1. Works(b, t.id) # {}
      BY <2>4, WorkStepsMore
    <3>2. u.ended = TRUE
      BY <2>1, Zenon
    <3>3. QED
      BY <2>3, <3>1, <3>2, Zenon DEF EndedRightly
  <2>6. CASE k \in DOMAIN t.steps
    <3>1. t.steps[k].id = l.step
      <4>1. k # Len(t.steps) + 1
        BY <2>2, <2>6, TurnSteps
      <4>2. QED
        BY <2>1, <4>1 DEF TakesIn, At
    <3>2. WorkSteps(b, t.id) = WorkSteps(a, t.id)
      <4>1. WorkSteps(b, t.id) = WorkSteps(a, t.id) \union {l.step}
        BY <1>6, <2>4, WorkStepsMore
      <4>2. {t.steps[j].id : j \in DOMAIN t.steps} = WorkSteps(a, t.id)
        BY <2>2, TurnIs
      <4>3. l.step \in WorkSteps(a, t.id)
        BY <2>6, <3>1, <4>2
      <4>4. QED
        BY <4>1, <4>3
    <3>4. ASSUME NEW j \in DOMAIN t.steps, j # k
          PROVE  u.steps[j] = t.steps[j] /\ Untouched(l, t.steps[j])
      <4>1. t.steps[j].id # l.step
        BY <2>2, <2>6, <3>1, <3>4 DEF StepsThere, DistinctSteps
      <4>2. QED
        BY <1>6, <2>3, <3>4, <4>1 DEF Untouched
    <3>5. DOMAIN u.steps = DOMAIN t.steps
      BY <2>3, <2>6
    <3>6. u.steps[k].id = t.steps[k].id /\ StepAsWritten(b, u.steps[k])
      BY <1>4, <2>3, <3>1
    <3>7. TurnAsWritten(b, u)
      <4>1. Adds(a, b, l)
        OBVIOUS
      <4>2. QED
        BY ONLY <2>2, <2>3, <2>5, <2>6, <3>2, <3>4, <3>5, <3>6, <4>1, TurnWithStep
    <3>8. QED
      BY <2>1, <3>7
  <2>7. CASE k \notin DOMAIN t.steps
    <3>1. k = Len(t.steps) + 1
      BY <2>1, <2>7 DEF TakesIn, At
    <3>2. Answers(a, l.step) = {}
      BY <1>4, <2>1, <2>7
    <3>3. u.steps[k].id = l.step /\ StepAsWritten(b, u.steps[k])
      BY <1>4, <2>3
    <3>4. \A j \in DOMAIN t.steps : u.steps[j] = t.steps[j]
      BY <2>3, <2>7
    <3>5. TurnAsWritten(b, u)
      <4>1. Adds(a, b, l) /\ IsAnswer(l) /\ l.turn = t.id /\ l.step # NoStep
        BY <1>6, <2>3
      <4>2. DOMAIN u.steps = DOMAIN t.steps \union {k} /\ u.id = t.id
        BY <2>3
      <4>3. QED
        BY ONLY <2>2, <2>5, <3>1, <3>2, <3>3, <3>4, <4>1, <4>2, TurnWithMore
    <3>6. QED
      BY <2>1, <3>5
  <2>8. QED
    BY <2>6, <2>7
<1>10. AllWritten(q, b)
  BY <1>5, <1>8, <1>9 DEF AllWritten
<1>11. Contexts(q)
  <2>1. CASE At(p, n, k, l.step) /\ o = p.turns[n].steps[k] /\ q.sent = p.sent
    <3>1. ASSUME NEW h \in DOMAIN p.turns PROVE ShownAlike(p.turns[h], q.turns[h])
      <4>1. CASE h # n
        BY <1>5, <4>1 DEF ShownAlike
      <4>2. CASE h = n
        <5>1. /\ DOMAIN q.turns[n].steps = DOMAIN p.turns[n].steps \union {k}
              /\ k \in DOMAIN p.turns[n].steps /\ q.turns[n].steps[k] = c
              /\ \A j \in DOMAIN p.turns[n].steps :
                   j # k => q.turns[n].steps[j] = p.turns[n].steps[j]
          BY <1>3, <2>1 DEF Puts, At
        <5>2. QED
          BY <1>3, <2>1, <4>2, <5>1 DEF ShownAlike
      <4>3. QED
        BY <4>1, <4>2
    <3>2. Len(q.turns) = Len(p.turns)
      BY <1>3 DEF Puts
    <3>3. QED
      BY <1>2, <1>5, <2>1, <3>1, <3>2, ContextsSame
  <2>2. CASE k = Len(p.turns[n].steps) + 1 /\ o = Fresh(p, l.step) /\ q.sent = p.seen
    <3>1. c.known = p.sent /\ c.shown = q.sent
      BY <1>3, <2>2 DEF Fresh
    <3>2. QED
      BY <1>2, <1>3, <2>2, <3>1, ContextsMore
  <2>3. QED
    BY <2>1, <2>2 DEF TakesIn
<1>12. q.seen = Cardinality(Items(b))
  <2>1. Cardinality(Items(b)) = Cardinality(Items(a)) + 1
    BY <1>6, ItemsMore
  <2>2. QED
    BY <1>2, <1>3, <2>1 DEF Holds
<1>13. Awaited(q, b)
  <2>1. Names(b, "result") = Names(a, "result") /\ Awaited(p, a)
    BY <1>2, <1>6, ResultsMore DEF Holds
  <2>2. CASE l.kind = "call"
    <3>1. PICK w, h : w = Wait(l.id, n, k, h) /\ h = Len(o.calls) + 1
      OBVIOUS
    <3>2. q.pending = p.pending \union {w}
      BY <2>2, <3>1 DEF TakesIn, NextWait
    <3>3. l.id \notin Names(a, "result")
      BY <2>2 DEF AfterAll, Names, Of, Result
    <3>4. \A d, g, i, j : IsCall(q, d, g, i, j)
            <=> IsCall(p, d, g, i, j) \/ (d = l.id /\ g = n /\ i = k /\ j = h)
      BY <1>2, <2>2, <3>1, IsCallMore
    <3>5. QED
      BY <2>1, <3>1, <3>2, <3>3, <3>4, AwaitedMore
  <2>3. CASE l.kind # "call"
    <3>1. q.pending = p.pending
      BY <2>3 DEF TakesIn
    <3>2. \A d, g, i, j : IsCall(q, d, g, i, j) <=> IsCall(p, d, g, i, j)
      BY <1>2, <2>3, IsCallMore
    <3>3. QED
      BY <2>1, <3>1, <3>2, AwaitedSame
  <2>4. QED
    BY <2>2, <2>3
<1>14. QED
  BY <1>7, <1>10, <1>11, <1>12, <1>13 DEF Holds

\* A result is that of a call of the turn in flight, which is awaited, and of no other.
LEMMA ResultAwaited ==
  ASSUME NEW a, a \in Seq(LineRecs), NEW l, AfterAll(a, l), l.kind = "result", NEW p, Stands(p, a),
         NEW n, n \in DOMAIN p.turns, p.turns[n].id = l.turn
  PROVE  \E k, j, w : /\ IsCall(p, l.id, n, k, j) /\ w = Wait(l.id, n, k, j) /\ w \in p.pending
                      /\ \A v \in p.pending : v.id = l.id <=> v = w
<1>1. PICK t : t = p.turns[n]
  OBVIOUS
<1>2. TurnAsWritten(a, t) /\ StepsThere(a, t) /\ Awaited(p, a) /\ ParserOK(p)
  BY <1>1 DEF Stands, TurnsHold, Holds
<1>3. PICK r \in DOMAIN a : a[r].kind = "call" /\ a[r].id = l.id /\ a[r].turn = l.turn
  BY DEF AfterAll
<1>4. PICK k \in DOMAIN t.steps : t.steps[k].id = a[r].step
  BY <1>1, <1>2, <1>3 DEF StepsThere, IsAnswer
<1>5. StepAsWritten(a, t.steps[k])
  BY <1>2, TurnIs
<1>6. PICK j \in DOMAIN t.steps[k].calls : t.steps[k].calls[j].id = l.id
  BY <1>3, <1>4, <1>5, LineIsCall
<1>7. IsCall(p, l.id, n, k, j)
  BY <1>1, <1>4, <1>6 DEF IsCall
<1>8. PICK w : w = Wait(l.id, n, k, j)
  OBVIOUS
<1>9. l.id \notin Names(a, "result")
  BY DEF AfterAll, Names, Of, Result
<1>10. w \in p.pending /\ w.id = l.id
  BY <1>2, <1>7, <1>8, <1>9, WaitIs DEF Awaited
<1>11. ASSUME NEW v \in p.pending, v.id = l.id
       PROVE  v = w
  <2>1. PICK c, m, i, h : IsCall(p, c, m, i, h) /\ v = Wait(c, m, i, h)
    BY <1>2 DEF Awaited
  <2>2. c = l.id
    BY <1>11, <2>1, WaitIs
  <2>3. m = n /\ i = k /\ h = j
    <3>1. CallsApart(a) /\ TurnsHold(p, a) /\ TurnsApart(p)
      BY DEF Stands
    <3>2. IsCall(p, l.id, m, i, h)
      BY <2>1, <2>2
    <3>3. QED
      BY <1>2, <1>7, <3>1, <3>2, CallOnce
  <2>4. QED
    BY <1>8, <2>1, <2>2, <2>3
<1>12. QED
  BY <1>7, <1>8, <1>10, <1>11

\* A turn with a step has been worked on.
LEMMA StepsAreWork ==
  ASSUME NEW a, NEW t, StepsThere(a, t), TurnAsWritten(a, t), NEW k, k \in DOMAIN t.steps
  PROVE  Works(a, t.id) # {} /\ t.ended = TRUE
<1>1. PICK i \in DOMAIN a : IsAnswer(a[i]) /\ a[i].turn = t.id
  BY DEF StepsThere
<1>2. i \in Works(a, t.id)
  BY <1>1 DEF Works, IsAnswer
<1>3. EndedRightly(a, t)
  BY TurnIs
<1>4. t.ended = TRUE
  BY <1>2, <1>3, Zenon DEF EndedRightly
<1>5. QED
  BY <1>2, <1>4, Zenon

\* One step of the turn in flight, n, changes, and no call is made.
LEMMA HoldsChanged ==
  ASSUME NEW a, NEW b, NEW l, Adds(a, b, l), AfterAll(a, l), NEW p, Stands(p, a),
         NEW n, n \in DOMAIN p.turns, NEW k, k \in DOMAIN p.turns[n].steps,
         NEW o, o = p.turns[n].steps[k], NEW q, NEW c, Puts(p, q, n, k, c), q.turns[n].ended = TRUE,
         ~IsAnswer(l), l.step = NoStep \/ ~IsWork(l, p.turns[n].id), ~IsOpening(l),
         c.id = o.id, c.known = o.known, c.shown = o.shown, q.sent = p.sent,
         \A m \in DOMAIN p.turns : m # n => TurnAsWritten(b, p.turns[m]),
         \A j \in DOMAIN p.turns[n].steps : j # k => Untouched(l, p.turns[n].steps[j]),
         StepAsWritten(b, c), q.seen = Cardinality(Items(b)), Awaited(q, b)
  PROVE  Holds(q, b)
<1>1. ParserOK(p) /\ Holds(p, a) /\ TurnsHold(p, a) /\ Contexts(p)
  BY DEF Stands, Holds
<1>2. PICK t, u : t = p.turns[n] /\ u = q.turns[n]
  OBVIOUS
<1>3. /\ ParserOK(q) /\ Len(q.turns) = Len(p.turns) /\ DOMAIN q.turns = DOMAIN p.turns
      /\ \A m \in DOMAIN p.turns : m # n => q.turns[m] = p.turns[m]
      /\ u.id = t.id /\ u.steps[k] = c /\ DOMAIN u.steps = DOMAIN t.steps
      /\ \A j \in DOMAIN t.steps : j # k => u.steps[j] = t.steps[j]
  <2>1. /\ ParserOK(q) /\ Len(q.turns) = Len(p.turns)
        /\ \A m \in DOMAIN p.turns : m # n => q.turns[m] = p.turns[m]
        /\ u.id = t.id /\ u.steps[k] = c /\ DOMAIN u.steps = DOMAIN t.steps \union {k}
        /\ \A j \in DOMAIN t.steps : j # k => u.steps[j] = t.steps[j]
    BY <1>2 DEF Puts
  <2>2. DOMAIN q.turns = DOMAIN p.turns
    BY <1>1, <2>1, TurnsAreTurns
  <2>3. k \in DOMAIN t.steps
    BY <1>2
  <2>4. QED
    BY <2>1, <2>2, <2>3
<1>4. {q.turns[m].id : m \in DOMAIN q.turns} = TurnsWritten(b)
  <2>1. TurnsWritten(b) = TurnsWritten(a)
    BY TurnsMore
  <2>2. {p.turns[m].id : m \in DOMAIN p.turns} = TurnsWritten(a)
    BY <1>1 DEF Holds
  <2>3. \A m \in DOMAIN p.turns : q.turns[m].id = p.turns[m].id
    BY <1>2, <1>3
  <2>4. QED
    BY <1>3, <2>1, <2>2, <2>3
<1>5. t \in TurnRecs /\ TurnAsWritten(a, t) /\ StepsThere(a, t) /\ k \in DOMAIN t.steps
  BY <1>1, <1>2, TurnsAreTurns DEF TurnsHold
<1>6. WorkSteps(b, t.id) = WorkSteps(a, t.id) /\ EndedRightly(b, u)
  <2>1. WorkSteps(b, t.id) = WorkSteps(a, t.id)
    BY <1>2, WorkStepsMore
  <2>2. Works(a, t.id) # {}
    BY <1>5, StepsAreWork
  <2>3. Works(b, t.id) # {}
    BY <2>2, WorkStepsMore
  <2>4. u.ended = TRUE
    BY <1>2, Zenon
  <2>5. EndedRightly(b, u)
    BY <1>3, <2>3, <2>4, Zenon DEF EndedRightly
  <2>6. QED
    BY <2>1, <2>5
<1>7. TurnAsWritten(b, u)
  <2>1. Adds(a, b, l)
    OBVIOUS
  <2>2. u.id = t.id /\ DOMAIN u.steps = DOMAIN t.steps
    BY <1>3
  <2>3. u.steps[k].id = t.steps[k].id /\ StepAsWritten(b, u.steps[k])
    BY <1>2, <1>3
  <2>4. \A j \in DOMAIN t.steps : j # k => u.steps[j] = t.steps[j] /\ Untouched(l, t.steps[j])
    BY <1>2, <1>3
  <2>5. QED
    BY ONLY <1>5, <1>6, <2>1, <2>2, <2>3, <2>4, TurnWithStep
<1>8. AllWritten(q, b)
  BY <1>2, <1>3, <1>7 DEF AllWritten
<1>9. Contexts(q)
  <2>1. ASSUME NEW m \in DOMAIN p.turns PROVE ShownAlike(p.turns[m], q.turns[m])
    <3>1. CASE m # n
      BY <1>3, <3>1 DEF ShownAlike
    <3>2. CASE m = n
      BY <1>2, <1>3, <3>2 DEF ShownAlike
    <3>3. QED
      BY <3>1, <3>2
  <2>2. QED
    BY <1>1, <1>3, <2>1, ContextsSame
<1>10. QED
  BY <1>4, <1>8, <1>9 DEF Holds

\* A result is read.
LEMMA HoldsReturned ==
  ASSUME NEW a, NEW b, NEW l, Adds(a, b, l), AfterAll(a, l), NEW p, Stands(p, a), WaitsOK(p),
         l.kind = "result", NEW n, n = Len(p.turns), n \in DOMAIN p.turns, p.turns[n].id = l.turn,
         NEW r, r = Returned(p, l.id), NEW q, q = r \/ q = Ended(r)
  PROVE  Holds(q, b)
<1>1. ParserOK(p) /\ Holds(p, a) /\ Awaited(p, a) /\ a \in Seq(LineRecs)
  BY DEF Stands, Holds, Adds
<1>2. PICK k, j, w : /\ IsCall(p, l.id, n, k, j) /\ w = Wait(l.id, n, k, j) /\ w \in p.pending
                     /\ \A v \in p.pending : v.id = l.id <=> v = w
  BY <1>1, ResultAwaited
<1>3. PICK o : o = p.turns[n].steps[k]
  OBVIOUS
<1>4. k \in DOMAIN p.turns[n].steps /\ j \in DOMAIN o.calls /\ o.calls[j].id = l.id
  BY <1>2, <1>3 DEF IsCall
<1>5. w.id = l.id /\ w.turn = n /\ w.step = k /\ w.call = j /\ w.room = Capacity(j)
  BY <1>2, WaitIs
<1>6. GoesBack(p, r, n, k, j, w, o)
  BY <1>1, <1>2, <1>3, <1>4, <1>5, ReturnedPuts
<1>7. PICK c, kept : /\ kept = (w.room = Capacity(Len(o.calls)))
                     /\ Returns(o, c, j, kept) /\ Puts(p, r, n, k, c)
  BY <1>6 DEF GoesBack
<1>8. r.pending = p.pending \ {w} /\ r.seen = p.seen + 1 /\ r.sent = p.sent
  BY <1>6 DEF GoesBack
<1>9. PICK t : t = p.turns[n]
  OBVIOUS
<1>10. /\ TurnAsWritten(a, t) /\ StepsThere(a, t) /\ k \in DOMAIN t.steps /\ o = t.steps[k]
       /\ t \in TurnRecs
  BY <1>1, <1>3, <1>4, <1>9, TurnsAreTurns DEF Stands, TurnsHold
<1>11. /\ Puts(p, q, n, k, c) /\ q.turns[n].ended = TRUE
       /\ q.pending = p.pending \ {w} /\ q.seen = p.seen + 1 /\ q.sent = p.sent
  <2>1. CASE q = r
    <3>1. t.ended = TRUE
      BY <1>10, StepsAreWork
    <3>2. r.turns[n].ended = t.ended
      BY <1>6, <1>9, Zenon DEF GoesBack
    <3>3. q.turns[n].ended = TRUE
      BY <2>1, <3>1, <3>2, Zenon
    <3>4. QED
      BY <1>7, <1>8, <2>1, <3>3, Zenon
  <2>2. CASE q = Ended(r)
    <3>1. Puts(p, q, n, k, c) /\ Keeps(r, q) /\ q.turns[n].ended = TRUE
      BY <1>1, <1>7, <2>2, EndedPuts
    <3>2. q.pending = r.pending /\ q.seen = r.seen /\ q.sent = r.sent
      BY <3>1 DEF Keeps
    <3>3. QED
      BY <1>8, <3>1, <3>2, Zenon
  <2>3. QED
    BY <2>1, <2>2
<1>12. /\ c.id = o.id /\ c.known = o.known /\ c.shown = o.shown /\ Len(c.calls) = Len(o.calls)
       /\ \A i \in DOMAIN o.calls : c.calls[i].id = o.calls[i].id
       /\ c \in StepRecs /\ o \in StepRecs
  BY <1>7, <1>10, TurnSteps DEF Returns
<1>13. DOMAIN c.calls = DOMAIN o.calls
  <2>1. PICK is, was : is = c.calls /\ was = o.calls
    OBVIOUS
  <2>2. is \in Seq(CallRecs) /\ was \in Seq(CallRecs) /\ Len(is) = Len(was)
    BY <1>12, <2>1 DEF StepRecs
  <2>3. DOMAIN is = DOMAIN was
    BY ONLY <2>2
  <2>4. QED
    BY <2>1, <2>3
<1>14. /\ ~IsAnswer(l) /\ ~IsWork(l, p.turns[n].id) /\ ~IsOpening(l) /\ \A x : ~Counts(l, x)
       /\ \A m \in DOMAIN p.turns : ~IsWork(l, p.turns[m].id)
  BY DEF IsAnswer, IsWork, IsOpening, Counts
<1>15. \A m, i, h : IsCall(p, l.id, m, i, h) => m = n /\ i = k /\ h = j
  <2>1. CallsApart(a) /\ TurnsHold(p, a) /\ TurnsApart(p)
    BY DEF Stands
  <2>2. QED
    BY <1>1, <1>2, <2>1, CallOnce
<1>16. \A m \in DOMAIN p.turns : m # n => TurnAsWritten(b, p.turns[m])
  <2>1. ASSUME NEW m \in DOMAIN p.turns, m # n
        PROVE  TurnAsWritten(b, p.turns[m])
    <3>1. \A i, h : ~IsCall(p, l.id, m, i, h)
      BY <1>15, <2>1
    <3>2. QED
      BY <1>14, <3>1, TurnAside
  <2>2. QED
    BY <2>1
<1>17. ASSUME NEW i \in DOMAIN p.turns[n].steps, i # k
       PROVE  Untouched(l, p.turns[n].steps[i])
  <2>1. \A h \in DOMAIN t.steps[i].calls : ~Result(l, t.steps[i].calls[h].id)
    BY <1>9, <1>15, <1>17 DEF IsCall, Result
  <2>2. QED
    BY <1>9, <1>14, <2>1 DEF Untouched
<1>18. StepAsWritten(b, c)
  <2>1. /\ StepAsWritten(a, o) /\ Answers(a, o.id) # {}
        /\ Result(l, o.calls[j].id) /\ \A x \in DOMAIN a : ~Result(a[x], l.id)
        /\ Adds(a, b, l) /\ o \in StepRecs /\ j \in DOMAIN o.calls
    BY <1>4, <1>10, <1>12, TurnIs DEF StepsThere, Result, AfterAll
  <2>2. kept = (Capacity(j) = Capacity(Len(o.calls)))
    BY <1>5, <1>7, Zenon
  <2>3. Returns(o, c, j, kept)
    BY <1>7
  <2>4. QED
    BY ONLY <2>1, <2>2, <2>3, StepReturned
<1>19. q.seen = Cardinality(Items(b))
  <2>1. Cardinality(Items(b)) = Cardinality(Items(a)) + 1
    BY ItemsMore
  <2>2. QED
    BY <1>1, <1>11, <2>1 DEF Holds
<1>20. Awaited(q, b)
  <2>1. Names(b, "result") = Names(a, "result") \union {l.id}
    BY ResultsMore
  <2>2. \A d, m, i, h : IsCall(q, d, m, i, h) <=> IsCall(p, d, m, i, h)
    <3>1. /\ Puts(p, q, n, k, c) /\ ParserOK(p) /\ n \in DOMAIN p.turns
          /\ k \in DOMAIN p.turns[n].steps /\ o = p.turns[n].steps[k]
          /\ DOMAIN c.calls = DOMAIN o.calls
          /\ \A h \in DOMAIN o.calls : c.calls[h].id = o.calls[h].id
      BY <1>1, <1>3, <1>4, <1>11, <1>12, <1>13
    <3>2. QED
      BY ONLY <3>1, IsCallStays
  <2>3. PICK d : d = l.id
    OBVIOUS
  <2>4. /\ \A x : x \in Names(b, "result") <=> x \in Names(a, "result") \/ x = d
        /\ Awaited(p, a)
        /\ w.id = d /\ \A v \in p.pending : v.id = d => v = w
        /\ q.pending = p.pending \ {w}
    BY <1>1, <1>2, <1>5, <1>11, <2>1, <2>3
  <2>5. QED
    BY ONLY <2>2, <2>4, AwaitedLess
<1>21. QED
  <2>1. /\ Adds(a, b, l) /\ AfterAll(a, l) /\ Stands(p, a) /\ n \in DOMAIN p.turns
        /\ k \in DOMAIN p.turns[n].steps /\ Puts(p, q, n, k, c) /\ ~IsAnswer(l)
        /\ l.step = NoStep \/ ~IsWork(l, p.turns[n].id)
        /\ ~IsOpening(l) /\ c.id = o.id /\ c.known = o.known /\ c.shown = o.shown
        /\ q.sent = p.sent /\ StepAsWritten(b, c)
    BY <1>4, <1>11, <1>12, <1>14, <1>18
  <2>2. q.turns[n].ended = TRUE
    BY <1>11, Zenon
  <2>3. \A i \in DOMAIN p.turns[n].steps : i # k => Untouched(l, p.turns[n].steps[i])
    BY <1>17
  <2>4. QED
    BY ONLY <1>3, <1>16, <1>19, <1>20, <2>1, <2>2, <2>3, HoldsChanged

\* Codex counts the turn's usage.
LEMMA HoldsCounted ==
  ASSUME NEW a, NEW b, NEW l, Adds(a, b, l), AfterAll(a, l), NEW p, Stands(p, a),
         l.kind = "usage", NEW n, n = Len(p.turns), n \in DOMAIN p.turns, p.turns[n].id = l.turn,
         p.turns[n].steps # <<>>, NEW q, q = UsageIs(p, l.tokens)
  PROVE  Holds(q, b)
<1>1. PICK t, k : t = p.turns[n] /\ k = Len(t.steps)
  OBVIOUS
<1>2. PICK o, u : o = t.steps[k] /\ u = l.tokens
  OBVIOUS
<1>3. ParserOK(p) /\ Holds(p, a) /\ TurnsApart(p) /\ a \in Seq(LineRecs) /\ u \in Nat
  BY <1>2 DEF Stands, Adds, LineRecs
<1>4. /\ TurnAsWritten(a, t) /\ StepsThere(a, t) /\ t \in TurnRecs
  BY <1>1, <1>3, TurnsAreTurns DEF Stands, TurnsHold
<1>5. k \in DOMAIN t.steps /\ o \in StepRecs
  <2>1. PICK s : s = t.steps
    OBVIOUS
  <2>2. s \in Seq(StepRecs) /\ s # <<>> /\ k = Len(s)
    BY <1>1, <1>4, <2>1, TurnSteps
  <2>3. k \in DOMAIN s /\ s[k] \in StepRecs
    BY ONLY <2>2
  <2>4. QED
    BY <1>2, <2>1, <2>3
<1>6. PICK c : c = [o EXCEPT !.usage = u]
  OBVIOUS
<1>7. c \in StepRecs /\ c.id = o.id /\ c.known = o.known /\ c.shown = o.shown /\ c.calls = o.calls
  BY ONLY <1>3, <1>5, <1>6 DEF StepRecs
<1>8. q = WithStep(p, n, k, c)
  <2>1. Current(p) = t
    BY <1>1 DEF Current, Last
  <2>2. QED
    BY <1>1, <1>2, <1>6, <2>1 DEF UsageIs
<1>9. Puts(p, q, n, k, c) /\ Keeps(p, q) /\ q.turns[n].ended = p.turns[n].ended
  <2>1. n \in DOMAIN p.turns /\ k \in DOMAIN p.turns[n].steps
    BY <1>1, <1>5
  <2>2. QED
    BY ONLY <1>3, <1>7, <1>8, <2>1, WithStepPuts
<1>10. q.turns[n].ended = TRUE
  <2>1. t.ended = TRUE
    BY <1>4, <1>5, StepsAreWork
  <2>2. QED
    BY <1>1, <1>9, <2>1, Zenon
<1>11. q.pending = p.pending /\ q.seen = p.seen /\ q.sent = p.sent
  BY <1>9 DEF Keeps
<1>12. /\ ~IsAnswer(l) /\ ~IsOpening(l) /\ l.kind # "result" /\ format # "claude"
       /\ \A m \in DOMAIN p.turns : ~IsWork(l, p.turns[m].id)
       /\ \A x : ~Result(l, x)
  BY DEF AfterAll, IsAnswer, IsOpening, IsWork, Result
<1>13. o.id = <<l.turn, 0>> /\ o.id[1] = l.turn /\ Answers(a, o.id) # {}
  <2>1. t.id = l.turn
    BY <1>1
  <2>2. QED
    BY <1>2, <1>4, <1>5, <1>12, <2>1 DEF StepsThere
<1>14. StepAsWritten(b, c)
  <2>1. Counts(l, o.id[1]) /\ l.tokens = Cardinality(Texts(a, o.id))
    BY <1>13 DEF Counts, AfterAll
  <2>2. StepAsWritten(a, o)
    BY <1>2, <1>4, <1>5, TurnIs
  <2>3. QED
    BY <1>2, <1>5, <1>6, <1>12, <1>13, <2>1, <2>2, StepCounted
<1>15. ASSUME NEW m \in DOMAIN p.turns, m # n
       PROVE  TurnAsWritten(b, p.turns[m])
  <2>1. ~Counts(l, p.turns[m].id)
    BY <1>3, <1>15 DEF Counts, TurnsApart
  <2>2. QED
    BY <1>12, <2>1, TurnAside
<1>16. \A i \in DOMAIN t.steps : i = k
  BY <1>2, <1>4, <1>5, <1>12 DEF StepsThere, DistinctSteps
<1>17. q.seen = Cardinality(Items(b))
  <2>1. Items(b) = Items(a)
    BY ItemsMore
  <2>2. QED
    BY <1>3, <1>11, <2>1 DEF Holds
<1>18. Awaited(q, b)
  <2>1. \A d, m, i, h : IsCall(q, d, m, i, h) <=> IsCall(p, d, m, i, h)
    BY <1>1, <1>2, <1>3, <1>5, <1>7, <1>9, IsCallStays
  <2>2. Names(b, "result") = Names(a, "result") /\ Awaited(p, a)
    BY <1>3, <1>12, ResultsMore DEF Holds
  <2>3. QED
    BY <1>11, <2>1, <2>2, AwaitedSame
<1>19. QED
  <2>1. /\ Adds(a, b, l) /\ AfterAll(a, l) /\ Stands(p, a) /\ n \in DOMAIN p.turns
        /\ k \in DOMAIN p.turns[n].steps /\ Puts(p, q, n, k, c) /\ ~IsAnswer(l)
        /\ l.step = NoStep \/ ~IsWork(l, p.turns[n].id)
        /\ ~IsOpening(l) /\ c.id = o.id /\ c.known = o.known /\ c.shown = o.shown
        /\ q.sent = p.sent /\ StepAsWritten(b, c) /\ o = p.turns[n].steps[k]
    BY <1>1, <1>2, <1>5, <1>7, <1>9, <1>11, <1>12, <1>14
  <2>2. q.turns[n].ended = TRUE
    BY <1>10, Zenon
  <2>3. \A i \in DOMAIN p.turns[n].steps : i # k => Untouched(l, p.turns[n].steps[i])
    BY <1>1, <1>16
  <2>4. \A m \in DOMAIN p.turns : m # n => TurnAsWritten(b, p.turns[m])
    BY <1>15
  <2>5. QED
    BY ONLY <1>17, <1>18, <2>1, <2>2, <2>3, <2>4, HoldsChanged

-----------------------------------------------------------------------------
(* A line read is a line held. *)

\* The line finds the turn that it is about in flight, or is the first of it.
InPlace(a, l, p) ==
  /\ GoesOn(l, format) => p.turns # <<>> /\ p.turns[Len(p.turns)].id = l.turn
  /\ ~GoesOn(l, format) /\ l.turn # NoTurn =>
       \/ \A r \in DOMAIN a : a[r].turn # l.turn
       \/ l.kind = "context" /\ p.turns # <<>> /\ p.turns[Len(p.turns)].id = l.turn

LEMMA LastTurn ==
  ASSUME NEW p, ParserOK(p), p.turns # <<>>
  PROVE  Len(p.turns) \in DOMAIN p.turns /\ Current(p) = p.turns[Len(p.turns)]
BY StepIsStep

\* An answer, of either CLI.
LEMMA HoldsAnswer ==
  ASSUME NEW a, NEW b, NEW l, Adds(a, b, l), AfterAll(a, l), NEW p, Stands(p, a), IsAnswer(l),
         InPlace(a, l, p), NEW claude, claude = (format = "claude"), NEW q,
         q = Ended(IF claude THEN UsageAtLeast(Answered(p, l, l.step), l.step, l.tokens)
                   ELSE Answered(p, l, l.step))
  PROVE  Holds(q, b)
<1>1. PICK n, m : n = Len(p.turns) /\ m = IF claude THEN l.tokens ELSE 0
  OBVIOUS
<1>2. ParserOK(p) /\ TurnsHold(p, a) /\ l \in LineRecs /\ l.kind \in {"text", "call"}
  BY DEF Stands, Adds, IsAnswer
<1>3. p.turns # <<>> /\ n \in DOMAIN p.turns /\ p.turns[n].id = l.turn
  <2>1. p.turns # <<>> /\ p.turns[n].id = l.turn
    BY <1>1 DEF InPlace, GoesOn, IsAnswer
  <2>2. QED
    BY <1>1, <1>2, <2>1, LastTurn
<1>4. DistinctSteps(p.turns[n])
  BY <1>2, <1>3 DEF TurnsHold, StepsThere
<1>5. claude \in BOOLEAN
  BY ONLY claude = (format = "claude"), Zenon
<1>6. q.turns[n].ended = TRUE /\ \E k, o : TakesIn(p, q, n, k, o, l, m)
  BY ONLY <1>1, <1>2, <1>3, <1>4, <1>5, AnswerPuts,
          q = Ended(IF claude THEN UsageAtLeast(Answered(p, l, l.step), l.step, l.tokens)
                    ELSE Answered(p, l, l.step))
<1>7. PICK k, o : TakesIn(p, q, n, k, o, l, m)
  BY <1>6
<1>8. m = IF format = "claude" THEN l.tokens ELSE 0
  BY <1>1
<1>9. q.turns[n].ended = TRUE
  BY <1>6, Zenon
<1>10. QED
  BY <1>1, <1>3, <1>7, <1>8, <1>9, HoldsAnswered

LEMMA HoldsPrompt ==
  ASSUME NEW a, NEW b, NEW l, Adds(a, b, l), AfterAll(a, l), NEW p, Stands(p, a), InPlace(a, l, p),
         l.kind = "prompt", format # "codex", NEW q, q = Opened(Shown(p), l.turn)
  PROVE  Holds(q, b)
<1>1. PICK r : r = Shown(p)
  OBVIOUS
<1>2. ParserOK(p) /\ l.turn \in Nat /\ l.turn # NoTurn
  BY DEF Stands, AfterAll, Fits, LineRecs
<1>3. /\ ParserOK(r) /\ r.turns = p.turns /\ r.pending = p.pending
      /\ r.seen = p.seen + 1 /\ r.sent = p.sent
  BY <1>1, <1>2, ShownIs
<1>4. Opens(p, q, l.turn) /\ q.sent = p.sent /\ q.seen = p.seen + 1
  BY <1>1, <1>2, <1>3, OpenedOpens
<1>5. IsOpening(l) /\ ~GoesOn(l, format)
  BY DEF IsOpening, GoesOn
<1>6. \A x \in DOMAIN a : a[x].turn # l.turn
  BY <1>2, <1>5 DEF InPlace
<1>7. q.seen = p.seen + IF l.kind = "prompt" THEN 1 ELSE 0
  BY <1>4
<1>8. QED
  BY <1>4, <1>5, <1>6, <1>7, HoldsOpened

LEMMA HoldsClaude ==
  ASSUME NEW a, NEW b, NEW l, Adds(a, b, l), AfterAll(a, l), NEW p, Stands(p, a), WaitsOK(p),
         InPlace(a, l, p), format = "claude", NEW q, q = ClaudeLine(p, l)
  PROVE  Holds(q, b)
<1>1. l.kind \in {"prompt", "text", "call", "result"} /\ ParserOK(p)
  BY DEF AfterAll, Fits, LineRecs, Kinds, Stands
<1>2. CASE l.kind = "prompt"
  <2>1. q = Opened(Shown(p), l.turn)
    BY <1>2 DEF ClaudeLine
  <2>2. QED
    BY <1>2, <2>1, HoldsPrompt
<1>3. CASE l.kind = "result"
  <2>1. p.turns # <<>> /\ p.turns[Len(p.turns)].id = l.turn
    BY <1>3 DEF InPlace, GoesOn
  <2>2. Len(p.turns) \in DOMAIN p.turns
    BY <1>1, <2>1, LastTurn
  <2>3. q = Returned(p, l.id)
    BY <1>3 DEF ClaudeLine
  <2>4. QED
    BY <1>3, <2>1, <2>2, <2>3, HoldsReturned
<1>4. CASE l.kind \in {"text", "call"}
  <2>1. p.turns # <<>> /\ IsAnswer(l)
    BY <1>4 DEF InPlace, GoesOn, IsAnswer
  <2>2. q = Ended(UsageAtLeast(Answered(p, l, l.step), l.step, l.tokens))
    BY <1>4, <2>1 DEF ClaudeLine
  <2>3. PICK claude : claude = (format = "claude")
    OBVIOUS
  <2>4. q = Ended(IF claude THEN UsageAtLeast(Answered(p, l, l.step), l.step, l.tokens)
                  ELSE Answered(p, l, l.step))
    BY <2>2, <2>3
  <2>5. QED
    BY <2>1, <2>3, <2>4, HoldsAnswer
<1>5. QED
  BY <1>1, <1>2, <1>3, <1>4

LEMMA HoldsContext ==
  ASSUME NEW a, NEW b, NEW l, Adds(a, b, l), AfterAll(a, l), NEW p, Stands(p, a),
         InPlace(a, l, p), format \in {"codex", "old codex"}, l.kind = "context",
         NEW d, NEW q, q = CodexLine(d, p, l)
  PROVE  Holds(q, b)
<1>1. ParserOK(p) /\ Holds(p, a) /\ l.turn \in Nat /\ (l.turn = NoTurn <=> format = "old codex")
  BY DEF AfterAll, Fits, LineRecs, Stands
<1>2. p.turns # <<>> => Len(p.turns) \in DOMAIN p.turns /\ Current(p) = p.turns[Len(p.turns)]
  BY <1>1, LastTurn
<1>3. \A x : ~Counts(l, x)
  BY DEF Counts
<1>4. CASE l.turn = NoTurn
  <2>1. q = p
    BY <1>4 DEF CodexLine
  <2>2. ~IsOpening(l)
    BY <1>1, <1>4 DEF IsOpening
  <2>3. QED
    BY <1>3, <2>1, <2>2, HoldsStill
<1>5. CASE l.turn # NoTurn /\ p.turns # <<>> /\ p.turns[Len(p.turns)].id = l.turn
  <2>1. q = p
    BY <1>2, <1>5 DEF CodexLine
  <2>2. l.turn \in {p.turns[n].id : n \in DOMAIN p.turns}
    BY <1>2, <1>5
  <2>3. l.turn \in TurnsWritten(a)
    BY <1>1, <2>2 DEF Holds
  <2>4. QED
    BY <1>3, <2>1, <2>3, HoldsStill
<1>6. CASE l.turn # NoTurn /\ ~(p.turns # <<>> /\ p.turns[Len(p.turns)].id = l.turn)
  <2>1. q = Opened(p, l.turn)
    BY <1>2, <1>6 DEF CodexLine
  <2>2. Opens(p, q, l.turn) /\ q.sent = p.sent /\ q.seen = p.seen
    <3>1. PICK r, t : r = p /\ t = l.turn
      OBVIOUS
    <3>2. /\ ParserOK(p) /\ ParserOK(r) /\ r.turns = p.turns /\ r.pending = p.pending
          /\ t \in Nat /\ q = Opened(r, t) /\ r.sent = p.sent /\ r.seen = p.seen
      BY <1>1, <2>1, <3>1
    <3>3. Opens(p, q, t) /\ q.sent = r.sent /\ q.seen = r.seen
      BY ONLY <3>2, OpenedOpens
    <3>4. QED
      BY <3>1, <3>2, <3>3
  <2>3. IsOpening(l) /\ ~GoesOn(l, format)
    BY <1>1, <1>6 DEF IsOpening, GoesOn
  <2>4. \A x \in DOMAIN a : a[x].turn # l.turn
    BY <1>6, <2>3 DEF InPlace
  <2>5. q.seen = p.seen + IF l.kind = "prompt" THEN 1 ELSE 0
    <3>1. p.seen \in Nat
      BY <1>1 DEF ParserOK
    <3>2. (IF l.kind = "prompt" THEN 1 ELSE 0) = 0
      OBVIOUS
    <3>3. QED
      BY ONLY <2>2, <3>1, <3>2
  <2>6. QED
    BY <2>2, <2>3, <2>4, <2>5, HoldsOpened
<1>7. QED
  BY <1>4, <1>5, <1>6

LEMMA HoldsCodex ==
  ASSUME NEW a, NEW b, NEW l, Adds(a, b, l), AfterAll(a, l), NEW p, Stands(p, a), WaitsOK(p),
         InPlace(a, l, p), format \in {"codex", "old codex"},
         NEW d, d = (format = "codex"), NEW q, q = CodexLine(d, p, l)
  PROVE  Holds(q, b)
<1>1. /\ l.kind \in Kinds /\ ParserOK(p) /\ Holds(p, a) /\ TurnsApart(p) /\ TurnsHold(p, a)
      /\ a \in Seq(LineRecs)
  BY DEF AfterAll, Fits, LineRecs, Stands, Adds
<1>2. PICK n : n = Len(p.turns)
  OBVIOUS
<1>3. GoesOn(l, format)
        => p.turns # <<>> /\ n \in DOMAIN p.turns /\ p.turns[n].id = l.turn /\ Current(p) = p.turns[n]
  BY <1>1, <1>2, LastTurn DEF InPlace
<1>4. CASE l.kind = "context"
  BY <1>4, HoldsContext
<1>5. CASE l.kind = "prompt" /\ format # "codex"
  <2>1. ~d
    BY <1>5
  <2>2. q = Opened(Shown(p), l.turn)
    BY <1>5, <2>1 DEF CodexLine
  <2>3. QED
    BY <1>5, <2>2, HoldsPrompt
<1>6. CASE l.kind = "prompt" /\ format = "codex"
  <2>1. p.turns # <<>> /\ n \in DOMAIN p.turns /\ p.turns[n].id = l.turn
    BY <1>3, <1>6 DEF GoesOn
  <2>2. d
    BY <1>6
  <2>3. q = Ended(Shown(p))
    BY <1>6, <2>1, <2>2 DEF CodexLine
  <2>4. QED
    BY <1>2, <1>6, <2>1, <2>3, HoldsPrompted
<1>7. CASE l.kind \in {"text", "call"}
  <2>1. /\ p.turns # <<>> /\ n \in DOMAIN p.turns /\ p.turns[n].id = l.turn
        /\ Current(p) = p.turns[n]
    BY <1>3, <1>7 DEF GoesOn
  <2>2. IsAnswer(l) /\ l.step = <<l.turn, 0>>
    BY <1>7 DEF IsAnswer, AfterAll
  <2>3. CodexStep(p) = l.step
    BY <2>1, <2>2 DEF CodexStep
  <2>4. q = Ended(Answered(p, l, l.step))
    BY <1>7, <2>1, <2>3 DEF CodexLine
  <2>5. PICK claude : claude = (format = "claude")
    OBVIOUS
  <2>6. q = Ended(IF claude THEN UsageAtLeast(Answered(p, l, l.step), l.step, l.tokens)
                  ELSE Answered(p, l, l.step))
    BY <2>4, <2>5
  <2>7. QED
    BY <2>2, <2>5, <2>6, HoldsAnswer
<1>8. CASE l.kind = "result"
  <2>1. /\ p.turns # <<>> /\ n \in DOMAIN p.turns /\ p.turns[n].id = l.turn
        /\ Current(p) = p.turns[n]
    BY <1>3, <1>8 DEF GoesOn
  <2>2. PICK t : t = p.turns[n]
    OBVIOUS
  <2>3. StepsThere(a, t)
    BY <1>1, <2>1, <2>2 DEF TurnsHold
  <2>4. \E k \in DOMAIN t.steps : t.steps[k].id = CodexStep(p)
    <3>1. \E k, j, w : IsCall(p, l.id, n, k, j) /\ w = Wait(l.id, n, k, j)
      BY <1>1, <1>8, <2>1, ResultAwaited
    <3>2. PICK k \in DOMAIN t.steps : TRUE
      BY <2>2, <3>1 DEF IsCall
    <3>3. t.steps[k].id = <<t.id, 0>>
      BY <2>3 DEF StepsThere
    <3>4. QED
      BY <2>1, <2>2, <3>3 DEF CodexStep
  <2>5. InStep(p, CodexStep(p)) = p
    BY <2>1, <2>2, <2>4 DEF InStep
  <2>6. PICK r : r = Returned(p, l.id)
    OBVIOUS
  <2>7. q = Ended(r)
    BY <1>8, <2>1, <2>5, <2>6 DEF CodexLine
  <2>8. QED
    BY <1>2, <1>8, <2>1, <2>6, <2>7, HoldsReturned
<1>9. CASE l.kind = "usage"
  <2>1. /\ p.turns # <<>> /\ n \in DOMAIN p.turns /\ p.turns[n].id = l.turn
        /\ Current(p) = p.turns[n]
    BY <1>3, <1>9 DEF GoesOn
  <2>2. CASE p.turns[n].steps = <<>>
    <3>1. q = p
      BY <1>9, <2>1, <2>2 DEF CodexLine
    <3>2. ~IsOpening(l)
      BY <1>9 DEF IsOpening
    <3>3. \A m \in DOMAIN p.turns : Counts(l, p.turns[m].id) => p.turns[m].steps = <<>>
      BY <1>1, <2>1, <2>2 DEF Counts, TurnsApart
    <3>4. QED
      BY <1>9, <3>1, <3>2, <3>3, HoldsStill
  <2>3. CASE p.turns[n].steps # <<>>
    <3>1. q = UsageIs(p, l.tokens)
      BY <1>9, <2>1, <2>3 DEF CodexLine
    <3>2. QED
      BY <1>2, <1>9, <2>1, <2>3, <3>1, HoldsCounted
  <2>4. QED
    BY <2>2, <2>3
<1>10. QED
  BY <1>1, <1>4, <1>5, <1>6, <1>7, <1>8, <1>9 DEF Kinds

LEMMA HoldsOn ==
  ASSUME NEW a, NEW b, NEW l, Adds(a, b, l), AfterAll(a, l), NEW p, Stands(p, a), WaitsOK(p),
         InPlace(a, l, p), format \in Formats,
         NEW d, format # "claude" => d = (format = "codex"),
         NEW q, q = LineRead(format, d, p, l)
  PROVE  Holds(q, b)
<1>1. CASE format = "claude"
  <2>1. q = ClaudeLine(p, l)
    BY <1>1 DEF LineRead
  <2>2. QED
    BY <1>1, <2>1, HoldsClaude
<1>2. CASE format # "claude"
  <2>1. q = CodexLine(d, p, l) /\ d = (format = "codex")
    BY <1>2 DEF LineRead
  <2>2. format \in {"codex", "old codex"}
    BY <1>2 DEF Formats
  <2>3. QED
    BY <2>1, <2>2, HoldsCodex
<1>3. QED
  BY <1>1, <1>2

-----------------------------------------------------------------------------
(* The reading of a log, line by line. *)

LEMMA LineInPlace ==
  ASSUME NEW a, NEW b, NEW l, Adds(a, b, l), LogGood(b, format), NEW p,
         ReadSoFar(p, a, Len(a), format)
  PROVE  InPlace(a, l, p)
<1>1. PICK n, m : n = Len(b) /\ m = Len(a)
  OBVIOUS
<1>2. /\ a \in Seq(LineRecs) /\ m \in Nat /\ n = m + 1 /\ n \in DOMAIN b /\ b[n] = l
      /\ \A j \in DOMAIN a : b[j] = a[j]
  BY <1>1 DEF Adds
<1>3. DOMAIN a = 1..m /\ n - 1 = m
  BY ONLY <1>1, <1>2
<1>4. LineOK(b, n, format)
  BY <1>2 DEF LogGood, LineGood
<1>5. ParserOK(p) /\ (m > 0 /\ a[m].turn # NoTurn => p.turns # <<>> /\ Current(p).id = a[m].turn)
  BY <1>1 DEF ReadSoFar
<1>6. /\ Fits(l, format) /\ (GoesOn(l, format) => n > 1 /\ b[n - 1].turn = l.turn)
      /\ ~GoesOn(l, format) /\ l.turn # NoTurn =>
           \/ \A j \in 1..n - 1 : b[j].turn < l.turn
           \/ l.kind = "context" /\ n > 1 /\ b[n - 1].turn = l.turn
  BY ONLY <1>2, <1>4 DEF LineOK
<1>7. ASSUME n > 1, b[n - 1].turn = l.turn, l.turn # NoTurn
      PROVE  p.turns # <<>> /\ p.turns[Len(p.turns)].id = l.turn
  <2>1. m > 0 /\ m \in DOMAIN a
    BY <1>2, <1>3, <1>7
  <2>2. a[m].turn = l.turn
    BY <1>2, <1>3, <1>7, <2>1
  <2>3. p.turns # <<>> /\ Current(p).id = l.turn
    BY <1>5, <1>7, <2>1, <2>2
  <2>4. QED
    BY <1>5, <2>3, LastTurn
<1>8. ASSUME \A j \in 1..n - 1 : b[j].turn < l.turn
      PROVE  \A r \in DOMAIN a : a[r].turn # l.turn
  <2>1. ASSUME NEW r \in DOMAIN a, a[r].turn = l.turn PROVE FALSE
    <3>1. a[r].turn < l.turn /\ l.turn \in Nat
      BY <1>2, <1>3, <1>6, <1>8 DEF Fits, LineRecs
    <3>2. QED
      BY <2>1, <3>1
  <2>2. QED
    BY <2>1
<1>9. GoesOn(l, format) => l.turn # NoTurn
  BY <1>6 DEF Fits, GoesOn
<1>10. QED
  BY <1>6, <1>7, <1>8, <1>9 DEF InPlace

LEMMA NothingWritten == Holds(NothingRead, <<>>)
<1>1. PICK p, a : p = NothingRead /\ a = <<>>
  OBVIOUS
<1>2. p = [turns |-> <<>>, pending |-> {}, seen |-> 0, sent |-> 0]
  BY <1>1 DEF NothingRead
<1>3. /\ DOMAIN p.turns = {} /\ p.pending = {} /\ p.seen = 0 /\ p.sent = 0 /\ DOMAIN a = {}
      /\ Len(p.turns) = 0
  BY <1>1, <1>2
<1>4. {p.turns[n].id : n \in DOMAIN p.turns} = TurnsWritten(a)
  BY <1>3 DEF TurnsWritten
<1>5. AllWritten(p, a)
  BY <1>3 DEF AllWritten
<1>6. Contexts(p)
  BY <1>3 DEF Contexts, ContextsMeet, LastShown
<1>7. p.seen = Cardinality(Items(a))
  <2>1. Items(a) = {}
    BY <1>3 DEF Items
  <2>2. QED
    BY <1>3, <2>1, FS_EmptySet
<1>8. Awaited(p, a)
  BY <1>3 DEF Awaited, IsCall
<1>9. QED
  BY <1>1, <1>4, <1>5, <1>6, <1>7, <1>8 DEF Holds

\* One line more, of a log that goes on.
LEMMA HoldsNext ==
  ASSUME format \in Formats, NEW lines, LogGood(lines, format), LogWritten(lines, format),
         NEW g, g = Reading(format, lines), NEW i, i \in 0..Len(lines), i < Len(lines),
         Holds(g[i], SubSeq(lines, 1, i))
  PROVE  Holds(g[i + 1], SubSeq(lines, 1, i + 1))
<1>1. lines \in Seq(LineRecs) /\ Len(lines) \in Nat /\ LogOK(lines, format) /\ i \in Nat
  BY LogGoodIsOK
<1>2. PICK a, b, l, d, k : /\ a = SubSeq(lines, 1, i) /\ b = SubSeq(lines, 1, k)
                           /\ l = lines[i + 1] /\ d = HasCodexTurnIDs(lines) /\ k = i + 1
  OBVIOUS
<1>3. k \in 0..Len(lines) /\ k \in DOMAIN lines
  BY <1>1, <1>2
<1>4. /\ a \in Seq(LineRecs) /\ Len(a) = i /\ DOMAIN a = 1..i /\ Begins(a, lines)
      /\ \A j \in 1..i : a[j] = lines[j]
  <2>1. lines \in Seq(LineRecs) /\ i \in 0..Len(lines) /\ a = SubSeq(lines, 1, i)
    BY <1>1, <1>2
  <2>2. a \in Seq(LineRecs) /\ Len(a) = i /\ \A j \in 1..i : a[j] = lines[j]
    BY ONLY <2>1, SubSeqIs
  <2>3. DOMAIN a = 1..i /\ i <= Len(lines)
    BY ONLY <2>1, <2>2
  <2>4. QED
    BY <2>2, <2>3 DEF Begins
<1>5. /\ b \in Seq(LineRecs) /\ Len(b) = k /\ DOMAIN b = 1..k /\ Begins(b, lines)
      /\ \A j \in 1..k : b[j] = lines[j]
  <2>1. lines \in Seq(LineRecs) /\ k \in 0..Len(lines) /\ b = SubSeq(lines, 1, k)
    BY <1>1, <1>2, <1>3
  <2>2. b \in Seq(LineRecs) /\ Len(b) = k /\ \A j \in 1..k : b[j] = lines[j]
    BY ONLY <2>1, SubSeqIs
  <2>3. DOMAIN b = 1..k /\ k <= Len(lines)
    BY ONLY <2>1, <2>2
  <2>4. QED
    BY <2>2, <2>3 DEF Begins
<1>6. Adds(a, b, l)
  <2>1. l \in LineRecs /\ b[Len(b)] = l
    BY <1>1, <1>2, <1>3, <1>5
  <2>2. DOMAIN b = DOMAIN a \union {Len(b)}
    BY ONLY <1>1, <1>2, <1>4, <1>5
  <2>3. \A j \in DOMAIN a : j \in Nat /\ j < Len(b) /\ b[j] = a[j]
    BY ONLY <1>1, <1>2, <1>4, <1>5
  <2>4. QED
    BY <1>1, <1>2, <1>4, <1>5, <2>1, <2>2, <2>3 DEF Adds
<1>7. LogGood(a, format) /\ LogGood(b, format) /\ LogWritten(a, format) /\ LogWritten(b, format)
  BY <1>1, <1>4, <1>5, LogGoodBegins, WrittenBegins
<1>8. ReadSoFar(g[i], a, i, format)
  <2>1. LogOK(a, format)
    BY <1>7, LogGoodIsOK
  <2>2. PICK h : h = Reading(format, a)
    OBVIOUS
  <2>3. i \in 0..Len(a)
    BY <1>1, <1>4
  <2>4. ReadSoFar(h[i], a, i, format)
    BY <1>4, <2>1, <2>2, <2>3, ReadsAll
  <2>5. h[i] = g[i]
    BY <1>1, <1>4, <2>2, <2>3, SameReading
  <2>6. QED
    BY <2>4, <2>5
<1>9. PICK p, q : p = g[i] /\ q = g[k]
  OBVIOUS
<1>10. q = LineRead(format, d, p, l)
  <2>1. Follows(g, format, d, lines, Len(lines))
    BY <1>1, <1>2, ReadingFollows
  <2>2. QED
    BY <1>1, <1>2, <1>3, <1>9, <2>1 DEF Follows
<1>11. format # "claude" => d = (format = "codex")
  BY <1>1, <1>2, <1>3, Delimited
<1>12. ReadSoFar(p, a, Len(a), format) /\ Holds(p, a)
  BY <1>2, <1>4, <1>8, <1>9
<1>13. Stands(p, a) /\ AfterAll(a, l) /\ InPlace(a, l, p) /\ WaitsOK(p)
  <2>1. Stands(p, a)
    BY <1>7, <1>12, ParserStands
  <2>2. AfterAll(a, l)
    BY <1>6, <1>7, LineIsAfter
  <2>3. InPlace(a, l, p)
    BY <1>6, <1>7, <1>12, LineInPlace
  <2>4. QED
    BY <1>12, <2>1, <2>2, <2>3 DEF ReadSoFar
<1>14. Holds(q, b)
  BY <1>6, <1>10, <1>11, <1>13, HoldsOn
<1>15. QED
  BY <1>2, <1>9, <1>14

LEMMA ReadingHolds ==
  ASSUME format \in Formats, NEW lines, LogGood(lines, format), LogWritten(lines, format),
         NEW g, g = Reading(format, lines)
  PROVE  Holds(g[Len(lines)], lines)
<1>1. lines \in Seq(LineRecs) /\ LogOK(lines, format)
  BY LogGoodIsOK
<1>2. PICK n \in Nat : n = Len(lines)
  BY <1>1
<1> DEFINE S == {i \in 0..n : Holds(g[i], SubSeq(lines, 1, i))}
<1>3. 0 \in S
  <2>1. g[0] = NothingRead
    BY <1>1, ReadsAll
  <2>2. SubSeq(lines, 1, 0) = <<>>
    BY <1>1
  <2>3. Holds(g[0], SubSeq(lines, 1, 0))
    BY <2>1, <2>2, NothingWritten, Zenon
  <2>4. 0 \in 0..n
    BY <1>2
  <2>5. QED
    BY <2>3, <2>4
<1>4. ASSUME NEW i \in S, i < n PROVE i + 1 \in S
  <2>1. i \in 0..Len(lines) /\ i < Len(lines) /\ Holds(g[i], SubSeq(lines, 1, i))
    BY <1>2, <1>4
  <2>2. Holds(g[i + 1], SubSeq(lines, 1, i + 1))
    BY <2>1, HoldsNext
  <2>3. i + 1 \in 0..n
    BY <1>2, <1>4
  <2>4. QED
    BY <2>2, <2>3
<1>5. S = 0..n
  <2>1. S \in SUBSET (0..n)
    OBVIOUS
  <2> HIDE DEF S
  <2>2. QED
    BY <1>3, <1>4, <2>1, HoldsForAll
<1>6. n \in S
  BY <1>5
<1>7. Holds(g[n], SubSeq(lines, 1, n))
  BY <1>6
<1>8. SubSeq(lines, 1, n) = lines
  BY <1>1, <1>2, PrefixWhole
<1>9. QED
  BY <1>2, <1>7, <1>8

LEMMA FileIsParsed ==
  ASSUME LogInv, LogWritten(log, format)
  PROVE  ParsedAsWritten
<1>1. PICK lines, g, p, turns : /\ lines = File /\ g = Reading(format, lines)
                                /\ p = g[Len(lines)] /\ turns = Parse(format, lines)
  OBVIOUS
<1>2. LogGood(lines, format) /\ LogWritten(lines, format) /\ format \in Formats
  BY <1>1, FileIs, FileWritten DEF LogInv
<1>3. lines \in Seq(LineRecs) /\ LogOK(lines, format) /\ Len(lines) \in 0..Len(lines)
  BY <1>2, LogGoodIsOK
<1>4. turns = p.turns
  BY <1>1 DEF Parse
<1>5. Holds(p, lines)
  BY <1>1, <1>2, ReadingHolds
<1>6. ReadSoFar(p, lines, Len(lines), format)
  BY <1>1, <1>2, <1>3, ReadsAll
<1>7. ASSUME NEW n \in DOMAIN turns, NEW m \in 1..n - 1
      PROVE  turns[m].id < turns[n].id
  <2>1. DOMAIN turns = 1..Len(turns) /\ Len(turns) \in Nat
    <3>1. turns \in Seq(TurnRecs)
      BY <1>4, <1>6 DEF ReadSoFar, ParserOK
    <3>2. QED
      BY <3>1
  <2>2. m \in DOMAIN turns /\ m < n
    BY <1>7, <2>1
  <2>3. QED
    BY <1>4, <1>6, <2>2 DEF ReadSoFar
<1>8. /\ {turns[n].id : n \in DOMAIN turns} = TurnsWritten(lines)
      /\ \A n \in DOMAIN turns : TurnAsWritten(lines, turns[n])
      /\ ContextsMeet(turns)
  BY <1>4, <1>5 DEF Holds, AllWritten, Contexts
<1>9. QED
  BY <1>1, <1>7, <1>8 DEF ParsedAsWritten

\* Whatever the CLI has written and flushed, and wherever a kill cut it off, the
\* parser makes of the file what its lines say each of itself: every turn that
\* was opened, in order, ended once it was worked on, with each message as one
\* step of its texts and calls in the order made, the usage counted for it, the
\* results its calls got but for those that a slice grown too far had left
\* behind, and the items that are new to it (ParseCodex, ParseClaude,
\* history.add, turn.call, ParsedAsWritten).
THEOREM HookReadsAsWritten == Spec => []ParsedAsWritten
<1>1. Init => LogWritten(log, format)
  BY WrittenInit
<1>2. LogInv /\ LogWritten(log, format) /\ [Next]_vars => LogWritten(log, format)'
  BY WrittenStep
<1>3. HookAndLogInv => LogInv
  BY DEF HookAndLogInv
<1>4. LogInv /\ LogWritten(log, format) => ParsedAsWritten
  BY FileIsParsed
<1>5. QED
  BY <1>1, <1>2, <1>3, <1>4, HookAndLog, PTL DEF Spec
=============================================================================
