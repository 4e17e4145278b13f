------------------------- MODULE TracingProxyProofs -------------------------
(***************************************************************************)
(* What TLAPS proves of TracingProxy, for any clients and whatever they    *)
(* send, in whatever batches, and however many requests they give up.      *)
(***************************************************************************)
EXTENDS TracingProxy, TLAPS

-----------------------------------------------------------------------------
(* The inductive invariant. *)

Spans == [parent : Ids \union {None}, start : Int, counts : SUBSET Ids]

\* The types the argument needs, of everything but what the service holds.
Shaped(h) ==
  h = [of |-> h.of, first |-> h.first, last |-> h.last, at |-> h.at, step |-> h.step,
       span |-> h.span, out |-> h.out, image |-> h.image, gone |-> h.gone]

Placed(h) ==
  /\ h.of \in Clients /\ h.first \in Nat /\ h.last \in Nat /\ h.at \in Nat
  /\ 1 <= h.first /\ h.first <= h.at /\ h.at <= h.last /\ h.last <= said[h.of]
  /\ h.step \in {"record", "remember", "append", "export", "write", "sent"}
  /\ h.step \in {"export", "write", "sent"} => h.at = h.last

Typed ==
  /\ said \in [Clients -> Nat] /\ \A c \in Clients : said[c] <= Len(Script[c])
  /\ DOMAIN waiting = Clients
  /\ \A h \in handlers : Shaped(h) /\ Placed(h)
  /\ heap \in [Ids -> Spans \union {None}]
  /\ messageSpans \in [Conversations -> Ids \union {None}]
  /\ llmCalls \in [Conversations -> Ids \union {None}]

\* No event is in two requests.
Apart ==
  \A h, g \in handlers : h.of = g.of => h = g \/ h.last < g.first \/ g.last < h.first

\* What is still to be made of a request has not been made.
Unmade(h, i) == i > h.at \/ h.step \in {"record", "append"}

Fresh ==
  /\ \A id \in Ids : heap[id] # None => id[2] <= said[id[1]]
  /\ \A h \in handlers : \A i \in h.at..h.last : Unmade(h, i) => heap[<<h.of, i>>] = None

IsMade(id, v, kind) ==
  id \in Ids /\ heap[id] # None /\ Event(id).kind = kind /\ Event(id).conversation = v

Messages ==
  \A v \in Conversations :
    messageSpans[v] # None => IsMade(messageSpans[v], v, "prompt")

\* A call without counts is made, then pending, then taken: in one hand at a time.
Remembering ==
  \A h \in handlers : h.step = "remember" =>
    Kind(h) = "request" /\ heap[Current(h)] # None /\ heap[Current(h)].counts = {}

Pending ==
  \A v \in Conversations : llmCalls[v] # None =>
    /\ IsMade(llmCalls[v], v, "request") /\ heap[llmCalls[v]].counts = {}
    /\ \A h \in handlers : /\ h.step = "append" => h.span # llmCalls[v]
                           /\ h.step = "remember" => Current(h) # llmCalls[v]

Taken ==
  \A h \in handlers : h.step = "append" =>
    /\ Kind(h) = "usage" /\ Named(h)
    /\ IsMade(h.span, Conversation(h), "request") /\ heap[h.span].counts = {}
    /\ \A g \in handlers : /\ g.step = "append" /\ g # h => g.span # h.span
                           /\ g.step = "remember" => Current(g) # h.span

CallsMade == {id \in Ids : heap[id] # None /\ Event(id).kind = "request"}

\* Calls have the counts of one event, and nothing of another conversation.
OwnCall(call) ==
  /\ \A id, jd \in heap[call].counts : id = jd
  /\ \A id \in heap[call].counts : Together(id, call)
  /\ heap[call].parent # None =>
       IsMade(heap[call].parent, Event(call).conversation, "prompt")

OwnOnly == \A call \in CallsMade : OwnCall(call)

\* A client that gave no request up has one handled at a time, ...
Sequential ==
  \A h \in handlers : h.of \notin gaveUp =>
    /\ waiting[h.of] /\ ~h.gone /\ h.last = said[h.of]
    /\ \A g \in handlers : g.of = h.of => g = h

\* ... and the maps hold of its conversations what its events up to the one being
\* handled make of them.
Owned(c) ==
  {v \in Conversations : \E i \in 1..Len(Script[c]) : Script[c][i].conversation = v}

Reach(h) == IF h.step \in {"record", "remember", "append"} THEN h.at - 1 ELSE h.at

Abreast(c, n) ==
  \A v \in Owned(c) :
    /\ IsLast(messageSpans[v], c, n, v, "prompt")
    /\ llmCalls[v] # None => IsLast(llmCalls[v], c, n, v, "request")

Reached ==
  /\ \A h \in handlers : h.of \notin gaveUp => Abreast(h.of, Reach(h))
  /\ clientsUp => \A c \in Clients \ gaveUp :
                    (\A h \in handlers : h.of # c) => Abreast(c, said[c])

Followed ==
  \A h \in handlers : h.step = "append" /\ h.of \notin gaveUp =>
    IsLastBefore(h.span, Current(h), "request")

PlacedCall(call) ==
  /\ IsLastBefore(heap[call].parent, call, "prompt")
  /\ heap[call].parent # None => heap[call].start >= heap[heap[call].parent].start
  /\ \A id \in heap[call].counts : IsLastBefore(call, id, "request")

InPlace == \A call \in CallsMade : call[1] \notin gaveUp => PlacedCall(call)

Made == Messages /\ Remembering /\ Pending /\ Taken /\ OwnOnly
Ordered == Sequential /\ Reached /\ Followed /\ InPlace
ProxyInv == Typed /\ Apart /\ Fresh /\ Made /\ Ordered

\* What is told of, and still to be made: a request has it.
ToCome(id) ==
  \E h \in handlers : h.of = id[1] /\ id[2] \in h.at..h.last /\ Unmade(h, id[2])

ToldBy(id) == id[1] \notin gaveUp /\ id[2] <= said[id[1]]

EventsMade ==
  \A id \in Ids : ToldBy(id) /\ Event(id).kind \in {"prompt", "request", "span"} =>
    heap[id] # None \/ ToCome(id)

CountsMade ==
  \A id \in Ids : ToldBy(id) /\ Event(id).kind = "usage" =>
    ToCome(id) \/ \A call \in Ids : FirstAfter(id, call) =>
                    heap[call] # None /\ id \in heap[call].counts

\* A call is pending until the first counts after it are read.
Unspent(call, n) ==
  \A jd \in Ids : Event(jd).kind = "usage" /\ jd[2] <= n => ~IsLastBefore(call, jd, "request")

Awaits(c, n) ==
  \A v \in Owned(c), call \in Ids :
    IsLast(call, c, n, v, "request") /\ Unspent(call, n) => llmCalls[v] = call

Read(h) == IF h.step \in {"record", "remember"} THEN h.at - 1 ELSE h.at

Awaited ==
  /\ \A h \in handlers : h.of \notin gaveUp => Awaits(h.of, Read(h))
  /\ clientsUp => \A c \in Clients \ gaveUp :
                    (\A h \in handlers : h.of # c) => Awaits(c, said[c])

Told == EventsMade /\ CountsMade /\ Awaited

\* What is made, and still to be stored.
Held(id) ==
  \E h \in handlers : /\ h.of = id[1]
                      /\ id \in h.out \/ (h.step = "remember" /\ id = Current(h))

OwnOut(h) ==
  /\ \A id \in h.out : id \in Ids /\ id[1] = h.of /\ heap[id] # None
  /\ h.step \in {"write", "sent"} => DOMAIN h.image = h.out
  /\ h.step \in {"write", "sent"} /\ h.of \notin gaveUp => h.image = AsTheyAre(h)

OutsOwn == \A h \in handlers : OwnOut(h)

AdriftOf(cs) == \A image \in adrift : \A id \in DOMAIN image : id[1] \in cs

RowsFollow ==
  \A id \in Ids : id[1] \notin gaveUp \union unsure /\ heap[id] # None =>
    rows[id] = heap[id] \/ Held(id)

Storing == OutsOwn /\ AdriftOf(gaveUp \union unsure) /\ RowsFollow

-----------------------------------------------------------------------------
(* The events and what is the last of them. *)

USE ProxyConstants DEF ProxyConstants

LEMMA EventsHaveShape ==
  ASSUME NEW c \in Clients, NEW i \in 1..Len(Script[c])
  PROVE  /\ Len(Script[c]) \in Nat
         /\ <<c, i>> \in Ids /\ <<c, i>> # None
         /\ Event(<<c, i>>).kind \in Kinds /\ Event(<<c, i>>).duration \in Nat
         /\ Event(<<c, i>>).conversation \in Conversations \union {Anonymous}
<1> DEFINE E == [kind : Kinds, conversation : Conversations \union {Anonymous},
                 duration : Nat]
<1>1. Script[c] \in Seq(E)
  OBVIOUS
<1> HIDE DEF E
<1>2. Len(Script[c]) \in Nat /\ Script[c][i] \in E
  BY <1>1
<1>3. <<c, i>> \in Ids
  BY DEF Ids
<1>4. <<c, i>> # None
  BY DEF None
<1>5. Event(<<c, i>>) = Script[c][i]
  BY DEF Event
<1>6. QED
  BY <1>2, <1>3, <1>4, <1>5 DEF E

LEMMA LengthsAreNat == \A c \in Clients : Len(Script[c]) \in Nat
<1> DEFINE E == [kind : Kinds, conversation : Conversations \union {Anonymous},
                 duration : Nat]
<1>1. \A c \in Clients : Script[c] \in Seq(E)
  OBVIOUS
<1> HIDE DEF E
<1>2. QED
  BY <1>1

LEMMA IdsArePairs ==
  ASSUME NEW id \in Ids
  PROVE  id[1] \in Clients /\ id[2] \in 1..Len(Script[id[1]]) /\ id = <<id[1], id[2]>>
BY DEF Ids

\* What one client says of a conversation no other does.
LEMMA OwnedByOne ==
  ASSUME NEW c \in Clients, NEW d \in Clients, NEW v \in Owned(c), v \in Owned(d)
  PROVE  c = d
<1>1. PICK i \in 1..Len(Script[c]) : Script[c][i].conversation = v
  BY DEF Owned
<1>2. PICK j \in 1..Len(Script[d]) : Script[d][j].conversation = v
  BY DEF Owned
<1>3. <<c, i>> \in Ids /\ <<d, j>> \in Ids /\ v \in Conversations
  BY EventsHaveShape DEF Owned
<1>4. Event(<<c, i>>).conversation = v /\ Event(<<d, j>>).conversation = v
  BY <1>1, <1>2 DEF Event
<1>5. \A id, jd \in Ids : Event(id).conversation = Event(jd).conversation
        => id[1] = jd[1] \/ Event(id).conversation = Anonymous
  OBVIOUS
<1>6. <<c, i>>[1] = <<d, j>>[1] \/ v = Anonymous
  BY <1>3, <1>4, <1>5
<1>7. Anonymous \notin Conversations
  OBVIOUS
<1>8. QED
  BY <1>3, <1>6, <1>7

LEMMA NothingBeforeTheFirst ==
  ASSUME NEW c, NEW v, NEW k
  PROVE  IsLast(None, c, 0, v, k)
BY DEF IsLast

LEMMA AnonymousHasNone ==
  ASSUME NEW c, NEW n \in Nat, NEW k
  PROVE  IsLast(None, c, n, Anonymous, k)
BY DEF IsLast

\* An event that is not such a one changes nothing, ...
LEMMA LastPassesBy ==
  ASSUME NEW what, NEW c, NEW n \in Nat, NEW v, NEW k, IsLast(what, c, n, v, k),
         Event(<<c, n + 1>>).kind # k \/ Event(<<c, n + 1>>).conversation # v
  PROVE  IsLast(what, c, n + 1, v, k)
<1> DEFINE Such(m) == {j \in 1..m : /\ Event(<<c, j>>).kind = k
                                    /\ Event(<<c, j>>).conversation = v
                                    /\ v # Anonymous}
<1>1. Such(n + 1) = Such(n)
  OBVIOUS
<1>2. \/ what = None /\ Such(n) = {}
      \/ \E j \in Such(n) : what = <<c, j>> /\ \A i \in Such(n) : i <= j
  BY DEF IsLast
<1> HIDE DEF Such
<1>3. \/ what = None /\ Such(n + 1) = {}
      \/ \E j \in Such(n + 1) : what = <<c, j>> /\ \A i \in Such(n + 1) : i <= j
  BY <1>1, <1>2
<1>4. QED
  BY <1>3 DEF IsLast, Such

\* ... and one that is becomes the last.
LEMMA LastIsTaken ==
  ASSUME NEW c, NEW n \in Nat, NEW v, NEW k, v # Anonymous,
         Event(<<c, n + 1>>).kind = k, Event(<<c, n + 1>>).conversation = v
  PROVE  IsLast(<<c, n + 1>>, c, n + 1, v, k)
BY DEF IsLast

LEMMA SpansAreNotNone ==
  ASSUME NEW p, NEW s
  PROVE  Span(p, s) # None
<1>1. DOMAIN Span(p, s) = {"parent", "start", "counts"}
  BY DEF Span
<1>2. DOMAIN None = {}
  BY DEF None
<1>3. QED
  BY <1>1, <1>2

-----------------------------------------------------------------------------
(* What a step does to the requests. *)

HIDE ProxyConstants DEF ProxyConstants

\* The request that goes on after a record: at the next one, or at the export.
Follows(g, h) ==
  /\ Shaped(g) /\ g.of = h.of /\ g.first = h.first /\ g.last = h.last /\ g.gone = h.gone
  /\ \/ g.step = "record" /\ g.at = h.at + 1 /\ h.at < h.last
     \/ g.step = "export" /\ g.at = h.at /\ h.at = h.last

\* What Handled comes to: h goes on, or is answered.
Proceeds(h) ==
  /\ clientsUp' = clientsUp /\ said' = said /\ gaveUp' = gaveUp
  /\ \/ \E g : Follows(g, h) /\ handlers' = (handlers \ {h}) \union {g} /\ waiting' = waiting
     \/ /\ h.at = h.last /\ handlers' = handlers \ {h}
        /\ waiting' = [waiting EXCEPT ![h.of] = @ /\ h.gone]

LEMMA NextRecord ==
  ASSUME NEW h, Shaped(h), h.at < h.last, NEW out, NEW g,
         g = [[h EXCEPT !.out = out, !.span = None] EXCEPT !.at = @ + 1, !.step = "record"]
  PROVE  Follows(g, h)
BY DEF Shaped, Follows

LEMMA LastRecord ==
  ASSUME NEW h, Shaped(h), h.at = h.last, NEW out, NEW g,
         g = [[h EXCEPT !.out = out, !.span = None] EXCEPT !.step = "export"]
  PROVE  Follows(g, h)
BY DEF Shaped, Follows

LEMMA HandledGoesOn ==
  ASSUME NEW h \in handlers, Shaped(h), NEW spans, Handled(h, spans)
  PROVE  Proceeds(h)
<1> DEFINE out == h.out \union spans
           on  == [h EXCEPT !.out = out, !.span = None]
           g1  == [on EXCEPT !.at = @ + 1, !.step = "record"]
           g2  == [on EXCEPT !.step = "export"]
<1>1. \/ h.at < h.last /\ Becomes(h, g1) /\ UNCHANGED clientVars
      \/ h.at = h.last /\ Becomes(h, g2) /\ UNCHANGED clientVars
      \/ h.at = h.last /\ Replied(h)
  BY DEF Handled
<1>2. h.at < h.last => Follows(g1, h)
  BY NextRecord
<1>3. h.at = h.last => Follows(g2, h)
  BY LastRecord
<1> HIDE DEF g1, g2
<1>4. QED
  BY <1>1, <1>2, <1>3 DEF Proceeds, Becomes, clientVars, Replied

Working == {"record", "remember", "append"}

LEMMA ProceedsInPlace ==
  ASSUME Typed, Apart, NEW h \in handlers, h.step \in Working, Proceeds(h)
  PROVE  /\ DOMAIN waiting' = Clients /\ Apart'
         /\ \A f \in handlers' : Shaped(f) /\ Placed(f)'
         /\ \A f \in handlers' : f.step \in {"remember", "append"} => f \in handlers /\ f # h
<1>1. Shaped(h) /\ Placed(h) /\ \A f \in handlers : Shaped(f) /\ Placed(f)
  BY DEF Typed
<1>2. CASE /\ h.at = h.last /\ handlers' = handlers \ {h}
           /\ waiting' = [waiting EXCEPT ![h.of] = @ /\ h.gone]
  BY <1>1, <1>2 DEF Proceeds, Typed, Apart, Placed
<1>3. ASSUME NEW g, Follows(g, h), handlers' = (handlers \ {h}) \union {g},
             waiting' = waiting
      PROVE  /\ DOMAIN waiting' = Clients /\ Apart'
             /\ \A f \in handlers' : Shaped(f) /\ Placed(f)'
             /\ \A f \in handlers' : f.step \in {"remember", "append"}
                                       => f \in handlers /\ f # h
  <2>1. Shaped(g) /\ Placed(g)'
    BY <1>1, <1>3 DEF Proceeds, Placed, Follows, Typed
  <2>2. \A f \in handlers' : Shaped(f) /\ Placed(f)'
    BY <1>1, <1>3, <2>1 DEF Proceeds, Placed
  <2>3. \A f \in handlers' : f.step \in {"remember", "append"} => f \in handlers /\ f # h
    BY <1>3 DEF Follows
  <2>4. \A f \in handlers \ {h} : f.of = g.of => f.last < g.first \/ g.last < f.first
    BY <1>3 DEF Apart, Follows
  <2>5. Apart'
    BY <1>3, <2>4 DEF Apart
  <2>6. QED
    BY <1>3, <2>2, <2>3, <2>5 DEF Typed
<1>4. QED
  BY <1>2, <1>3 DEF Proceeds

\* What is still to be made of the requests does not include what h was at.
LEMMA ProceedsUnmade ==
  ASSUME Typed, Apart, Fresh, NEW h \in handlers, h.step \in Working, Proceeds(h),
         NEW f \in handlers', NEW i \in f.at..f.last, Unmade(f, i)
  PROVE  <<f.of, i>> # Current(h) /\ heap[<<f.of, i>>] = None
<1>1. Placed(h) /\ \A e \in handlers : Placed(e)
  BY DEF Typed
<1>2. CASE f \in handlers \ {h}
  <2>1. heap[<<f.of, i>>] = None
    BY <1>2 DEF Fresh
  <2>2. f.of = h.of => i # h.at
    BY <1>1, <1>2 DEF Apart, Placed
  <2>3. QED
    BY <2>1, <2>2 DEF Current
<1>3. CASE Follows(f, h)
  <2>1. f.of = h.of /\ i > h.at /\ i \in h.at..h.last
    BY <1>1, <1>3 DEF Follows, Unmade, Placed
  <2>2. heap[<<h.of, i>>] = None
    BY <2>1 DEF Fresh, Unmade
  <2>3. QED
    BY <2>1, <2>2 DEF Current
<1>4. QED
  BY <1>2, <1>3 DEF Proceeds

LEMMA ProceedsInOrder ==
  ASSUME Typed, Sequential, NEW h \in handlers, h.step \in Working, Proceeds(h)
  PROVE  Sequential'
<1>1. h.of \in Clients /\ DOMAIN waiting = Clients
  BY DEF Typed, Placed
<1>2. CASE /\ h.at = h.last /\ handlers' = handlers \ {h}
           /\ waiting' = [waiting EXCEPT ![h.of] = @ /\ h.gone]
  <2> SUFFICES ASSUME NEW f \in handlers', f.of \notin gaveUp
               PROVE  /\ waiting'[f.of] /\ ~f.gone /\ f.last = said[f.of]
                      /\ \A g \in handlers' : g.of = f.of => g = f
    BY DEF Sequential, Proceeds
  <2>1. f \in handlers /\ f # h
    BY <1>2
  <2>2. f.of # h.of
    BY <2>1 DEF Sequential
  <2>3. waiting'[f.of] = waiting[f.of]
    BY <1>1, <1>2, <2>2
  <2>4. QED
    BY <1>2, <2>1, <2>3 DEF Sequential
<1>3. ASSUME NEW g, Follows(g, h), handlers' = (handlers \ {h}) \union {g},
             waiting' = waiting
      PROVE  Sequential'
  <2> SUFFICES ASSUME NEW f \in handlers', f.of \notin gaveUp
               PROVE  /\ waiting[f.of] /\ ~f.gone /\ f.last = said[f.of]
                      /\ \A e \in handlers' : e.of = f.of => e = f
    BY <1>3 DEF Sequential, Proceeds
  <2>1. CASE f = g
    BY <1>3, <2>1 DEF Sequential, Follows
  <2>2. CASE f \in handlers \ {h}
    BY <1>3, <2>2 DEF Sequential, Follows
  <2>3. QED
    BY <1>3, <2>1, <2>2
<1>4. QED
  BY <1>2, <1>3 DEF Proceeds

LEMMA ProceedsAbreast ==
  ASSUME Typed, Sequential, Reached, NEW h \in handlers, h.step \in Working, Proceeds(h),
         h.of \notin gaveUp => Abreast(h.of, h.at)',
         \A c \in Clients, n \in Nat : c # h.of /\ Abreast(c, n) => Abreast(c, n)'
  PROVE  Reached'
<1>1. Placed(h) /\ \A e \in handlers : Placed(e)
  BY DEF Typed
<1>2. \A e \in handlers : Reach(e) \in Nat
  BY <1>1 DEF Reach, Placed
<1>3. said \in [Clients -> Nat]
  BY DEF Typed
<1>4. \A f \in handlers' : Reach(f)' = Reach(f)
  BY DEF Reach
<1>5. ASSUME NEW f \in handlers', f.of \notin gaveUp
      PROVE  Abreast(f.of, Reach(f))'
  <2>1. CASE f \in handlers /\ f # h
    <3>1. f.of # h.of
      BY <1>5, <2>1 DEF Sequential
    <3>2. Abreast(f.of, Reach(f))
      BY <1>5, <2>1 DEF Reached
    <3>3. Reach(f) \in Nat /\ f.of \in Clients
      BY <1>1, <1>2, <2>1 DEF Placed
    <3>4. QED
      BY <3>1, <3>2, <3>3
  <2>2. CASE Follows(f, h)
    <3>1. f.of = h.of /\ Reach(f) = h.at
      BY <1>1, <2>2 DEF Follows, Reach, Placed
    <3>2. QED
      BY <3>1, <1>5
  <2>3. QED
    BY <2>1, <2>2 DEF Proceeds
<1>6. ASSUME clientsUp, NEW c \in Clients \ gaveUp, \A f \in handlers' : f.of # c
      PROVE  Abreast(c, said[c])'
  <2>1. CASE c = h.of
    <3>1. h.at = h.last
      BY <1>6, <2>1 DEF Proceeds, Follows
    <3>2. h.last = said[c]
      BY <1>6, <2>1 DEF Sequential
    <3>3. QED
      BY <1>6, <2>1, <3>1, <3>2 DEF Proceeds
  <2>2. CASE c # h.of
    <3>1. \A f \in handlers : f.of # c
      BY <1>6, <2>2 DEF Proceeds
    <3>2. Abreast(c, said[c])
      BY <1>6, <3>1 DEF Reached
    <3>3. said[c] \in Nat /\ said' = said
      BY <1>3 DEF Proceeds
    <3>4. QED
      BY <2>2, <3>2, <3>3
  <2>3. QED
    BY <2>1, <2>2
<1>7. QED
  BY <1>4, <1>5, <1>6 DEF Reached, Proceeds

-----------------------------------------------------------------------------
(* What a record does to the maps. *)

LEMMA CurrentIsEvent ==
  ASSUME ProxyConstants, Typed, NEW h \in handlers
  PROVE  /\ h.of \in Clients /\ h.at \in 1..Len(Script[h.of]) /\ h.at \in Nat
         /\ Current(h) \in Ids /\ Current(h) # None
         /\ Current(h)[1] = h.of /\ Current(h)[2] = h.at
         /\ Kind(h) \in Kinds /\ Event(Current(h)).duration \in Nat
         /\ Conversation(h) \in Conversations \union {Anonymous}
         /\ Named(h) => Conversation(h) \in Conversations /\ Conversation(h) \in Owned(h.of)
<1>1. Placed(h) /\ said[h.of] <= Len(Script[h.of]) /\ said[h.of] \in Nat
  BY DEF Typed, Placed
<1>2. h.of \in Clients /\ Len(Script[h.of]) \in Nat
  BY <1>1, LengthsAreNat DEF Placed
<1>3. h.at \in 1..Len(Script[h.of]) /\ h.at \in Nat
  BY <1>1, <1>2 DEF Placed
<1>4. Current(h) \in Ids /\ Current(h) # None /\ Kind(h) \in Kinds
      /\ Event(Current(h)).duration \in Nat
      /\ Conversation(h) \in Conversations \union {Anonymous}
  BY <1>2, <1>3, EventsHaveShape DEF Current, Kind, Conversation
<1>5. Conversation(h) = Script[h.of][h.at].conversation
  BY DEF Conversation, Event, Current
<1>6. QED
  BY <1>2, <1>3, <1>4, <1>5 DEF Named, Owned, Current

\* The maps follow the event h was at: a message or a call of its conversation.
LEMMA MapsFollow ==
  ASSUME ProxyConstants, Typed, Sequential, Reached,
         NEW h \in handlers, h.step \in Working, Proceeds(h),
         \A v \in Conversations :
           messageSpans'[v] = IF Kind(h) = "prompt" /\ Conversation(h) = v
                              THEN Current(h) ELSE messageSpans[v],
         \A v \in Conversations : Conversation(h) # v => llmCalls'[v] = llmCalls[v],
         \A v \in Conversations :
           llmCalls'[v] = None
           \/ llmCalls'[v] = IF Kind(h) = "request" /\ Conversation(h) = v
                             THEN Current(h) ELSE llmCalls[v]
  PROVE  Reached'
<1>1. h.of \in Clients /\ h.at \in Nat /\ h.at >= 1 /\ Current(h) = <<h.of, (h.at - 1) + 1>>
  BY CurrentIsEvent DEF Current
<1>2. \A c : Owned(c) \subseteq Conversations
  BY DEF Owned
<1>3. Anonymous \notin Conversations
  BY DEF ProxyConstants
<1>4. ASSUME h.of \notin gaveUp PROVE Abreast(h.of, h.at)'
  <2>1. Abreast(h.of, h.at - 1)
    BY <1>4 DEF Reached, Reach, Working
  <2> DEFINE n == h.at - 1
  <2>2. n \in Nat /\ n + 1 = h.at
    BY <1>1
  <2> SUFFICES ASSUME NEW v \in Owned(h.of)
               PROVE  /\ IsLast(messageSpans'[v], h.of, n + 1, v, "prompt")
                      /\ llmCalls'[v] # None
                           => IsLast(llmCalls'[v], h.of, n + 1, v, "request")
    BY <2>2 DEF Abreast
  <2>3. v \in Conversations /\ v # Anonymous
    BY <1>2, <1>3
  <2>4. /\ IsLast(messageSpans[v], h.of, n, v, "prompt")
        /\ llmCalls[v] # None => IsLast(llmCalls[v], h.of, n, v, "request")
    BY <2>1 DEF Abreast
  <2>5. /\ Event(<<h.of, n + 1>>).kind = Kind(h)
        /\ Event(<<h.of, n + 1>>).conversation = Conversation(h)
    BY <1>1 DEF Kind, Conversation
  <2> HIDE DEF n
  <2>6. IsLast(messageSpans'[v], h.of, n + 1, v, "prompt")
    <3>1. CASE Kind(h) = "prompt" /\ Conversation(h) = v
      <4>1. messageSpans'[v] = <<h.of, n + 1>>
        BY <1>1, <2>3, <3>1 DEF n
      <4>2. QED
        BY <2>2, <2>3, <2>5, <3>1, <4>1, LastIsTaken
    <3>2. CASE ~(Kind(h) = "prompt" /\ Conversation(h) = v)
      <4>1. messageSpans'[v] = messageSpans[v]
        BY <2>3, <3>2
      <4>2. QED
        BY <2>2, <2>4, <2>5, <3>2, <4>1, LastPassesBy
    <3>3. QED
      BY <3>1, <3>2
  <2>7. ASSUME llmCalls'[v] # None
        PROVE  IsLast(llmCalls'[v], h.of, n + 1, v, "request")
    <3>1. CASE Kind(h) = "request" /\ Conversation(h) = v
      <4>1. llmCalls'[v] = <<h.of, n + 1>>
        BY <1>1, <2>3, <2>7, <3>1 DEF n
      <4>2. QED
        BY <2>2, <2>3, <2>5, <3>1, <4>1, LastIsTaken
    <3>2. CASE ~(Kind(h) = "request" /\ Conversation(h) = v)
      <4>1. llmCalls'[v] = llmCalls[v]
        BY <2>3, <2>7, <3>2
      <4>2. IsLast(llmCalls[v], h.of, n, v, "request")
        BY <2>4, <2>7, <4>1
      <4>3. QED
        BY <2>2, <2>5, <3>2, <4>1, <4>2, LastPassesBy
    <3>3. QED
      BY <3>1, <3>2
  <2>8. QED
    BY <2>6, <2>7
<1>5. ASSUME NEW c \in Clients, NEW n \in Nat, c # h.of, Abreast(c, n)
      PROVE  Abreast(c, n)'
  <2> SUFFICES ASSUME NEW v \in Owned(c)
               PROVE  messageSpans'[v] = messageSpans[v] /\ llmCalls'[v] = llmCalls[v]
    BY <1>5 DEF Abreast
  <2>1. v \in Conversations /\ v # Anonymous
    BY <1>2, <1>3
  <2>2. Conversation(h) # v
    <3>1. SUFFICES ASSUME Conversation(h) = v PROVE FALSE
      OBVIOUS
    <3>2. Conversation(h) \in Owned(h.of)
      BY <2>1, <3>1, CurrentIsEvent DEF Named
    <3>3. QED
      BY <1>1, <1>5, <3>1, <3>2, OwnedByOne
  <2>3. QED
    BY <2>1, <2>2
<1>6. QED
  BY <1>4, <1>5, ProceedsAbreast

-----------------------------------------------------------------------------
(* Steps that change no span that is made: they may make the one of the    *)
(* event h was at.                                                         *)

HeapKeeps ==
  /\ heap' \in [Ids -> Spans \union {None}]
  /\ \A id \in Ids : heap[id] # None => heap'[id] = heap[id]

MakesAtMost(h) == \A id \in Ids : heap'[id] # None => heap[id] # None \/ id = Current(h)

LEMMA MadeStaysMade ==
  ASSUME HeapKeeps, NEW id, NEW v, NEW kind, IsMade(id, v, kind)
  PROVE  IsMade(id, v, kind)'
BY DEF HeapKeeps, IsMade

LEMMA CallsStand ==
  ASSUME OwnOnly, InPlace, HeapKeeps, gaveUp \subseteq gaveUp', NEW call \in CallsMade
  PROVE  OwnCall(call)' /\ (call[1] \notin gaveUp' => PlacedCall(call)')
<1>1. heap'[call] = heap[call]
  BY DEF HeapKeeps, CallsMade
<1>2. OwnCall(call) /\ (call[1] \notin gaveUp => PlacedCall(call))
  BY DEF OwnOnly, InPlace
<1>3. heap[call].parent # None => heap'[heap[call].parent] = heap[heap[call].parent]
  BY <1>2 DEF OwnCall, IsMade, HeapKeeps
<1>4. OwnCall(call)'
  BY <1>1, <1>2, MadeStaysMade DEF OwnCall
<1>5. call[1] \notin gaveUp' => PlacedCall(call)'
  BY <1>1, <1>2, <1>3 DEF PlacedCall
<1>6. QED
  BY <1>4, <1>5

LEMMA StaysFresh ==
  ASSUME ProxyConstants, Typed, Apart, Fresh, NEW h \in handlers, h.step \in Working,
         Proceeds(h), HeapKeeps, MakesAtMost(h)
  PROVE  Fresh'
<1>1. said' = said
  BY DEF Proceeds
<1>2. \A id \in Ids : heap'[id] # None => id[2] <= said'[id[1]]
  BY <1>1, CurrentIsEvent DEF MakesAtMost, Fresh, Typed, Placed
<1>3. ASSUME NEW f \in handlers', NEW i \in f.at..f.last, Unmade(f, i)
      PROVE  heap'[<<f.of, i>>] = None
  <2>1. <<f.of, i>> # Current(h) /\ heap[<<f.of, i>>] = None
    BY <1>3, ProceedsUnmade
  <2>2. Placed(f)'
    BY ProceedsInPlace
  <2>3. f.of \in Clients /\ i \in 1..Len(Script[f.of])
    BY <1>1, <2>2, LengthsAreNat DEF Placed, Typed
  <2>4. <<f.of, i>> \in Ids
    BY <2>3, EventsHaveShape
  <2>5. QED
    BY <2>1, <2>4 DEF MakesAtMost
<1>4. QED
  BY <1>2, <1>3 DEF Fresh, Unmade


\* Two requests are not at the same event.
LEMMA CurrentsDiffer ==
  ASSUME ProxyConstants, Typed, Apart, NEW h \in handlers, NEW g \in handlers, g # h
  PROVE  Current(g) # Current(h)
<1>1. Placed(g) /\ Placed(h)
  BY DEF Typed
<1>2. g.of = h.of => g.at # h.at
  BY <1>1 DEF Apart, Placed
<1>3. QED
  BY <1>2 DEF Current

\* A record that changes no span made, and makes no call.
MapsKeep(h) ==
  /\ messageSpans' \in [Conversations -> Ids \union {None}]
  /\ llmCalls' \in [Conversations -> Ids \union {None}]
  /\ \A v \in Conversations :
       messageSpans'[v] = IF Kind(h) = "prompt" /\ Conversation(h) = v
                          THEN Current(h) ELSE messageSpans[v]
  /\ \A v \in Conversations : Conversation(h) # v => llmCalls'[v] = llmCalls[v]
  /\ \A v \in Conversations :
       llmCalls'[v] = None
       \/ llmCalls'[v] = IF Kind(h) = "request" /\ Conversation(h) = v
                         THEN Current(h) ELSE llmCalls[v]
  /\ Kind(h) = "prompt" => heap'[Current(h)] # None
  /\ Kind(h) = "request" => h.step = "remember"

\* It is in the state after the step.
WillBeMade(id, v, kind) ==
  id \in Ids /\ heap'[id] # None /\ Event(id).kind = kind /\ Event(id).conversation = v

LEMMA KeepingMade ==
  ASSUME ProxyConstants, ProxyInv, NEW h \in handlers, h.step \in Working, Proceeds(h),
         HeapKeeps, CallsMade' \subseteq CallsMade, MapsKeep(h)
  PROVE  Made' /\ Followed' /\ InPlace'
<1> USE DEF ProxyInv, Made, Ordered
<1>1. \A f \in handlers' : f.step \in {"remember", "append"} => f \in handlers /\ f # h
  BY ProceedsInPlace
<1>2. \A f : Current(f)' = Current(f) /\ Kind(f)' = Kind(f)
             /\ Conversation(f)' = Conversation(f) /\ Named(f)' = Named(f)
  BY DEF Current, Kind, Conversation, Named
<1>3. Current(h) \in Ids
  BY CurrentIsEvent
<1>4. Messages'
  <2> SUFFICES ASSUME NEW v \in Conversations, messageSpans'[v] # None
               PROVE  WillBeMade(messageSpans'[v], v, "prompt")
    BY DEF Messages, IsMade, WillBeMade
  <2>1. CASE Kind(h) = "prompt" /\ Conversation(h) = v
    BY <1>3, <2>1 DEF MapsKeep, IsMade, WillBeMade, Kind, Conversation
  <2>2. CASE ~(Kind(h) = "prompt" /\ Conversation(h) = v)
    <3>1. messageSpans'[v] = messageSpans[v]
      BY <2>2 DEF MapsKeep
    <3>2. IsMade(messageSpans[v], v, "prompt")
      BY <3>1 DEF Messages
    <3>3. QED
      BY <3>1, <3>2 DEF IsMade, WillBeMade, HeapKeeps
  <2>3. QED
    BY <2>1, <2>2
<1>5. Remembering'
  <2> SUFFICES ASSUME NEW f \in handlers', f.step = "remember"
               PROVE  /\ Kind(f) = "request" /\ heap'[Current(f)] # None
                      /\ heap'[Current(f)].counts = {}
    BY <1>2 DEF Remembering
  <2>1. f \in handlers
    BY <1>1
  <2>2. QED
    BY <2>1, CurrentIsEvent DEF Remembering, HeapKeeps
<1>6. Pending'
  <2> SUFFICES ASSUME NEW v \in Conversations, llmCalls'[v] # None
               PROVE  /\ WillBeMade(llmCalls'[v], v, "request")
                      /\ heap'[llmCalls'[v]].counts = {}
                      /\ \A f \in handlers' :
                           /\ f.step = "append" => f.span # llmCalls'[v]
                           /\ f.step = "remember" => Current(f) # llmCalls'[v]
    BY <1>2 DEF Pending, IsMade, WillBeMade
  <2>1. CASE Kind(h) = "request" /\ Conversation(h) = v
    <3>1. llmCalls'[v] = Current(h) /\ h.step = "remember"
      BY <2>1 DEF MapsKeep
    <3>2. heap[Current(h)] # None /\ heap[Current(h)].counts = {}
      BY <3>1 DEF Remembering
    <3>3. WillBeMade(Current(h), v, "request") /\ heap'[Current(h)].counts = {}
      BY <1>3, <2>1, <3>2 DEF IsMade, WillBeMade, HeapKeeps, Kind, Conversation
    <3>4. ASSUME NEW f \in handlers'
          PROVE  /\ f.step = "append" => f.span # Current(h)
                 /\ f.step = "remember" => Current(f) # Current(h)
      BY <1>1, <3>1, CurrentsDiffer DEF Taken
    <3>5. QED
      BY <3>1, <3>3, <3>4
  <2>2. CASE ~(Kind(h) = "request" /\ Conversation(h) = v)
    <3>1. llmCalls'[v] = llmCalls[v]
      BY <2>2 DEF MapsKeep
    <3>2. /\ IsMade(llmCalls[v], v, "request") /\ heap[llmCalls[v]].counts = {}
          /\ \A f \in handlers : /\ f.step = "append" => f.span # llmCalls[v]
                                 /\ f.step = "remember" => Current(f) # llmCalls[v]
      BY <3>1 DEF Pending
    <3>3. WillBeMade(llmCalls[v], v, "request") /\ heap'[llmCalls[v]].counts = {}
      BY <3>2 DEF IsMade, WillBeMade, HeapKeeps
    <3>4. QED
      BY <1>1, <3>1, <3>2, <3>3
  <2>3. QED
    BY <2>1, <2>2
<1>7. Taken'
  <2> SUFFICES ASSUME NEW f \in handlers', f.step = "append"
               PROVE  /\ Kind(f) = "usage" /\ Named(f)
                      /\ WillBeMade(f.span, Conversation(f), "request")
                      /\ heap'[f.span].counts = {}
                      /\ \A g \in handlers' :
                           /\ g.step = "append" /\ g # f => g.span # f.span
                           /\ g.step = "remember" => Current(g) # f.span
    BY <1>2 DEF Taken, IsMade, WillBeMade
  <2>1. f \in handlers
    BY <1>1
  <2>2. Kind(f) = "usage" /\ Named(f) /\ IsMade(f.span, Conversation(f), "request")
        /\ heap[f.span].counts = {}
    BY <2>1 DEF Taken
  <2>3. WillBeMade(f.span, Conversation(f), "request") /\ heap'[f.span].counts = {}
    BY <2>2 DEF IsMade, WillBeMade, HeapKeeps, Conversation, Event, Current
  <2>4. QED
    BY <1>1, <2>1, <2>2, <2>3 DEF Taken
<1>8. Followed'
  <2>1. \A f \in handlers' : f.step = "append" => f \in handlers
    BY <1>1
  <2>2. gaveUp' = gaveUp
    BY DEF Proceeds
  <2>3. QED
    BY <2>1, <2>2 DEF Followed, Current
<1>9. OwnOnly' /\ InPlace'
  <2>1. \A call \in CallsMade' :
          OwnCall(call)' /\ (call[1] \notin gaveUp' => PlacedCall(call)')
    BY CallsStand DEF Proceeds
  <2>2. QED
    BY <2>1 DEF OwnOnly, InPlace
<1>10. QED
  BY <1>4, <1>5, <1>6, <1>7, <1>8, <1>9

LEMMA KeepingStep ==
  ASSUME ProxyConstants, ProxyInv, NEW h \in handlers, h.step \in Working, Proceeds(h),
         HeapKeeps, MakesAtMost(h), CallsMade' \subseteq CallsMade, MapsKeep(h)
  PROVE  ProxyInv'
<1> USE DEF ProxyInv, Ordered
<1>1. Typed'
  BY ProceedsInPlace DEF Proceeds, Typed, HeapKeeps, MapsKeep
<1>2. Apart' /\ Fresh' /\ Sequential'
  BY ProceedsInPlace, StaysFresh, ProceedsInOrder
<1>3. Reached'
  BY MapsFollow DEF MapsKeep
<1>4. QED
  BY <1>1, <1>2, <1>3, KeepingMade


\* A new span is one.
LEMMA NewSpan ==
  ASSUME NEW parent \in Ids \union {None}, NEW start \in Int
  PROVE  Span(parent, start) \in Spans /\ Span(parent, start).counts = {}
         /\ Span(parent, start).parent = parent /\ Span(parent, start).start = start
BY DEF Span, Spans

LEMMA HeapGrows ==
  ASSUME ProxyConstants, Typed, Fresh, NEW h \in handlers, h.step = "record",
         NEW parent \in Ids \union {None}, NEW start \in Int,
         heap' = [heap EXCEPT ![Current(h)] = Span(parent, start)]
  PROVE  /\ HeapKeeps /\ MakesAtMost(h) /\ heap[Current(h)] = None
         /\ heap'[Current(h)] = Span(parent, start) /\ heap'[Current(h)] # None
<1>1. Current(h) \in Ids
  BY CurrentIsEvent
<1>2. heap[Current(h)] = None
  BY DEF Fresh, Unmade, Current, Typed, Placed
<1>3. Span(parent, start) \in Spans /\ Span(parent, start) # None
  BY NewSpan, SpansAreNotNone
<1>4. heap \in [Ids -> Spans \union {None}]
  BY DEF Typed
<1> DEFINE new == Span(parent, start)
<1>5. new \in Spans /\ new # None /\ heap' = [heap EXCEPT ![Current(h)] = new]
  BY <1>3
<1> HIDE DEF new
<1>6. heap'[Current(h)] = new /\ \A id \in Ids : id # Current(h) => heap'[id] = heap[id]
  BY <1>1, <1>4, <1>5
<1>7. heap' \in [Ids -> Spans \union {None}]
  BY <1>1, <1>4, <1>5
<1>8. QED
  BY <1>2, <1>5, <1>6, <1>7 DEF HeapKeeps, MakesAtMost, new

LEMMA MessageSpanKeeps ==
  ASSUME ProxyConstants, ProxyInv, NEW h \in handlers, MessageSpan(h)
  PROVE  ProxyInv'
<1>1. h.step \in Working /\ Kind(h) = "prompt" /\ Shaped(h)
  BY DEF MessageSpan, Working, ProxyInv, Typed
<1>2. Proceeds(h)
  BY <1>1, HandledGoesOn DEF MessageSpan
<1>3. h.at \in Int /\ None \in Ids \union {None}
  BY DEF ProxyInv, Typed, Placed
<1>4. HeapKeeps /\ MakesAtMost(h) /\ heap'[Current(h)] # None
  BY <1>3, HeapGrows DEF MessageSpan, ProxyInv
<1>5. CallsMade' \subseteq CallsMade
  BY <1>1, <1>4 DEF CallsMade, MakesAtMost, Kind
<1>6. MapsKeep(h)
  <2>1. Current(h) \in Ids /\ Anonymous \notin Conversations
    BY CurrentIsEvent DEF ProxyInv, ProxyConstants
  <2>2. llmCalls' = llmCalls /\ Typed
    BY DEF MessageSpan, ProxyInv
  <2>3. messageSpans' \in [Conversations -> Ids \union {None}]
        /\ \A v \in Conversations :
             messageSpans'[v] = IF Conversation(h) = v THEN Current(h) ELSE messageSpans[v]
    BY <2>1, <2>2 DEF MessageSpan, Named, Typed
  <2>4. QED
    BY <1>1, <1>4, <2>2, <2>3 DEF MapsKeep, Typed
<1>7. QED
  BY <1>1, <1>2, <1>4, <1>5, <1>6, KeepingStep

LEMMA PassSpanKeeps ==
  ASSUME ProxyConstants, ProxyInv, NEW h \in handlers, PassSpan(h)
  PROVE  ProxyInv'
<1>1. h.step \in Working /\ Kind(h) = "span" /\ Shaped(h)
  BY DEF PassSpan, Working, ProxyInv, Typed
<1>2. Proceeds(h)
  BY <1>1, HandledGoesOn DEF PassSpan
<1>3. h.at \in Int /\ None \in Ids \union {None}
  BY DEF ProxyInv, Typed, Placed
<1>4. HeapKeeps /\ MakesAtMost(h)
  BY <1>3, HeapGrows DEF PassSpan, ProxyInv
<1>5. CallsMade' \subseteq CallsMade
  BY <1>1, <1>4 DEF CallsMade, MakesAtMost, Kind
<1>6. MapsKeep(h)
  BY <1>1 DEF MapsKeep, PassSpan, ProxyInv, Typed
<1>7. QED
  BY <1>1, <1>2, <1>4, <1>5, <1>6, KeepingStep

LEMMA SpanForRecordKeeps ==
  ASSUME ProxyConstants, ProxyInv, NEW h \in handlers, SpanForRecord(h)
  PROVE  ProxyInv'
<1>1. h.step \in Working /\ Kind(h) \in {"completed", "other"} /\ Shaped(h)
  BY DEF SpanForRecord, Working, ProxyInv, Typed
<1>2. Proceeds(h)
  BY <1>1, HandledGoesOn DEF SpanForRecord
<1>3. HeapKeeps /\ MakesAtMost(h) /\ CallsMade' \subseteq CallsMade
  BY DEF SpanForRecord, mapVars, HeapKeeps, MakesAtMost, CallsMade, ProxyInv, Typed
<1>4. MapsKeep(h)
  BY <1>1 DEF MapsKeep, SpanForRecord, mapVars, ProxyInv, Typed
<1>5. QED
  BY <1>1, <1>2, <1>3, <1>4, KeepingStep

LEMMA RememberLLMCallKeeps ==
  ASSUME ProxyConstants, ProxyInv, NEW h \in handlers, RememberLLMCall(h)
  PROVE  ProxyInv'
<1>1. h.step \in Working /\ h.step = "remember" /\ Kind(h) = "request" /\ Shaped(h)
  BY DEF RememberLLMCall, Working, ProxyInv, Typed, Made, Remembering
<1>2. Proceeds(h)
  BY <1>1, HandledGoesOn DEF RememberLLMCall
<1>3. HeapKeeps /\ MakesAtMost(h) /\ CallsMade' \subseteq CallsMade
  BY DEF RememberLLMCall, HeapKeeps, MakesAtMost, CallsMade, ProxyInv, Typed
<1>4. MapsKeep(h)
  <2>1. Current(h) \in Ids /\ Anonymous \notin Conversations
    BY CurrentIsEvent DEF ProxyInv, ProxyConstants
  <2>2. messageSpans' = messageSpans /\ Typed
    BY DEF RememberLLMCall, ProxyInv
  <2>3. llmCalls' \in [Conversations -> Ids \union {None}]
        /\ \A v \in Conversations :
             llmCalls'[v] = IF Conversation(h) = v THEN Current(h) ELSE llmCalls[v]
    BY <2>1, <2>2 DEF RememberLLMCall, Named, Typed
  <2>4. QED
    BY <1>1, <2>2, <2>3 DEF MapsKeep, Typed
<1>5. QED
  BY <1>1, <1>2, <1>3, <1>4, KeepingStep

\* Counts that find no call pending.
LEMMA CountsDropped ==
  ASSUME ProxyConstants, ProxyInv, NEW h \in handlers, TakeLLMCall(h), Proceeds(h)
  PROVE  ProxyInv'
<1>1. h.step \in Working /\ Kind(h) = "usage" /\ Shaped(h)
  BY DEF TakeLLMCall, Working, ProxyInv, Typed
<1>2. HeapKeeps /\ MakesAtMost(h) /\ CallsMade' \subseteq CallsMade
  BY DEF TakeLLMCall, HeapKeeps, MakesAtMost, CallsMade, ProxyInv, Typed
<1>3. MapsKeep(h)
  <2>1. messageSpans' = messageSpans /\ Typed
    BY DEF TakeLLMCall, ProxyInv
  <2>2. llmCalls' \in [Conversations -> Ids \union {None}]
        /\ \A v \in Conversations : llmCalls'[v] = IF Conversation(h) = v /\ Named(h)
                                                     THEN None ELSE llmCalls[v]
    BY <2>1 DEF TakeLLMCall, Typed
  <2>3. QED
    BY <1>1, <2>1, <2>2 DEF MapsKeep, Typed
<1>4. QED
  BY <1>1, <1>2, <1>3, KeepingStep


-----------------------------------------------------------------------------
(* The counts are added to the call that was taken for them.               *)

LEMMA WithCounts ==
  ASSUME NEW s \in Spans, NEW cs \in SUBSET Ids, NEW t, t = [s EXCEPT !.counts = cs]
  PROVE  t \in Spans /\ t.parent = s.parent /\ t.start = s.start /\ t.counts = cs
BY DEF Spans

LEMMA SpansAreSpans ==
  ASSUME NEW s \in Spans
  PROVE  s # None
<1>1. DOMAIN s = {"parent", "start", "counts"}
  BY DEF Spans
<1>2. DOMAIN None = {}
  BY DEF None
<1>3. QED
  BY <1>1, <1>2

LEMMA HeapCounts ==
  ASSUME ProxyConstants, ProxyInv, NEW h \in handlers, LlmCallUsageSpan(h)
  PROVE  /\ h.span \in Ids /\ heap[h.span] # None
         /\ heap' \in [Ids -> Spans \union {None}]
         /\ \A id \in Ids : id # h.span => heap'[id] = heap[id]
         /\ heap'[h.span] # None /\ heap'[h.span].counts = {Current(h)}
         /\ heap'[h.span].parent = heap[h.span].parent
         /\ heap'[h.span].start = heap[h.span].start
<1>1. h.step = "append" /\ heap \in [Ids -> Spans \union {None}]
  BY DEF LlmCallUsageSpan, ProxyInv, Typed
<1>2. h.span \in Ids /\ heap[h.span] # None /\ heap[h.span].counts = {}
  BY <1>1 DEF ProxyInv, Made, Taken, IsMade, WillBeMade
<1>3. heap[h.span] \in Spans /\ Current(h) \in Ids
  BY <1>1, <1>2, CurrentIsEvent DEF ProxyInv
<1> DEFINE cs == heap[h.span].counts \union {Current(h)}
           t  == [heap[h.span] EXCEPT !.counts = cs]
<1>4. cs = {Current(h)} /\ cs \in SUBSET Ids
  BY <1>2, <1>3
<1>5. heap' = [heap EXCEPT ![h.span] = t]
  BY DEF LlmCallUsageSpan
<1> HIDE DEF cs
<1>6. t \in Spans /\ t.parent = heap[h.span].parent /\ t.start = heap[h.span].start
      /\ t.counts = cs
  BY <1>3, <1>4, WithCounts
<1> HIDE DEF t
<1>7. t # None
  BY <1>6, SpansAreSpans
<1>8. QED
  BY <1>1, <1>2, <1>4, <1>5, <1>6, <1>7

LEMMA LlmCallUsageSpanKeeps ==
  ASSUME ProxyConstants, ProxyInv, NEW h \in handlers, LlmCallUsageSpan(h)
  PROVE  ProxyInv'
<1> USE DEF ProxyInv, Made, Ordered
<1>1. h.step \in Working /\ h.step = "append" /\ Shaped(h)
  BY DEF LlmCallUsageSpan, Working, Typed
<1>2. Proceeds(h)
  BY <1>1, HandledGoesOn DEF LlmCallUsageSpan
<1>3. messageSpans' = messageSpans /\ llmCalls' = llmCalls /\ said' = said /\ gaveUp' = gaveUp
  BY <1>2 DEF LlmCallUsageSpan, Proceeds
<1>4. /\ Kind(h) = "usage" /\ Named(h)
      /\ IsMade(h.span, Conversation(h), "request")
      /\ \A g \in handlers : /\ g.step = "append" /\ g # h => g.span # h.span
                             /\ g.step = "remember" => Current(g) # h.span
  BY <1>1 DEF Taken
<1>5. /\ h.span \in Ids /\ heap[h.span] # None
      /\ \A id \in Ids : id # h.span => heap'[id] = heap[id]
      /\ heap'[h.span] # None /\ heap'[h.span].counts = {Current(h)}
      /\ heap'[h.span].parent = heap[h.span].parent
      /\ heap'[h.span].start = heap[h.span].start
  BY HeapCounts
<1>6. \A f \in handlers' : f.step \in {"remember", "append"} => f \in handlers /\ f # h
  BY <1>1, <1>2, ProceedsInPlace
<1>7. \A f : Current(f)' = Current(f) /\ Kind(f)' = Kind(f)
             /\ Conversation(f)' = Conversation(f) /\ Named(f)' = Named(f)
  BY DEF Current, Kind, Conversation, Named
<1>8. ASSUME NEW id, NEW v, NEW kind, IsMade(id, v, kind) PROVE WillBeMade(id, v, kind)
  BY <1>5, <1>8 DEF IsMade, WillBeMade
<1>9. Typed' /\ Apart' /\ Sequential'
  <2>1. heap' \in [Ids -> Spans \union {None}]
    BY HeapCounts
  <2>2. QED
    BY <1>1, <1>2, <1>3, <2>1, ProceedsInPlace, ProceedsInOrder DEF Typed
<1>10. Fresh'
  <2>1. \A id \in Ids : heap'[id] # None => id[2] <= said'[id[1]]
    BY <1>3, <1>5 DEF Fresh
  <2>2. ASSUME NEW f \in handlers', NEW i \in f.at..f.last, Unmade(f, i)
        PROVE  heap'[<<f.of, i>>] = None
    <3>1. heap[<<f.of, i>>] = None
      BY <1>1, <1>2, <2>2, ProceedsUnmade
    <3>2. Placed(f)'
      BY <1>1, <1>2, ProceedsInPlace
    <3>3. f.of \in Clients /\ i \in 1..Len(Script[f.of])
      BY <1>3, <3>2, LengthsAreNat DEF Placed, Typed
    <3>4. <<f.of, i>> \in Ids
      BY <3>3, EventsHaveShape
    <3>5. QED
      BY <1>5, <3>1, <3>4
  <2>3. QED
    BY <2>1, <2>2 DEF Fresh, Unmade
<1>11. Reached'
  BY <1>1, <1>2, <1>3, <1>4, MapsFollow
<1>12. Messages'
  BY <1>3, <1>8 DEF Messages, IsMade, WillBeMade
<1>13. Remembering'
  <2> SUFFICES ASSUME NEW f \in handlers', f.step = "remember"
               PROVE  /\ Kind(f) = "request" /\ heap'[Current(f)] # None
                      /\ heap'[Current(f)].counts = {}
    BY <1>7 DEF Remembering
  <2>1. f \in handlers /\ Current(f) \in Ids
    BY <1>6, CurrentIsEvent
  <2>2. QED
    BY <1>4, <1>5, <2>1 DEF Remembering
<1>14. Pending'
  <2> SUFFICES ASSUME NEW v \in Conversations, llmCalls[v] # None
               PROVE  /\ WillBeMade(llmCalls[v], v, "request")
                      /\ heap'[llmCalls[v]].counts = {}
                      /\ \A f \in handlers' :
                           /\ f.step = "append" => f.span # llmCalls[v]
                           /\ f.step = "remember" => Current(f) # llmCalls[v]
    BY <1>3, <1>7 DEF Pending, IsMade, WillBeMade
  <2>1. /\ IsMade(llmCalls[v], v, "request") /\ heap[llmCalls[v]].counts = {}
        /\ \A f \in handlers : /\ f.step = "append" => f.span # llmCalls[v]
                               /\ f.step = "remember" => Current(f) # llmCalls[v]
    BY DEF Pending
  <2>2. llmCalls[v] # h.span /\ llmCalls[v] \in Ids
    BY <1>1, <2>1 DEF IsMade, WillBeMade
  <2>3. WillBeMade(llmCalls[v], v, "request")
    BY <2>1, <2>2, <1>5 DEF IsMade, WillBeMade
  <2>4. QED
    BY <1>5, <1>6, <2>1, <2>2, <2>3
<1>15. Taken'
  <2> SUFFICES ASSUME NEW f \in handlers', f.step = "append"
               PROVE  /\ Kind(f) = "usage" /\ Named(f)
                      /\ WillBeMade(f.span, Conversation(f), "request")
                      /\ heap'[f.span].counts = {}
                      /\ \A g \in handlers' :
                           /\ g.step = "append" /\ g # f => g.span # f.span
                           /\ g.step = "remember" => Current(g) # f.span
    BY <1>7 DEF Taken, IsMade, WillBeMade
  <2>1. f \in handlers /\ f # h
    BY <1>6
  <2>2. Kind(f) = "usage" /\ Named(f) /\ IsMade(f.span, Conversation(f), "request")
        /\ heap[f.span].counts = {}
    BY <2>1 DEF Taken
  <2>3. f.span # h.span /\ f.span \in Ids
    BY <1>4, <2>1, <2>2 DEF IsMade, WillBeMade
  <2>4. WillBeMade(f.span, Conversation(f), "request") /\ heap'[f.span].counts = {}
    BY <1>5, <2>2, <2>3 DEF IsMade, WillBeMade, Conversation, Event, Current
  <2>5. QED
    BY <1>6, <2>1, <2>2, <2>4 DEF Taken
<1>16. Followed'
  <2>1. \A f \in handlers' : f.step = "append" => f \in handlers
    BY <1>6
  <2>2. QED
    BY <1>3, <2>1 DEF Followed, Current
<1>17. ASSUME NEW call \in CallsMade'
       PROVE  OwnCall(call)' /\ (call[1] \notin gaveUp => PlacedCall(call)')
  <2>1. call \in CallsMade /\ call \in Ids
    BY <1>5, <1>17 DEF CallsMade
  <2>2. OwnCall(call) /\ (call[1] \notin gaveUp => PlacedCall(call))
    BY <2>1 DEF OwnOnly, InPlace
  <2>3. heap'[call].parent = heap[call].parent /\ heap'[call].start = heap[call].start
    BY <1>5, <2>1
  <2> DEFINE p == heap[call].parent
  <2>4. p # None => IsMade(p, Event(call).conversation, "prompt")
    BY <2>2 DEF OwnCall
  <2>5. p # None => p # h.span /\ heap'[p] = heap[p]
                    /\ WillBeMade(p, Event(call).conversation, "prompt")
    BY <1>4, <1>5, <2>4 DEF IsMade, WillBeMade
  <2>6. CASE call # h.span
    <3>1. heap'[call] = heap[call]
      BY <1>5, <2>1, <2>6
    <3>2. OwnCall(call)'
      BY <2>2, <2>5, <3>1 DEF OwnCall, IsMade, WillBeMade
    <3>3. call[1] \notin gaveUp => PlacedCall(call)'
      BY <2>2, <2>5, <3>1 DEF PlacedCall
    <3>4. QED
      BY <3>2, <3>3
  <2>7. CASE call = h.span
    <3>1. heap'[call].counts = {Current(h)}
      BY <1>5, <2>7
    <3>2. Together(Current(h), call)
      BY <1>4, <2>7 DEF Together, IsMade, WillBeMade, Conversation
    <3>3. OwnCall(call)'
      BY <2>3, <2>5, <3>1, <3>2 DEF OwnCall, IsMade, WillBeMade
    <3>4. ASSUME call[1] \notin gaveUp PROVE PlacedCall(call)'
      <4>1. call[1] = h.of
        BY <2>1, <3>2, <1>4, CurrentIsEvent
           DEF Together, ProxyConstants, Named, Conversation
      <4>2. IsLastBefore(call, Current(h), "request")
        BY <1>1, <2>7, <3>4, <4>1 DEF Followed
      <4>3. QED
        BY <2>2, <2>3, <2>5, <3>1, <3>4, <4>2 DEF PlacedCall
    <3>5. QED
      BY <3>3, <3>4
  <2>8. QED
    BY <2>6, <2>7
<1>18. OwnOnly' /\ InPlace'
  BY <1>3, <1>17 DEF OwnOnly, InPlace
<1>19. QED
  BY <1>9, <1>10, <1>11, <1>12, <1>13, <1>14, <1>15, <1>16, <1>18

-----------------------------------------------------------------------------
(* Steps with which a request turns to the second half of a record.        *)

\* h is g afterwards, which is at the same event.
Turns(h, g) ==
  /\ Shaped(g) /\ g.of = h.of /\ g.first = h.first /\ g.last = h.last /\ g.at = h.at
  /\ g.gone = h.gone /\ h.step = "record" /\ g.step \in {"remember", "append"}
  /\ handlers' = (handlers \ {h}) \union {g} /\ UNCHANGED clientVars

LEMMA ToRemember ==
  ASSUME NEW h, Shaped(h), h.step = "record", NEW g, g = [h EXCEPT !.step = "remember"],
         Becomes(h, g), UNCHANGED clientVars
  PROVE  Turns(h, g) /\ g.step = "remember" /\ g.span = h.span
BY DEF Shaped, Turns, Becomes

LEMMA ToAppend ==
  ASSUME NEW h, Shaped(h), h.step = "record", NEW call, NEW g,
         g = [h EXCEPT !.step = "append", !.span = call],
         Becomes(h, g), UNCHANGED clientVars
  PROVE  Turns(h, g) /\ g.step = "append" /\ g.span = call
BY DEF Shaped, Turns, Becomes

LEMMA TurnsInPlace ==
  ASSUME Typed, Apart, Sequential, NEW h \in handlers, NEW g, Turns(h, g)
  PROVE  /\ said' = said /\ gaveUp' = gaveUp /\ DOMAIN waiting' = Clients
         /\ clientsUp' = clientsUp
         /\ \A f \in handlers' : Shaped(f) /\ Placed(f)'
         /\ Apart' /\ Sequential' /\ Current(g) = Current(h)
<1>1. said' = said /\ gaveUp' = gaveUp /\ waiting' = waiting /\ clientsUp' = clientsUp
  BY DEF Turns, clientVars
<1>2. \A f \in handlers : Shaped(f) /\ Placed(f)
  BY DEF Typed
<1>3. Placed(g)
  BY <1>2 DEF Turns, Placed
<1>4. \A f \in handlers' : Shaped(f) /\ Placed(f)'
  BY <1>1, <1>2, <1>3 DEF Turns, Placed
<1>5. Apart'
  <2>1. \A f \in handlers \ {h} : f.of = g.of => f.last < g.first \/ g.last < f.first
    BY DEF Apart, Turns
  <2>2. handlers' = (handlers \ {h}) \union {g}
    BY DEF Turns
  <2>3. QED
    BY <2>1, <2>2 DEF Apart
<1>6. Sequential'
  <2> SUFFICES ASSUME NEW f \in handlers', f.of \notin gaveUp
               PROVE  /\ waiting[f.of] /\ ~f.gone /\ f.last = said[f.of]
                      /\ \A e \in handlers' : e.of = f.of => e = f
    BY <1>1 DEF Sequential
  <2>1. handlers' = (handlers \ {h}) \union {g} /\ g.of = h.of
    BY DEF Turns
  <2>2. CASE f = g
    BY <2>1, <2>2 DEF Sequential, Turns
  <2>3. CASE f \in handlers \ {h}
    BY <2>1, <2>3 DEF Sequential
  <2>4. QED
    BY <2>1, <2>2, <2>3
<1>7. QED
  BY <1>1, <1>4, <1>5, <1>6 DEF Typed, Turns, Current

\* The messages stay, and of the calls some may be taken.
LEMMA TurnsAbreast ==
  ASSUME Typed, Apart, Sequential, Reached, NEW h \in handlers, NEW g, Turns(h, g),
         messageSpans' = messageSpans,
         \A v \in Conversations : llmCalls'[v] \in {None, llmCalls[v]}
  PROVE  Reached'
<1>1. ASSUME NEW c, NEW n, Abreast(c, n) PROVE Abreast(c, n)'
  <2>1. Owned(c) \subseteq Conversations
    BY DEF Owned
  <2>2. QED
    BY <1>1, <2>1 DEF Abreast
<1>2. said' = said /\ gaveUp' = gaveUp /\ clientsUp' = clientsUp
  BY TurnsInPlace
<1>3. handlers' = (handlers \ {h}) \union {g} /\ g.of = h.of /\ Reach(g) = Reach(h)
  BY DEF Turns, Reach
<1>4. \A f \in handlers' : f.of \notin gaveUp => Abreast(f.of, Reach(f))
  BY <1>3 DEF Reached
<1>5. \A f \in handlers' : f.of \notin gaveUp' => Abreast(f.of, Reach(f))'
  BY <1>1, <1>2, <1>4 DEF Reach
<1>6. ASSUME clientsUp', NEW c \in Clients \ gaveUp', \A f \in handlers' : f.of # c
      PROVE  Abreast(c, said[c])'
  <2>1. \A f \in handlers : f.of # c
    BY <1>3, <1>6
  <2>2. Abreast(c, said[c])
    BY <1>2, <1>6, <2>1 DEF Reached
  <2>3. QED
    BY <1>1, <1>2, <2>2
<1>7. QED
  BY <1>5, <1>6 DEF Reached, Reach

LEMMA TurnsFresh ==
  ASSUME ProxyConstants, Typed, Apart, Sequential, Fresh, NEW h \in handlers, NEW g,
         Turns(h, g), HeapKeeps, MakesAtMost(h),
         g.step = "remember" \/ heap'[Current(h)] = None
  PROVE  Fresh'
<1>1. said' = said /\ \A f \in handlers' : Placed(f)'
  BY TurnsInPlace
<1>2. \A id \in Ids : heap'[id] # None => id[2] <= said'[id[1]]
  BY <1>1, CurrentIsEvent DEF MakesAtMost, Fresh, Typed, Placed
<1>3. ASSUME NEW f \in handlers', NEW i \in f.at..f.last, Unmade(f, i)
      PROVE  heap'[<<f.of, i>>] = None
  <2>1. f.of \in Clients /\ i \in 1..Len(Script[f.of])
    BY <1>1, LengthsAreNat DEF Placed, Typed
  <2>2. <<f.of, i>> \in Ids
    BY <2>1, EventsHaveShape
  <2>3. CASE f \in handlers \ {h}
    <3>1. heap[<<f.of, i>>] = None
      BY <1>3, <2>3 DEF Fresh
    <3>2. Placed(f) /\ Placed(h)
      BY <2>3 DEF Typed
    <3>3. <<f.of, i>> # Current(h)
      BY <2>3, <3>2 DEF Apart, Placed, Current
    <3>4. QED
      BY <2>2, <3>1, <3>3 DEF MakesAtMost
  <2>4. CASE f = g
    <3>1. f.of = h.of /\ i \in h.at..h.last /\ h.step = "record"
      BY <2>4 DEF Turns
    <3>2. heap[<<f.of, i>>] = None
      BY <3>1 DEF Fresh, Unmade
    <3>3. i > h.at \/ (i = h.at /\ g.step # "remember")
      BY <1>3, <2>4, <3>1 DEF Unmade, Turns, Typed, Placed
    <3>4. QED
      BY <2>2, <3>1, <3>2, <3>3 DEF MakesAtMost, Current
  <2>5. QED
    BY <2>3, <2>4 DEF Turns
<1>4. QED
  BY <1>2, <1>3 DEF Fresh, Unmade

\* A call is made, and hangs off the last message of its conversation.
LEMMA LlmCallSpanKeeps ==
  ASSUME ProxyConstants, ProxyInv, NEW h \in handlers, LlmCallSpan(h)
  PROVE  ProxyInv'
<1> USE DEF ProxyInv, Made, Ordered
<1> DEFINE parent == IF Named(h) THEN messageSpans[Conversation(h)] ELSE None
           start  == h.at - Event(Current(h)).duration
           from   == IF parent # None /\ start < heap[parent].start
                     THEN heap[parent].start ELSE start
           g      == [h EXCEPT !.step = "remember"]
<1>1. /\ h.step = "record" /\ Kind(h) = "request"
      /\ heap' = [heap EXCEPT ![Current(h)] = Span(parent, from)]
      /\ messageSpans' = messageSpans /\ llmCalls' = llmCalls
  BY DEF LlmCallSpan
<1>2. Turns(h, g) /\ g.step = "remember"
  <2>1. Shaped(h) /\ Becomes(h, g) /\ UNCHANGED clientVars
    BY DEF LlmCallSpan, Typed
  <2> HIDE DEF g
  <2>2. g = [h EXCEPT !.step = "remember"]
    BY DEF g
  <2>3. QED
    BY <1>1, <2>1, <2>2, ToRemember
<1> HIDE DEF g
<1>3. /\ said' = said /\ gaveUp' = gaveUp /\ Current(g) = Current(h)
      /\ DOMAIN waiting' = Clients /\ \A f \in handlers' : Shaped(f) /\ Placed(f)'
      /\ Apart' /\ Sequential'
  BY <1>2, TurnsInPlace
<1>4. Current(h) \in Ids /\ h.of \in Clients
      /\ Event(Current(h)).duration \in Nat /\ h.at \in Nat /\ h.at >= 1
      /\ (Named(h) => Conversation(h) \in Conversations /\ Conversation(h) \in Owned(h.of))
  BY CurrentIsEvent
<1>5. parent \in Ids \union {None}
      /\ (parent # None => Named(h) /\ IsMade(parent, Conversation(h), "prompt"))
  BY <1>4 DEF Typed, Messages
<1>6. parent # None => heap[parent] \in Spans /\ heap[parent].start \in Int
  BY <1>5 DEF IsMade, Typed, Spans
<1> HIDE DEF parent
<1>7. from \in Int /\ (parent # None => from >= heap[parent].start)
  BY <1>4, <1>6
<1> HIDE DEF from
<1>8. /\ HeapKeeps /\ MakesAtMost(h) /\ heap[Current(h)] = None
      /\ heap'[Current(h)] = Span(parent, from) /\ heap'[Current(h)] # None
  BY <1>1, <1>5, <1>7, HeapGrows
<1>9. Span(parent, from).counts = {} /\ Span(parent, from).parent = parent
      /\ Span(parent, from).start = from
  BY <1>5, <1>7, NewSpan
<1>10. Typed'
  BY <1>1, <1>3, <1>8 DEF Typed, HeapKeeps
<1>11. Fresh'
  BY <1>2, <1>8, TurnsFresh
<1>12. Reached'
  BY <1>1, <1>2, TurnsAbreast
<1>13. handlers' = (handlers \ {h}) \union {g}
  BY <1>2 DEF Turns
<1>14. \A f : Current(f)' = Current(f) /\ Kind(f)' = Kind(f)
              /\ Conversation(f)' = Conversation(f) /\ Named(f)' = Named(f)
  BY DEF Current, Kind, Conversation, Named
<1>15. ASSUME NEW id, NEW v, NEW kind, IsMade(id, v, kind)
       PROVE  WillBeMade(id, v, kind) /\ heap'[id] = heap[id] /\ id # Current(h)
  BY <1>8, <1>15 DEF IsMade, WillBeMade, HeapKeeps
<1>16. Messages'
  BY <1>1, <1>15 DEF Messages, IsMade, WillBeMade
<1>17. Remembering'
  <2> SUFFICES ASSUME NEW f \in handlers', f.step = "remember"
               PROVE  /\ Kind(f) = "request" /\ heap'[Current(f)] # None
                      /\ heap'[Current(f)].counts = {}
    BY <1>14 DEF Remembering
  <2>1. CASE f = g
    BY <1>1, <1>3, <1>8, <1>9, <2>1 DEF Kind
  <2>2. CASE f \in handlers
    BY <1>8, <2>2, CurrentIsEvent DEF Remembering, HeapKeeps
  <2>3. QED
    BY <1>13, <2>1, <2>2
<1>18. Pending'
  <2> SUFFICES ASSUME NEW v \in Conversations, llmCalls[v] # None
               PROVE  /\ WillBeMade(llmCalls[v], v, "request")
                      /\ heap'[llmCalls[v]].counts = {}
                      /\ \A f \in handlers' :
                           /\ f.step = "append" => f.span # llmCalls[v]
                           /\ f.step = "remember" => Current(f) # llmCalls[v]
    BY <1>1, <1>14 DEF Pending, IsMade, WillBeMade
  <2>1. IsMade(llmCalls[v], v, "request") /\ heap[llmCalls[v]].counts = {}
    BY DEF Pending
  <2>2. WillBeMade(llmCalls[v], v, "request") /\ heap'[llmCalls[v]].counts = {}
        /\ llmCalls[v] # Current(h)
    BY <1>15, <2>1
  <2>3. \A f \in handlers : /\ f.step = "append" => f.span # llmCalls[v]
                            /\ f.step = "remember" => Current(f) # llmCalls[v]
    BY DEF Pending
  <2>4. g.step # "append" /\ Current(g) # llmCalls[v]
    BY <1>2, <1>3, <2>2
  <2>5. QED
    BY <1>13, <2>2, <2>3, <2>4
<1>19. Taken'
  <2> SUFFICES ASSUME NEW f \in handlers', f.step = "append"
               PROVE  /\ Kind(f) = "usage" /\ Named(f)
                      /\ WillBeMade(f.span, Conversation(f), "request")
                      /\ heap'[f.span].counts = {}
                      /\ \A e \in handlers' :
                           /\ e.step = "append" /\ e # f => e.span # f.span
                           /\ e.step = "remember" => Current(e) # f.span
    BY <1>14 DEF Taken, IsMade, WillBeMade
  <2>1. f \in handlers
    BY <1>2, <1>13
  <2>2. /\ Kind(f) = "usage" /\ Named(f)
        /\ IsMade(f.span, Conversation(f), "request") /\ heap[f.span].counts = {}
        /\ \A e \in handlers : /\ e.step = "append" /\ e # f => e.span # f.span
                               /\ e.step = "remember" => Current(e) # f.span
    BY <2>1 DEF Taken
  <2>3. WillBeMade(f.span, Conversation(f), "request") /\ heap'[f.span].counts = {}
        /\ f.span # Current(h)
    BY <1>15, <2>2
  <2>4. QED
    BY <1>2, <1>3, <1>13, <2>2, <2>3
<1>20. Followed'
  <2>1. \A f \in handlers' : f.step = "append" => f \in handlers
    BY <1>2, <1>13
  <2>2. QED
    BY <1>3, <2>1 DEF Followed, Current
<1>21. ASSUME NEW call \in CallsMade'
       PROVE  OwnCall(call)' /\ (call[1] \notin gaveUp' => PlacedCall(call)')
  <2>1. CASE call \in CallsMade
    BY <1>3, <1>8, <2>1, CallsStand
  <2>2. CASE call = Current(h)
    <3>1. heap'[call].counts = {} /\ heap'[call].parent = parent /\ heap'[call].start = from
      BY <1>8, <1>9, <2>2
    <3>2. parent # None => WillBeMade(parent, Event(call).conversation, "prompt")
                           /\ heap'[parent] = heap[parent]
      BY <1>5, <1>15, <2>2 DEF Conversation
    <3>3. OwnCall(call)'
      BY <3>1, <3>2 DEF OwnCall, IsMade, WillBeMade
    <3>4. ASSUME call[1] \notin gaveUp' PROVE IsLastBefore(parent, call, "prompt")
      <4>1. h.of \notin gaveUp
        BY <1>3, <1>4, <2>2, <3>4 DEF Current
      <4>2. Abreast(h.of, h.at - 1)
        BY <1>1, <4>1 DEF Reached, Reach
      <4>3. call[1] = h.of /\ call[2] = h.at
        BY <2>2 DEF Current
      <4>4. IsLast(parent, h.of, h.at - 1, Conversation(h), "prompt")
        <5>1. CASE Named(h)
          BY <1>4, <4>2, <5>1 DEF Abreast, parent
        <5>2. CASE ~Named(h)
          <6>1. parent = None /\ Conversation(h) = Anonymous /\ h.at - 1 \in Nat
            BY <1>4, <5>2 DEF parent, Named
          <6>2. QED
            BY <6>1, AnonymousHasNone
        <5>3. QED
          BY <5>1, <5>2
      <4>5. QED
        BY <2>2, <4>3, <4>4 DEF IsLastBefore, Conversation
    <3>5. call[1] \notin gaveUp' => PlacedCall(call)'
      <4>1. parent # None => heap'[call].start >= heap'[parent].start
        BY <1>7, <3>1, <3>2
      <4>2. QED
        BY <3>1, <3>4, <4>1 DEF PlacedCall
    <3>6. QED
      BY <3>3, <3>5
  <2>3. QED
    BY <1>8, <1>21, <2>1, <2>2 DEF CallsMade, MakesAtMost
<1>22. OwnOnly' /\ InPlace'
  BY <1>21 DEF OwnOnly, InPlace
<1>23. QED
  BY <1>3, <1>10, <1>11, <1>12, <1>16, <1>17, <1>18, <1>19, <1>20, <1>22

\* Counts take the pending call, which then nothing else has hold of.
LEMMA TakeLLMCallKeeps ==
  ASSUME ProxyConstants, ProxyInv, NEW h \in handlers, TakeLLMCall(h)
  PROVE  ProxyInv'
<1> USE DEF ProxyInv, Made, Ordered
<1> DEFINE call == IF Named(h) THEN llmCalls[Conversation(h)] ELSE None
           g    == [h EXCEPT !.step = "append", !.span = call]
<1>1. /\ h.step = "record" /\ Kind(h) = "usage" /\ Shaped(h)
      /\ heap' = heap /\ messageSpans' = messageSpans
      /\ llmCalls' = IF Named(h) THEN [llmCalls EXCEPT ![Conversation(h)] = None]
                     ELSE llmCalls
  BY DEF TakeLLMCall, Typed
<1>2. CASE call = None
  <2>1. Handled(h, {})
    BY <1>2 DEF TakeLLMCall
  <2>2. Proceeds(h)
    BY <1>1, <2>1, HandledGoesOn
  <2>3. QED
    BY <2>2, CountsDropped
<1>3. CASE call # None
  <2>1. Becomes(h, g) /\ UNCHANGED clientVars
    BY <1>3 DEF TakeLLMCall
  <2>2. Shaped(h) /\ h.step = "record"
    BY <1>1
  <2> HIDE DEF call
  <2>3. Turns(h, g) /\ g.step = "append" /\ g.span = call
    BY <2>1, <2>2, ToAppend
  <2> HIDE DEF g
  <2>4. /\ said' = said /\ gaveUp' = gaveUp /\ Current(g) = Current(h)
        /\ DOMAIN waiting' = Clients /\ \A f \in handlers' : Shaped(f) /\ Placed(f)'
        /\ Apart' /\ Sequential'
    BY <2>3, TurnsInPlace
  <2>5. Kind(g) = Kind(h) /\ Conversation(g) = Conversation(h)
    BY <2>4 DEF Kind, Conversation
  <2> DEFINE conv == Conversation(h)
  <2>6. /\ Named(h) /\ conv \in Conversations /\ conv \in Owned(h.of)
        /\ call = llmCalls[conv] /\ h.of \in Clients /\ h.at \in Nat
    BY <1>3, CurrentIsEvent DEF call
  <2> HIDE DEF conv
  <2>7. /\ llmCalls' \in [Conversations -> Ids \union {None}]
        /\ llmCalls'[conv] = None
        /\ \A v \in Conversations : v # conv => llmCalls'[v] = llmCalls[v]
    BY <1>1, <2>6 DEF Typed, conv
  <2>8. /\ IsMade(call, conv, "request") /\ heap[call].counts = {}
        /\ \A f \in handlers : /\ f.step = "append" => f.span # call
                               /\ f.step = "remember" => Current(f) # call
    BY <1>3, <2>6 DEF Pending
  <2>9. handlers' = (handlers \ {h}) \union {g}
    BY <2>3 DEF Turns
  <2>10. \A f : Current(f)' = Current(f) /\ Kind(f)' = Kind(f)
                /\ Conversation(f)' = Conversation(f) /\ Named(f)' = Named(f)
    BY DEF Current, Kind, Conversation, Named
  <2>11. Typed'
    BY <1>1, <2>4, <2>7 DEF Typed
  <2>12. Fresh'
    <3>1. heap[Current(h)] = None
      BY <1>1 DEF Fresh, Unmade, Current, Typed, Placed
    <3>2. HeapKeeps /\ MakesAtMost(h)
      BY <1>1 DEF HeapKeeps, MakesAtMost, Typed
    <3>3. QED
      BY <1>1, <2>3, <3>1, <3>2, TurnsFresh
  <2>13. Reached'
    BY <1>1, <2>3, <2>7, TurnsAbreast
  <2>14. Messages'
    BY <1>1 DEF Messages, IsMade
  <2>15. Remembering'
    <3>1. \A f \in handlers' : f.step = "remember" => f \in handlers
      BY <2>3, <2>9
    <3>2. QED
      BY <1>1, <3>1, <2>10 DEF Remembering
  <2>16. Pending'
    <3> SUFFICES ASSUME NEW v \in Conversations, llmCalls'[v] # None
                 PROVE  /\ IsMade(llmCalls[v], v, "request") /\ llmCalls'[v] = llmCalls[v]
                        /\ heap[llmCalls[v]].counts = {}
                        /\ \A f \in handlers' :
                             /\ f.step = "append" => f.span # llmCalls[v]
                             /\ f.step = "remember" => Current(f) # llmCalls[v]
      BY <1>1, <2>10 DEF Pending, IsMade
    <3>1. v # conv /\ llmCalls'[v] = llmCalls[v]
      BY <2>7
    <3>2. /\ IsMade(llmCalls[v], v, "request") /\ heap[llmCalls[v]].counts = {}
          /\ \A f \in handlers : /\ f.step = "append" => f.span # llmCalls[v]
                                 /\ f.step = "remember" => Current(f) # llmCalls[v]
      BY <3>1 DEF Pending
    <3>3. g.step # "remember" /\ g.span # llmCalls[v]
      BY <2>3, <2>8, <3>1, <3>2 DEF IsMade
    <3>4. QED
      BY <2>9, <3>1, <3>2, <3>3
  <2>17. Taken'
    <3> SUFFICES ASSUME NEW f \in handlers', f.step = "append"
                 PROVE  /\ Kind(f) = "usage" /\ Named(f)
                        /\ IsMade(f.span, Conversation(f), "request")
                        /\ heap[f.span].counts = {}
                        /\ \A e \in handlers' :
                             /\ e.step = "append" /\ e # f => e.span # f.span
                             /\ e.step = "remember" => Current(e) # f.span
      BY <1>1, <2>10 DEF Taken, IsMade
    <3>1. CASE f = g
      <4>1. Kind(f) = "usage" /\ Named(f) /\ Conversation(f) = conv /\ f.span = call
        BY <1>1, <2>3, <2>5, <2>6, <3>1 DEF Named, conv
      <4>2. QED
        BY <2>3, <2>8, <2>9, <3>1, <4>1
    <3>2. CASE f \in handlers
      <4>1. /\ Kind(f) = "usage" /\ Named(f)
            /\ IsMade(f.span, Conversation(f), "request") /\ heap[f.span].counts = {}
            /\ \A e \in handlers : /\ e.step = "append" /\ e # f => e.span # f.span
                                   /\ e.step = "remember" => Current(e) # f.span
        BY <3>2 DEF Taken
      <4>2. f.span # call
        BY <2>8, <3>2
      <4>3. QED
        BY <2>3, <2>9, <4>1, <4>2
    <3>3. QED
      BY <2>9, <3>1, <3>2
  <2>18. Followed'
    <3>1. ASSUME g.of \notin gaveUp PROVE IsLastBefore(g.span, Current(g), "request")
      <4>1. Abreast(h.of, h.at - 1)
        BY <1>1, <2>3, <3>1 DEF Reached, Reach, Turns
      <4>2. IsLast(call, h.of, h.at - 1, conv, "request")
        BY <1>3, <2>6, <4>1 DEF Abreast
      <4>3. QED
        BY <2>3, <2>4, <4>2 DEF IsLastBefore, Current, conv, Conversation
    <3>2. \A f \in handlers' : f = g \/ f \in handlers
      BY <2>9
    <3>3. QED
      BY <2>4, <3>1, <3>2 DEF Followed, Current
  <2>19. OwnOnly' /\ InPlace'
    <3>1. HeapKeeps /\ CallsMade' = CallsMade
      BY <1>1 DEF HeapKeeps, CallsMade, Typed
    <3>2. \A c \in CallsMade' : OwnCall(c)' /\ (c[1] \notin gaveUp' => PlacedCall(c)')
      BY <2>4, <3>1, CallsStand
    <3>3. QED
      BY <3>2 DEF OwnOnly, InPlace
  <2>20. QED
    BY <2>4, <2>11, <2>12, <2>13, <2>14, <2>15, <2>16, <2>17, <2>18, <2>19
<1>4. QED
  BY <1>2, <1>3

-----------------------------------------------------------------------------
(* Steps that leave the spans and the maps alone: requests are exported,   *)
(* given up and answered.                                                  *)

Exporting == {"export", "write", "sent"}

\* f is what becomes of e.
Kept(f, e) ==
  /\ Shaped(f) /\ f.of = e.of /\ f.first = e.first /\ f.last = e.last /\ f.at = e.at
  /\ f.span = e.span
  /\ f.step = e.step \/ (f.step \in Exporting /\ e.step \in Exporting)

\* Of the requests in D, each e is F[e] afterwards; the others are no more.
Quiet(D, F) ==
  /\ heap' = heap /\ messageSpans' = messageSpans /\ llmCalls' = llmCalls
  /\ said' = said /\ gaveUp \subseteq gaveUp' /\ DOMAIN waiting' = Clients
  /\ D \subseteq handlers /\ handlers' = {F[e] : e \in D}
  /\ \A e \in D : Kept(F[e], e)
  /\ \A e \in D : e.of \notin gaveUp' => waiting'[e.of] /\ ~F[e].gone
  /\ \A e \in handlers \ D : e.of \notin gaveUp' => Reach(e) = said[e.of]
  /\ clientsUp' => clientsUp \/ \A c \in Clients : said[c] = 0

QuietStep == \E D, F : Quiet(D, F)

\* Nothing is made of what has not been said.
LEMMA NothingSaid ==
  ASSUME ProxyConstants, ProxyInv, \A c \in Clients : said[c] = 0
  PROVE  \A c \in Clients : Abreast(c, said[c])
<1> USE DEF ProxyInv, Made
<1>1. \A id \in Ids : heap[id] = None
  BY IdsArePairs DEF Fresh
<1>2. \A v \in Conversations : messageSpans[v] = None /\ llmCalls[v] = None
  BY <1>1 DEF Messages, Pending, IsMade
<1>3. \A c \in Clients : Owned(c) \subseteq Conversations
  BY DEF Owned
<1>4. QED
  BY <1>2, <1>3, NothingBeforeTheFirst DEF Abreast

LEMMA QuietKeeps ==
  ASSUME ProxyConstants, ProxyInv, NEW D, NEW F, Quiet(D, F)
  PROVE  ProxyInv'
<1> USE DEF ProxyInv, Made, Ordered
<1>1. /\ heap' = heap /\ messageSpans' = messageSpans /\ llmCalls' = llmCalls
      /\ said' = said /\ gaveUp \subseteq gaveUp' /\ DOMAIN waiting' = Clients
      /\ D \subseteq handlers
  BY DEF Quiet
<1>2. \A f \in handlers' : \E e \in D : f = F[e] /\ Kept(f, e)
  BY DEF Quiet
<1>3. \A h \in handlers : Shaped(h) /\ Placed(h)
  BY DEF Typed
<1>4. Typed'
  <2>1. \A f \in handlers' : Shaped(f) /\ Placed(f)'
    BY <1>1, <1>2, <1>3 DEF Kept, Placed, Exporting
  <2>2. QED
    BY <1>1, <2>1 DEF Typed
<1>5. Apart'
  <2> SUFFICES ASSUME NEW f \in handlers', NEW g \in handlers', f.of = g.of
               PROVE  f = g \/ f.last < g.first \/ g.last < f.first
    BY DEF Apart
  <2>1. PICK e \in D : f = F[e] /\ Kept(f, e)
    BY <1>2
  <2>2. PICK d \in D : g = F[d] /\ Kept(g, d)
    BY <1>2
  <2>3. e = d \/ e.last < d.first \/ d.last < e.first
    BY <1>1, <2>1, <2>2 DEF Apart, Kept
  <2>4. QED
    BY <2>1, <2>2, <2>3 DEF Kept
<1>6. Fresh'
  <2>1. ASSUME NEW f \in handlers', NEW i \in f.at..f.last, Unmade(f, i)
        PROVE  heap[<<f.of, i>>] = None
    <3>1. PICK e \in D : Kept(f, e)
      BY <1>2
    <3>2. e \in handlers /\ i \in e.at..e.last /\ Unmade(e, i) /\ f.of = e.of
      BY <1>1, <2>1, <3>1 DEF Kept, Unmade, Exporting
    <3>3. QED
      BY <3>2 DEF Fresh
  <2>2. QED
    BY <1>1, <2>1 DEF Fresh, Unmade
<1>7. \A f \in handlers', e \in D : Kept(f, e) =>
        /\ f.step \in Working => f.step = e.step
        /\ Current(f) = Current(e) /\ Kind(f) = Kind(e) /\ Named(f) = Named(e)
        /\ Conversation(f) = Conversation(e) /\ f.span = e.span /\ Reach(f) = Reach(e)
  BY DEF Kept, Exporting, Working, Current, Kind, Named, Conversation, Reach
<1>8. Messages' /\ OwnOnly' /\ InPlace'
  <2>1. HeapKeeps /\ CallsMade' = CallsMade
    BY <1>1 DEF HeapKeeps, CallsMade, Typed
  <2>2. \A c \in CallsMade' : OwnCall(c)' /\ (c[1] \notin gaveUp' => PlacedCall(c)')
    BY <1>1, <2>1, CallsStand
  <2>3. QED
    BY <1>1, <2>2 DEF OwnOnly, InPlace, Messages, IsMade
<1>9. \A f : Current(f)' = Current(f) /\ Kind(f)' = Kind(f)
             /\ Conversation(f)' = Conversation(f) /\ Named(f)' = Named(f)
             /\ Reach(f)' = Reach(f)
  BY DEF Current, Kind, Conversation, Named, Reach
<1>10. Remembering'
  <2>1. ASSUME NEW f \in handlers', f.step = "remember"
        PROVE  Kind(f) = "request" /\ heap[Current(f)] # None
               /\ heap[Current(f)].counts = {}
    BY <1>1, <1>2, <1>7, <2>1 DEF Working, Remembering
  <2>2. QED
    BY <1>1, <1>9, <2>1 DEF Remembering
<1>11. Pending'
  <2>1. ASSUME NEW v \in Conversations, llmCalls[v] # None, NEW f \in handlers'
        PROVE  /\ f.step = "append" => f.span # llmCalls[v]
               /\ f.step = "remember" => Current(f) # llmCalls[v]
    <3>1. PICK e \in D : Kept(f, e)
      BY <1>2
    <3>2. /\ e.step = "append" => e.span # llmCalls[v]
          /\ e.step = "remember" => Current(e) # llmCalls[v]
      BY <1>1, <2>1 DEF Pending
    <3>3. QED
      BY <1>7, <3>1, <3>2 DEF Working
  <2>2. QED
    BY <1>1, <1>9, <2>1 DEF Pending, IsMade
<1>12. Taken'
  <2>1. ASSUME NEW f \in handlers', f.step = "append"
        PROVE  /\ Kind(f) = "usage" /\ Named(f)
               /\ IsMade(f.span, Conversation(f), "request") /\ heap[f.span].counts = {}
               /\ \A g \in handlers' : /\ g.step = "append" /\ g # f => g.span # f.span
                                       /\ g.step = "remember" => Current(g) # f.span
    <3>1. PICK e \in D : f = F[e] /\ Kept(f, e)
      BY <1>2
    <3>2. e \in handlers /\ e.step = "append" /\ Kind(f) = Kind(e) /\ Named(f) = Named(e)
          /\ Conversation(f) = Conversation(e) /\ f.span = e.span
      BY <1>1, <1>7, <2>1, <3>1 DEF Working
    <3>3. /\ Kind(e) = "usage" /\ Named(e)
          /\ IsMade(e.span, Conversation(e), "request") /\ heap[e.span].counts = {}
          /\ \A g \in handlers : /\ g.step = "append" /\ g # e => g.span # e.span
                                 /\ g.step = "remember" => Current(g) # e.span
      BY <3>2 DEF Taken
    <3>4. ASSUME NEW g \in handlers'
          PROVE  /\ g.step = "append" /\ g # f => g.span # f.span
                 /\ g.step = "remember" => Current(g) # f.span
      <4>1. PICK d \in D : g = F[d] /\ Kept(g, d)
        BY <1>2
      <4>2. g # f => d # e
        BY <3>1, <4>1
      <4>3. /\ g.step = "append" => d.step = "append"
            /\ g.step = "remember" => d.step = "remember"
            /\ Current(g) = Current(d) /\ g.span = d.span /\ d \in handlers
        BY <1>1, <1>7, <4>1 DEF Working
      <4>4. QED
        BY <3>2, <3>3, <4>2, <4>3
    <3>5. QED
      BY <3>2, <3>3, <3>4
  <2>2. QED
    BY <1>1, <1>9, <2>1 DEF Taken, IsMade
<1>13. Sequential'
  <2> SUFFICES ASSUME NEW f \in handlers', f.of \notin gaveUp'
               PROVE  /\ waiting'[f.of] /\ ~f.gone /\ f.last = said[f.of]
                      /\ \A g \in handlers' : g.of = f.of => g = f
    BY <1>1 DEF Sequential
  <2>1. PICK e \in D : f = F[e] /\ Kept(f, e)
    BY <1>2
  <2>2. f.of = e.of /\ f.last = e.last /\ e.of \notin gaveUp' /\ e.of \notin gaveUp
    BY <1>1, <2>1 DEF Kept
  <2>3. waiting'[f.of] /\ ~f.gone
    BY <2>1, <2>2 DEF Quiet
  <2>4. e.last = said[e.of] /\ \A d \in D : d.of = e.of => d = e
    BY <1>1, <2>2 DEF Sequential
  <2>5. ASSUME NEW g \in handlers', g.of = f.of PROVE g = f
    <3>1. PICK d \in D : g = F[d] /\ Kept(g, d)
      BY <1>2
    <3>2. d = e
      BY <2>2, <2>4, <2>5, <3>1 DEF Kept
    <3>3. QED
      BY <2>1, <3>1, <3>2
  <2>6. QED
    BY <2>2, <2>3, <2>4, <2>5
<1>14. Reached'
  <2>1. \A c, n : Abreast(c, n)' <=> Abreast(c, n)
    BY <1>1 DEF Abreast
  <2>2. ASSUME NEW f \in handlers', f.of \notin gaveUp' PROVE Abreast(f.of, Reach(f))'
    <3>1. PICK e \in D : Kept(f, e)
      BY <1>2
    <3>2. e \in handlers /\ e.of = f.of /\ e.of \notin gaveUp /\ Reach(f) = Reach(e)
      BY <1>1, <1>7, <2>2, <3>1 DEF Kept
    <3>3. Abreast(f.of, Reach(f))
      BY <3>2 DEF Reached
    <3>4. QED
      BY <1>9, <2>1, <3>3
  <2>3. ASSUME clientsUp', NEW c \in Clients \ gaveUp', \A f \in handlers' : f.of # c
        PROVE  Abreast(c, said[c])
    <3>1. \A e \in D : e.of # c
      BY <2>3 DEF Quiet, Kept
    <3>2. CASE \E e \in handlers : e.of = c
      <4>1. PICK e \in handlers : e.of = c
        BY <3>2
      <4>2. Reach(e) = said[c]
        BY <2>3, <3>1, <4>1 DEF Quiet
      <4>3. Abreast(c, Reach(e))
        BY <1>1, <2>3, <4>1 DEF Reached
      <4>4. QED
        BY <4>2, <4>3
    <3>3. CASE clientsUp /\ ~\E e \in handlers : e.of = c
      BY <1>1, <2>3, <3>3 DEF Reached
    <3>4. CASE \A d \in Clients : said[d] = 0
      BY <3>4, <2>3, NothingSaid
    <3>5. QED
      BY <2>3, <3>2, <3>3, <3>4 DEF Quiet
  <2>4. QED
    BY <1>1, <2>1, <2>2, <2>3, <1>9 DEF Reached
<1>15. Followed'
  <2>1. ASSUME NEW f \in handlers', f.step = "append", f.of \notin gaveUp'
        PROVE  IsLastBefore(f.span, Current(f), "request")
    <3>1. PICK e \in D : Kept(f, e)
      BY <1>2
    <3>2. e \in handlers /\ e.of = f.of /\ e.of \notin gaveUp /\ e.step = "append"
          /\ Current(f) = Current(e) /\ f.span = e.span
      BY <1>1, <1>7, <2>1, <3>1 DEF Kept, Working
    <3>3. QED
      BY <3>2 DEF Followed
  <2>2. QED
    BY <2>1, <1>9 DEF Followed
<1>16. QED
  BY <1>4, <1>5, <1>6, <1>8, <1>10, <1>11, <1>12, <1>13, <1>14, <1>15

\* The requests are as they were.
LEMMA NothingHappens ==
  ASSUME ProxyConstants, ProxyInv, handlers' = handlers, said' = said, waiting' = waiting,
         gaveUp' = gaveUp, UNCHANGED mapVars,
         clientsUp' => clientsUp \/ \A c \in Clients : said[c] = 0
  PROVE  QuietStep
<1> DEFINE F == [e \in handlers |-> e]
<1>1. \A e \in handlers : F[e] = e
  OBVIOUS
<1>2. handlers' = {F[e] : e \in handlers}
  BY <1>1
<1> HIDE DEF F
<1>3. \A e \in handlers : Kept(F[e], e)
  BY <1>1 DEF Kept, ProxyInv, Typed
<1>4. \A e \in handlers : e.of \notin gaveUp' => waiting'[e.of] /\ ~F[e].gone
  BY <1>1 DEF ProxyInv, Ordered, Sequential
<1>5. Quiet(handlers, F)
  BY <1>2, <1>3, <1>4 DEF Quiet, mapVars, ProxyInv, Typed
<1>6. QED
  BY <1>5 DEF QuietStep

\* One goes on with its export.
LEMMA ExportGoesOn ==
  ASSUME ProxyConstants, ProxyInv, NEW h \in handlers, NEW g, Kept(g, h), g.gone = h.gone,
         Becomes(h, g), UNCHANGED clientVars, UNCHANGED mapVars
  PROVE  QuietStep
<1> DEFINE F == [e \in handlers |-> IF e = h THEN g ELSE e]
<1>1. \A e \in handlers : F[e] = IF e = h THEN g ELSE e
  OBVIOUS
<1> HIDE DEF F
<1>2. handlers' = {F[e] : e \in handlers}
  BY <1>1 DEF Becomes
<1>3. \A e \in handlers : Kept(F[e], e)
  BY <1>1 DEF Kept, ProxyInv, Typed
<1>4. \A e \in handlers : e.of \notin gaveUp' => waiting'[e.of] /\ ~F[e].gone
  BY <1>1 DEF ProxyInv, Ordered, Sequential, clientVars
<1>5. Quiet(handlers, F)
  BY <1>2, <1>3, <1>4 DEF Quiet, mapVars, clientVars, ProxyInv, Typed
<1>6. QED
  BY <1>5 DEF QuietStep

LEMMA ExportGoesOnWith ==
  ASSUME ProxyConstants, ProxyInv, NEW h \in handlers, h.step \in Exporting,
         NEW step \in Exporting, NEW image, UNCHANGED clientVars, UNCHANGED mapVars,
         Becomes(h, [h EXCEPT !.step = step, !.image = image])
  PROVE  QuietStep
<1>1. Shaped(h)
  BY DEF ProxyInv, Typed
<1>2. PICK g : g = [h EXCEPT !.step = step, !.image = image]
  OBVIOUS
<1>3. Becomes(h, g)
  BY <1>2
<1>4. Kept(g, h) /\ g.gone = h.gone
  BY <1>1, <1>2 DEF Shaped, Kept
<1>5. QED
  BY <1>3, <1>4, ExportGoesOn

LEMMA ExportsAreQuiet ==
  ASSUME ProxyConstants, ProxyInv, NEW h \in handlers, SizeExport(h) \/ WriteExport(h)
  PROVE  QuietStep
<1>1. CASE SizeExport(h)
  <2>1. h.step \in Exporting /\ "write" \in Exporting
    BY <1>1 DEF SizeExport, Exporting
  <2>2. UNCHANGED clientVars /\ UNCHANGED mapVars
        /\ Becomes(h, [h EXCEPT !.step = "write", !.image = AsTheyAre(h)])
    BY <1>1 DEF SizeExport
  <2>3. QED
    BY <2>1, <2>2, ExportGoesOnWith
<1>2. CASE WriteExport(h)
  <2>1. h.step \in Exporting /\ "sent" \in Exporting
    BY <1>2 DEF WriteExport, Exporting
  <2>2. PICK image : Becomes(h, [h EXCEPT !.step = "sent", !.image = image])
    BY <1>2 DEF WriteExport
  <2>3. UNCHANGED clientVars /\ UNCHANGED mapVars
    BY <1>2 DEF WriteExport
  <2>4. QED
    BY <2>1, <2>2, <2>3, ExportGoesOnWith
<1>3. QED
  BY <1>1, <1>2

\* A request is answered, or was never read.
LEMMA OneIsOver ==
  ASSUME ProxyConstants, ProxyInv, NEW h \in handlers, handlers' = handlers \ {h},
         h.gone \/ h.step \in Exporting,
         waiting' = waiting \/ waiting' = [waiting EXCEPT ![h.of] = @ /\ h.gone],
         said' = said, gaveUp' = gaveUp, clientsUp' = clientsUp, UNCHANGED mapVars
  PROVE  QuietStep
<1> USE DEF ProxyInv, Ordered
<1> DEFINE F == [e \in handlers \ {h} |-> e]
<1>1. \A e \in handlers \ {h} : F[e] = e
  OBVIOUS
<1> HIDE DEF F
<1>2. handlers' = {F[e] : e \in handlers \ {h}}
  BY <1>1
<1>3. \A e \in handlers \ {h} : Kept(F[e], e)
  BY <1>1 DEF Kept, Typed
<1>4. ASSUME NEW e \in handlers \ {h}, e.of \notin gaveUp'
      PROVE  waiting'[e.of] /\ ~F[e].gone
  <2>1. waiting[e.of] /\ ~e.gone /\ e.of # h.of
    BY <1>4 DEF Sequential
  <2>2. e.of \in Clients /\ h.of \in Clients /\ DOMAIN waiting = Clients
    BY DEF Typed, Placed
  <2>3. QED
    BY <1>1, <2>1, <2>2
<1>5. ASSUME h.of \notin gaveUp' PROVE Reach(h) = said[h.of]
  <2>1. ~h.gone /\ h.last = said[h.of]
    BY <1>5 DEF Sequential
  <2>2. h.step \in Exporting
    BY <2>1
  <2>3. QED
    BY <2>1, <2>2 DEF Reach, Exporting, Typed, Placed
<1>6. \A e \in handlers \ (handlers \ {h}) : e = h
  OBVIOUS
<1>7. DOMAIN waiting' = Clients
  BY DEF Typed
<1>8. Quiet(handlers \ {h}, F)
  BY <1>2, <1>3, <1>4, <1>5, <1>6, <1>7 DEF Quiet, mapVars
<1>9. QED
  BY <1>8 DEF QuietStep

LEMMA OversAreQuiet ==
  ASSUME ProxyConstants, ProxyInv, NEW h \in handlers,
         Unread(h) \/ WriteFails(h) \/ ExportLands(h) \/ ExportFails(h)
  PROVE  QuietStep
BY OneIsOver
   DEF Unread, WriteFails, ExportLands, ExportFails, Replied, Exporting, clientVars

-----------------------------------------------------------------------------
(* Clients that go, come and send.                                         *)

LEMMA WithGone ==
  ASSUME NEW e, Shaped(e), NEW g, g = [e EXCEPT !.gone = TRUE]
  PROVE  Kept(g, e)
BY DEF Shaped, Kept

\* The requests of the clients cs are given up.
LEMMA GoneIsQuiet ==
  ASSUME ProxyConstants, ProxyInv, NEW cs \in SUBSET Clients, handlers' = Gone(cs),
         said' = said, UNCHANGED mapVars, clientsUp' => clientsUp,
         \A h \in handlers : h.of \in cs => h.of \in gaveUp', gaveUp \subseteq gaveUp',
         DOMAIN waiting' = Clients, \A c \in Clients \ cs : waiting[c] => waiting'[c]
  PROVE  QuietStep
<1> DEFINE F == [e \in handlers |-> IF e.of \in cs THEN [e EXCEPT !.gone = TRUE] ELSE e]
<1>1. \A e \in handlers : F[e] = IF e.of \in cs THEN [e EXCEPT !.gone = TRUE] ELSE e
  OBVIOUS
<1>2. handlers' = {F[e] : e \in handlers}
  BY <1>1 DEF Gone
<1> HIDE DEF F
<1>3. ASSUME NEW e \in handlers
      PROVE  Kept(F[e], e) /\ (e.of \notin cs => F[e] = e)
  <2>1. Shaped(e)
    BY DEF ProxyInv, Typed
  <2>2. CASE e.of \in cs
    BY <1>1, <2>1, <2>2, WithGone
  <2>3. CASE e.of \notin cs
    BY <1>1, <2>1, <2>3 DEF Kept
  <2>4. QED
    BY <2>2, <2>3
<1>4. ASSUME NEW e \in handlers, e.of \notin gaveUp'
      PROVE  waiting'[e.of] /\ ~F[e].gone
  <2>1. e.of \notin cs /\ F[e] = e /\ e.of \notin gaveUp /\ e.of \in Clients
    BY <1>3, <1>4 DEF ProxyInv, Typed, Placed
  <2>2. QED
    BY <2>1 DEF ProxyInv, Ordered, Sequential
<1>5. Quiet(handlers, F)
  BY <1>2, <1>3, <1>4 DEF Quiet, mapVars
<1>6. QED
  BY <1>5 DEF QuietStep

LEMMA GiveUpIsQuiet ==
  ASSUME ProxyConstants, ProxyInv, NEW c \in Clients, GiveUp(c)
  PROVE  QuietStep
<1>1. DOMAIN waiting = Clients
  BY DEF ProxyInv, Typed
<1>2. /\ waiting' = [waiting EXCEPT ![c] = FALSE] /\ gaveUp' = gaveUp \union {c}
      /\ handlers' = Gone({c}) /\ said' = said /\ UNCHANGED mapVars /\ clientsUp' = clientsUp
  BY DEF GiveUp
<1>3. DOMAIN waiting' = Clients /\ \A d \in Clients \ {c} : waiting'[d] = waiting[d]
  BY <1>1, <1>2
<1>4. {c} \in SUBSET Clients /\ \A h \in handlers : h.of \in {c} => h.of \in gaveUp'
  BY <1>2
<1>5. QED
  BY <1>2, <1>3, <1>4, GoneIsQuiet

LEMMA ClientsEndIsQuiet ==
  ASSUME ProxyConstants, ProxyInv, ClientsEnd
  PROVE  QuietStep
<1>1. /\ waiting' = [c \in Clients |-> FALSE] /\ gaveUp' = gaveUp \union {h.of : h \in handlers}
      /\ handlers' = Gone(Clients) /\ said' = said /\ UNCHANGED mapVars /\ clientsUp' = FALSE
  BY DEF ClientsEnd
<1>2. DOMAIN waiting' = Clients /\ \A c \in Clients \ Clients : waiting'[c] = waiting[c]
  BY <1>1
<1>3. \A h \in handlers : h.of \in gaveUp'
  BY <1>1
<1>4. QED
  BY <1>1, <1>2, <1>3, GoneIsQuiet

LEMMA StopGRPCIsQuiet ==
  ASSUME ProxyConstants, ProxyInv, StopGRPC
  PROVE  QuietStep
<1> DEFINE cs == {c \in Clients : Traces(c)}
<1>1. /\ waiting' = [c \in Clients |-> waiting[c] /\ c \notin cs]
      /\ gaveUp' = gaveUp \union {h.of : h \in {g \in handlers : g.of \in cs}}
      /\ handlers' = Gone(cs) /\ said' = said /\ UNCHANGED mapVars /\ clientsUp' = clientsUp
  BY DEF StopGRPC
<1>2. cs \in SUBSET Clients
  OBVIOUS
<1> HIDE DEF cs
<1>3. DOMAIN waiting' = Clients
  BY <1>1
<1>4. \A h \in handlers : h.of \in cs => h.of \in gaveUp'
  BY <1>1
<1>5. \A h \in handlers : h.of \notin gaveUp => waiting[h.of]
  BY DEF ProxyInv, Ordered, Sequential
<1>6. QED
  BY <1>1, <1>2, <1>3, <1>4, <1>5, GoneIsQuiet

LEMMA ClientsStartIsQuiet ==
  ASSUME ProxyConstants, ProxyInv, ClientsStart
  PROVE  QuietStep
BY NothingHappens DEF ClientsStart, mapVars

LEMMA SendKeeps ==
  ASSUME ProxyConstants, ProxyInv, NEW c \in Clients, NEW n \in 1..MaxBatch, Send(c, n)
  PROVE  ProxyInv'
<1> USE DEF ProxyInv, Made, Ordered
<1>1. PICK last : last = said[c] + n
  OBVIOUS
<1>2. PICK r : r = Request(c, said[c] + 1, last)
  OBVIOUS
<1>3. /\ clientsUp /\ ~waiting[c] /\ last <= Len(Script[c])
      /\ said' = [said EXCEPT ![c] = last] /\ waiting' = [waiting EXCEPT ![c] = TRUE]
      /\ handlers' = handlers \union {r}
      /\ clientsUp' = clientsUp /\ gaveUp' = gaveUp /\ UNCHANGED mapVars
  BY <1>1, <1>2 DEF Send
<1>4. said \in [Clients -> Nat] /\ DOMAIN waiting = Clients /\ Len(Script[c]) \in Nat
      /\ \A d \in Clients : said[d] <= Len(Script[d])
  BY LengthsAreNat DEF Typed
<1>5. n \in Nat /\ n >= 1 /\ last \in Nat /\ last > said[c]
  BY <1>1, <1>4 DEF ProxyConstants
<1>6. /\ Shaped(r) /\ r.of = c /\ r.first = said[c] + 1 /\ r.last = last
      /\ r.at = said[c] + 1 /\ r.step = "record" /\ ~r.gone
  BY <1>2 DEF Request, Shaped
<1>7. /\ said' \in [Clients -> Nat] /\ said'[c] = last /\ DOMAIN waiting' = Clients
      /\ waiting'[c] /\ \A d \in Clients : d # c => said'[d] = said[d]
                                                    /\ waiting'[d] = waiting[d]
  BY <1>3, <1>4, <1>5
<1>8. \A h \in handlers : Shaped(h) /\ Placed(h)
  BY DEF Typed
<1>9. Placed(r)'
  BY <1>4, <1>5, <1>6, <1>7 DEF Placed
<1>10. \A h \in handlers : Placed(h)'
  <2> SUFFICES ASSUME NEW h \in handlers PROVE Placed(h)'
    OBVIOUS
  <2>1. Placed(h) /\ h.of \in Clients
    BY <1>8 DEF Placed
  <2>2. said[h.of] \in Nat /\ said'[h.of] \in Nat
    BY <1>4, <1>7, <2>1
  <2>3. said'[h.of] >= said[h.of]
    <3>1. CASE h.of = c
      BY <1>4, <1>5, <1>7, <3>1
    <3>2. CASE h.of # c
      BY <1>7, <2>1, <2>2, <3>2
    <3>3. QED
      BY <3>1, <3>2
  <2>4. QED
    BY <2>1, <2>2, <2>3 DEF Placed
<1>11. Typed'
  <2>1. \A h \in handlers' : Shaped(h) /\ Placed(h)'
    BY <1>3, <1>6, <1>8, <1>9, <1>10
  <2>2. \A d \in Clients : said'[d] <= Len(Script[d])
    BY <1>3, <1>4, <1>7
  <2>3. heap' = heap /\ messageSpans' = messageSpans /\ llmCalls' = llmCalls
    BY <1>3 DEF mapVars
  <2>4. QED
    BY <1>7, <2>1, <2>2, <2>3 DEF Typed
<1>12. heap' = heap /\ messageSpans' = messageSpans /\ llmCalls' = llmCalls
  BY <1>3 DEF mapVars
<1>13. Apart'
  <2>1. \A h \in handlers : h.of = c => h.last < r.first
    BY <1>4, <1>6, <1>8 DEF Placed
  <2>2. QED
    BY <1>3, <1>6, <2>1 DEF Apart
<1>14. Fresh'
  <2>1. \A id \in Ids : heap[id] # None => id[2] <= said'[id[1]]
    <3> SUFFICES ASSUME NEW id \in Ids, heap[id] # None PROVE id[2] <= said'[id[1]]
      OBVIOUS
    <3>1. id[2] <= said[id[1]] /\ id[1] \in Clients /\ id[2] \in Int
      BY IdsArePairs, LengthsAreNat DEF Fresh
    <3>2. said'[id[1]] >= said[id[1]] /\ said'[id[1]] \in Nat /\ said[id[1]] \in Nat
      BY <1>4, <1>5, <1>7, <3>1
    <3>3. QED
      BY <3>1, <3>2
  <2>2. ASSUME NEW i \in r.at..r.last PROVE heap[<<c, i>>] = None
    <3>1. i \in 1..Len(Script[c]) /\ i > said[c]
      BY <1>3, <1>4, <1>5, <1>6
    <3>2. <<c, i>> \in Ids /\ <<c, i>>[1] = c /\ <<c, i>>[2] = i
      BY <3>1, EventsHaveShape
    <3>3. heap[<<c, i>>] # None => i <= said[c]
      BY <3>2 DEF Fresh
    <3>4. QED
      BY <1>4, <3>1, <3>3
  <2>3. QED
    BY <1>3, <1>6, <1>12, <2>1, <2>2 DEF Fresh, Unmade
<1>15. \A f : Current(f)' = Current(f) /\ Kind(f)' = Kind(f)
              /\ Conversation(f)' = Conversation(f) /\ Named(f)' = Named(f)
              /\ Reach(f)' = Reach(f)
  BY DEF Current, Kind, Conversation, Named, Reach
<1>16. \A f \in handlers' : f.step \in {"remember", "append"} => f \in handlers
  BY <1>3, <1>6
<1>17. Messages' /\ Remembering'
  BY <1>12, <1>15, <1>16 DEF Messages, Remembering, IsMade
<1>18. Pending'
  <2>1. \A v \in Conversations : llmCalls[v] # None => \A f \in handlers' :
          /\ f.step = "append" => f.span # llmCalls[v]
          /\ f.step = "remember" => Current(f) # llmCalls[v]
    BY <1>16 DEF Pending
  <2>2. QED
    BY <1>12, <1>15, <2>1 DEF Pending, IsMade
<1>19. Taken'
  <2>1. ASSUME NEW f \in handlers', f.step = "append"
        PROVE  /\ Kind(f) = "usage" /\ Named(f)
               /\ IsMade(f.span, Conversation(f), "request") /\ heap[f.span].counts = {}
               /\ \A g \in handlers' : /\ g.step = "append" /\ g # f => g.span # f.span
                                       /\ g.step = "remember" => Current(g) # f.span
    BY <1>16, <2>1 DEF Taken
  <2>2. QED
    BY <1>12, <1>15, <2>1 DEF Taken, IsMade
<1>20. OwnOnly' /\ InPlace'
  <2>1. HeapKeeps /\ CallsMade' = CallsMade
    BY <1>12 DEF HeapKeeps, CallsMade, Typed
  <2>2. \A d \in CallsMade' : OwnCall(d)' /\ (d[1] \notin gaveUp' => PlacedCall(d)')
    BY <1>3, <2>1, CallsStand
  <2>3. QED
    BY <2>2 DEF OwnOnly, InPlace
<1>21. c \notin gaveUp => \A h \in handlers : h.of # c
  BY <1>3 DEF Sequential
<1>22. Sequential'
  <2> SUFFICES ASSUME NEW f \in handlers', f.of \notin gaveUp
               PROVE  /\ waiting'[f.of] /\ ~f.gone /\ f.last = said'[f.of]
                      /\ \A g \in handlers' : g.of = f.of => g = f
    BY <1>3 DEF Sequential
  <2>1. CASE f = r
    BY <1>3, <1>6, <1>7, <1>21, <2>1
  <2>2. CASE f \in handlers
    <3>1. f.of # c /\ f.of \in Clients
      BY <1>8, <1>21, <2>2 DEF Placed
    <3>2. waiting'[f.of] = waiting[f.of] /\ said'[f.of] = said[f.of]
      BY <1>7, <3>1
    <3>3. QED
      BY <1>3, <1>6, <2>2, <3>1, <3>2 DEF Sequential
  <2>3. QED
    BY <1>3, <2>1, <2>2
<1>23. Reached'
  <2>1. \A d, m : Abreast(d, m)' <=> Abreast(d, m)
    BY <1>12 DEF Abreast
  <2>2. ASSUME NEW f \in handlers', f.of \notin gaveUp PROVE Abreast(f.of, Reach(f))
    <3>1. CASE f = r
      <4>1. Abreast(c, said[c])
        BY <1>3, <1>6, <1>21, <2>2, <3>1 DEF Reached
      <4>2. Reach(f) = said[c]
        BY <1>4, <1>6, <3>1 DEF Reach
      <4>3. QED
        BY <1>6, <3>1, <4>1, <4>2
    <3>2. CASE f \in handlers
      BY <2>2, <3>2 DEF Reached
    <3>3. QED
      BY <1>3, <3>1, <3>2
  <2>3. ASSUME NEW d \in Clients \ gaveUp, \A f \in handlers' : f.of # d
        PROVE  Abreast(d, said'[d])
    <3>1. d # c /\ \A f \in handlers : f.of # d
      BY <1>3, <1>6, <2>3
    <3>2. Abreast(d, said[d])
      BY <1>3, <2>3, <3>1 DEF Reached
    <3>3. QED
      BY <1>7, <3>1, <3>2
  <2>4. \A f \in handlers' : f.of \notin gaveUp' => Abreast(f.of, Reach(f))'
    BY <1>3, <2>2, <1>12 DEF Abreast, Reach
  <2>5. \A d \in Clients \ gaveUp' : (\A f \in handlers' : f.of # d)
                                       => Abreast(d, said[d])'
    BY <1>3, <2>3, <1>12 DEF Abreast
  <2>6. QED
    BY <2>4, <2>5 DEF Reached
<1>24. Followed'
  BY <1>3, <1>16 DEF Followed, Current
<1>25. QED
  BY <1>11, <1>13, <1>14, <1>17, <1>18, <1>19, <1>20, <1>22, <1>23, <1>24

\* The process ends, and nothing is left but the spans that were made.
LEMMA ProxyVanishKeeps ==
  ASSUME ProxyConstants, ProxyInv, ProxyVanish
  PROVE  ProxyInv'
<1> USE DEF ProxyInv, Made, Ordered
<1>1. /\ handlers' = {} /\ clientsUp' = FALSE /\ said' = said /\ heap' = heap
      /\ waiting' = [c \in Clients |-> FALSE]
      /\ messageSpans' = [v \in Conversations |-> None]
      /\ llmCalls' = [v \in Conversations |-> None]
      /\ gaveUp \subseteq gaveUp'
  BY DEF ProxyVanish
<1>2. Typed' /\ Apart' /\ Fresh'
  BY <1>1 DEF Typed, Apart, Fresh
<1>3. Messages' /\ Remembering' /\ Pending' /\ Taken'
  BY <1>1 DEF Messages, Remembering, Pending, Taken
<1>4. Sequential' /\ Reached' /\ Followed'
  BY <1>1 DEF Sequential, Reached, Followed
<1>5. HeapKeeps /\ CallsMade' = CallsMade
  BY <1>1 DEF HeapKeeps, CallsMade, Typed
<1>6. \A d \in CallsMade' : OwnCall(d)' /\ (d[1] \notin gaveUp' => PlacedCall(d)')
  BY <1>1, <1>5, CallsStand
<1>7. OwnOnly' /\ InPlace'
  BY <1>6 DEF OwnOnly, InPlace
<1>8. QED
  BY <1>2, <1>3, <1>4, <1>7

-----------------------------------------------------------------------------
(* The theorem.                                                            *)

LEMMA ProxyInitInv ==
  ASSUME ProxyConstants, ProxyInit
  PROVE  ProxyInv
<1> USE DEF ProxyInit
<1>1. Typed
  BY LengthsAreNat DEF Typed
<1>2. Apart /\ Fresh
  BY DEF Apart, Fresh
<1>3. Made
  BY DEF Made, Messages, Remembering, Pending, Taken, OwnOnly, CallsMade
<1>4. Ordered
  BY DEF Ordered, Sequential, Reached, Followed, InPlace, CallsMade
<1>5. QED
  BY <1>1, <1>2, <1>3, <1>4 DEF ProxyInv

LEMMA HandlerStepKeeps ==
  ASSUME ProxyConstants, ProxyInv, NEW h \in handlers, HandlerStep(h)
  PROVE  ProxyInv'
BY MessageSpanKeeps, LlmCallSpanKeeps, RememberLLMCallKeeps, TakeLLMCallKeeps,
   LlmCallUsageSpanKeeps, SpanForRecordKeeps, PassSpanKeeps, ExportsAreQuiet, OversAreQuiet,
   QuietKeeps
   DEF HandlerStep, QuietStep

\* Steps of nobody's request.
LEMMA OthersAreQuiet ==
  ASSUME ProxyConstants, ProxyInv,
         \/ \E c \in Clients : GiveUp(c)
         \/ LateExportLands \/ ProxyStart \/ ProxyClose \/ ShutdownHTTP
         \/ ClientsStart \/ ClientsEnd \/ StopGRPC \/ UNCHANGED proxyVars
  PROVE  QuietStep
<1>1. CASE LateExportLands \/ ProxyStart \/ ProxyClose \/ ShutdownHTTP \/ UNCHANGED proxyVars
  BY <1>1, NothingHappens
     DEF LateExportLands, ProxyStart, ProxyClose, ShutdownHTTP, clientVars, mapVars, proxyVars
<1>2. QED
  BY <1>1, GiveUpIsQuiet, ClientsStartIsQuiet, ClientsEndIsQuiet, StopGRPCIsQuiet

LEMMA ProxyStepKeeps ==
  ASSUME ProxyConstants, ProxyInv, [ProxyNext]_proxyVars
  PROVE  ProxyInv'
<1>1. CASE \E h \in handlers : HandlerStep(h)
  BY <1>1, HandlerStepKeeps
<1>2. CASE \E c \in Clients : \E n \in 1..MaxBatch : Send(c, n)
  BY <1>2, SendKeeps
<1>3. CASE \/ \E c \in Clients : GiveUp(c)
           \/ LateExportLands \/ ProxyStart \/ ProxyClose \/ ShutdownHTTP
           \/ ClientsStart \/ ClientsEnd \/ StopGRPC \/ UNCHANGED proxyVars
  BY <1>3, OthersAreQuiet, QuietKeeps DEF QuietStep
<1>4. CASE ProxyVanish
  BY <1>4, ProxyVanishKeeps
<1>5. QED
  BY <1>1, <1>2, <1>3, <1>4 DEF ProxyNext, ProxyServe

LEMMA InvPlacesCalls ==
  ASSUME ProxyInv
  PROVE  CallsKeepTheirPlace
<1> SUFFICES ASSUME NEW call \in CallsMade
             PROVE  /\ \A id, jd \in heap[call].counts : id = jd
                    /\ \A id \in heap[call].counts \union ({heap[call].parent} \ {None}) :
                         Together(id, call)
                    /\ call[1] \notin gaveUp => PlacedCall(call)
  BY DEF CallsKeepTheirPlace, CallsMade, PlacedCall
<1>1. OwnCall(call) /\ (call[1] \notin gaveUp => PlacedCall(call))
  BY DEF ProxyInv, Made, Ordered, OwnOnly, InPlace
<1>2. QED
  BY <1>1 DEF OwnCall, IsMade, Together

\* Whatever the clients send and however their requests interleave, every call the proxy
\* makes hangs off the last message of its own conversation and gets the counts of one
\* event, the one that follows it.
THEOREM ProxyCallsKeepTheirPlace == ProxySpec => []CallsKeepTheirPlace
<1>1. ProxyInit => ProxyInv
  BY ProxyConstants, ProxyInitInv
<1>2. ProxyInv /\ [ProxyNext]_proxyVars => ProxyInv'
  BY ProxyConstants, ProxyStepKeeps
<1>3. ProxyInv => CallsKeepTheirPlace
  BY InvPlacesCalls
<1>4. QED
  BY <1>1, <1>2, <1>3, PTL DEF ProxySpec

-----------------------------------------------------------------------------
(* What clients told of is made, and counts reach the call that awaits     *)
(* them: for clients that gave no request up.                              *)

\* One event is the last.
LEMMA LastIsOne ==
  ASSUME NEW a, NEW b, NEW c, NEW n \in Nat, NEW v, NEW k, a # None, b # None,
         IsLast(a, c, n, v, k), IsLast(b, c, n, v, k)
  PROVE  a = b
<1> DEFINE such == {j \in 1..n : /\ Event(<<c, j>>).kind = k
                                 /\ Event(<<c, j>>).conversation = v /\ v # Anonymous}
<1>1. PICK i \in such : a = <<c, i>> /\ \A j \in such : j <= i
  BY DEF IsLast
<1>2. PICK i2 \in such : b = <<c, i2>> /\ \A j \in such : j <= i2
  BY DEF IsLast
<1>3. i <= i2 /\ i2 <= i /\ i \in Nat /\ i2 \in Nat
  BY <1>1, <1>2
<1>4. i = i2
  BY <1>3
<1>5. QED
  BY <1>1, <1>2, <1>4

\* The last, but for an event that is not such a one, was the last before it.
LEMMA LastWasLast ==
  ASSUME NEW what, NEW c, NEW n \in Nat, NEW v, NEW k, IsLast(what, c, n + 1, v, k),
         Event(<<c, n + 1>>).kind # k \/ Event(<<c, n + 1>>).conversation # v
  PROVE  IsLast(what, c, n, v, k)
<1> DEFINE Such(m) == {j \in 1..m : /\ Event(<<c, j>>).kind = k
                                    /\ Event(<<c, j>>).conversation = v
                                    /\ v # Anonymous}
<1>1. Such(n + 1) = Such(n)
  OBVIOUS
<1>2. \/ what = None /\ Such(n + 1) = {}
      \/ \E j \in Such(n + 1) : what = <<c, j>> /\ \A i \in Such(n + 1) : i <= j
  BY DEF IsLast
<1> HIDE DEF Such
<1>3. \/ what = None /\ Such(n) = {}
      \/ \E j \in Such(n) : what = <<c, j>> /\ \A i \in Such(n) : i <= j
  BY <1>1, <1>2
<1>4. QED
  BY <1>3 DEF IsLast, Such

LEMMA IdsAreNotNone ==
  ASSUME ProxyConstants, NEW id \in Ids
  PROVE  id # None
BY IdsArePairs, EventsHaveShape

LEMMA NothingAwaited ==
  ASSUME ProxyConstants, NEW c
  PROVE  Awaits(c, 0)
BY IdsAreNotNone DEF Awaits, IsLast

\* Requests that tell of nothing more leave everything told.
LEMMA QuietTold ==
  ASSUME ProxyConstants, ProxyInv, Told, NEW D, NEW F, Quiet(D, F)
  PROVE  Told'
<1> USE DEF ProxyInv, Ordered, Told
<1>1. /\ heap' = heap /\ llmCalls' = llmCalls /\ said' = said /\ gaveUp \subseteq gaveUp'
      /\ D \subseteq handlers /\ handlers' = {F[e] : e \in D}
      /\ \A e \in D : Kept(F[e], e)
      /\ \A e \in handlers \ D : e.of \notin gaveUp' => Reach(e) = said[e.of]
  BY DEF Quiet
<1>2. \A h \in handlers : Placed(h) /\ said[h.of] \in Nat
  BY DEF Typed, Placed
<1>3. ASSUME NEW id, id[1] \notin gaveUp', ToCome(id) PROVE ToCome(id)'
  <2>1. PICK e \in handlers : e.of = id[1] /\ id[2] \in e.at..e.last /\ Unmade(e, id[2])
    BY <1>3 DEF ToCome
  <2>2. CASE e \in D
    <3>1. F[e] \in handlers' /\ Kept(F[e], e)
      BY <1>1, <2>2
    <3>2. Unmade(F[e], id[2])
      BY <2>1, <3>1 DEF Kept, Unmade, Exporting
    <3>3. QED
      BY <2>1, <3>1, <3>2 DEF Kept, ToCome, Unmade
  <2>3. CASE e \notin D
    <3>1. Reach(e) = said[e.of] /\ Placed(e) /\ said[e.of] \in Nat
      BY <1>1, <1>2, <1>3, <2>1, <2>3
    <3>2. FALSE
      BY <2>1, <3>1 DEF Reach, Placed, Unmade
    <3>3. QED
      BY <3>2
  <2>4. QED
    BY <2>2, <2>3
<1>4. \A id : ToldBy(id)' => ToldBy(id) /\ id[1] \notin gaveUp'
  BY <1>1 DEF ToldBy
<1>5. EventsMade'
  BY <1>1, <1>3, <1>4 DEF EventsMade
<1>6. CountsMade'
  BY <1>1, <1>3, <1>4 DEF CountsMade
<1>7. \A c, n : Awaits(c, n)' <=> Awaits(c, n)
  BY <1>1 DEF Awaits
<1>8. \A f \in handlers', e \in D : Kept(f, e) => Read(f)' = Read(e) /\ f.of = e.of
  BY DEF Kept, Exporting, Read
<1>9. ASSUME NEW f \in handlers', f.of \notin gaveUp' PROVE Awaits(f.of, Read(f)')
  <2>1. PICK e \in D : Kept(f, e)
    BY <1>1
  <2>2. e \in handlers /\ e.of \notin gaveUp
    BY <1>1, <1>8, <1>9, <2>1
  <2>3. Awaits(e.of, Read(e))
    BY <2>2 DEF Awaited
  <2>4. QED
    BY <1>8, <2>1, <2>3
<1>10. ASSUME clientsUp', NEW c \in Clients \ gaveUp', \A f \in handlers' : f.of # c
       PROVE  Awaits(c, said[c])
  <2>1. \A e \in D : e.of # c
    BY <1>1, <1>10 DEF Kept
  <2>2. CASE \E e \in handlers : e.of = c
    <3>1. PICK e \in handlers : e.of = c
      BY <2>2
    <3>2. Reach(e) = said[c] /\ Placed(e) /\ said[c] \in Nat
      BY <1>1, <1>2, <1>10, <2>1, <3>1
    <3>3. Read(e) = said[c]
      BY <3>1, <3>2 DEF Read, Reach, Placed
    <3>4. Awaits(c, Read(e))
      BY <1>1, <1>10, <3>1 DEF Awaited
    <3>5. QED
      BY <3>3, <3>4
  <2>3. CASE clientsUp /\ ~\E e \in handlers : e.of = c
    BY <1>1, <1>10, <2>3 DEF Awaited
  <2>4. CASE \A d \in Clients : said[d] = 0
    BY <1>10, <2>4, NothingAwaited
  <2>5. QED
    BY <1>10, <2>2, <2>3, <2>4 DEF Quiet
<1>11. Awaited'
  BY <1>1, <1>7, <1>9, <1>10 DEF Awaited
<1>12. QED
  BY <1>5, <1>6, <1>11

\* Spans stay, with the counts they have.
HeapLives ==
  \A id \in Ids : heap[id] # None => heap'[id] # None /\ heap[id].counts \subseteq heap'[id].counts

LEMMA KeptHeapLives ==
  ASSUME HeapKeeps
  PROVE  HeapLives
BY DEF HeapKeeps, HeapLives

\* What a record of h may do to the calls pending, ...
PendingFollows(h) ==
  /\ \A v \in Conversations : Conversation(h) # v => llmCalls'[v] = llmCalls[v]
  /\ Named(h) /\ Kind(h) = "request" => llmCalls'[Conversation(h)] = Current(h)
  /\ Named(h) /\ Kind(h) \notin {"request", "usage"} =>
       llmCalls'[Conversation(h)] = llmCalls[Conversation(h)]

\* ... so that the call that awaits counts is the one pending.
LEMMA AwaitsNext ==
  ASSUME ProxyConstants, Typed, NEW h \in handlers, Awaits(h.of, h.at - 1), PendingFollows(h)
  PROVE  Awaits(h.of, h.at)'
<1>1. /\ h.of \in Clients /\ h.at \in Nat /\ Current(h) \in Ids
      /\ Current(h)[1] = h.of /\ Current(h)[2] = h.at
  BY CurrentIsEvent
<1>2. Placed(h)
  BY DEF Typed
<1>3. PICK n \in Nat : n = h.at - 1 /\ h.at = n + 1 /\ Current(h) = <<h.of, n + 1>>
  BY <1>1, <1>2 DEF Placed, Current
<1> SUFFICES ASSUME NEW v \in Owned(h.of), NEW call \in Ids,
                    IsLast(call, h.of, n + 1, v, "request"), Unspent(call, n + 1)
             PROVE  llmCalls'[v] = call
  BY <1>3 DEF Awaits, Unspent
<1>4. v \in Conversations /\ v # Anonymous
  BY DEF Owned, ProxyConstants
<1>5. /\ Event(<<h.of, n + 1>>).kind = Kind(h)
      /\ Event(<<h.of, n + 1>>).conversation = Conversation(h)
  BY <1>3 DEF Kind, Conversation
<1>6. Unspent(call, n)
  <2>1. \A jd \in Ids : jd[2] \in Nat
    BY IdsArePairs, LengthsAreNat
  <2>2. QED
    BY <2>1 DEF Unspent
<1>7. CASE Kind(h) = "request" /\ Conversation(h) = v
  <2>1. IsLast(<<h.of, n + 1>>, h.of, n + 1, v, "request")
    BY <1>4, <1>5, <1>7, LastIsTaken
  <2>2. call = Current(h)
    BY <1>1, <1>3, <2>1, LastIsOne, IdsAreNotNone
  <2>3. QED
    BY <1>4, <1>7, <2>2 DEF PendingFollows, Named
<1>8. CASE ~(Kind(h) = "request" /\ Conversation(h) = v)
  <2>1. IsLast(call, h.of, n, v, "request")
    BY <1>5, <1>8, LastWasLast
  <2>2. llmCalls[v] = call
    BY <1>3, <1>6, <2>1 DEF Awaits
  <2>3. CASE Conversation(h) # v
    BY <1>4, <2>2, <2>3 DEF PendingFollows
  <2>4. CASE Conversation(h) = v /\ Kind(h) = "usage"
    <3>1. IsLastBefore(call, Current(h), "request")
      BY <1>1, <1>3, <2>1, <2>4 DEF IsLastBefore, Conversation
    <3>2. Event(Current(h)).kind = "usage" /\ Current(h)[2] <= n + 1
      BY <1>1, <1>3, <2>4 DEF Kind
    <3>3. QED
      BY <1>1, <3>1, <3>2 DEF Unspent
  <2>5. CASE Conversation(h) = v /\ Kind(h) \notin {"request", "usage"}
    BY <1>4, <2>2, <2>5 DEF PendingFollows, Named
  <2>6. QED
    BY <1>8, <2>3, <2>4, <2>5
<1>9. QED
  BY <1>7, <1>8

\* Nobody else's calls change.
LEMMA OthersAwait ==
  ASSUME ProxyConstants, Typed, NEW h \in handlers, NEW c \in Clients, NEW n, c # h.of,
         Awaits(c, n), \A v \in Conversations : Conversation(h) # v => llmCalls'[v] = llmCalls[v]
  PROVE  Awaits(c, n)'
<1>1. h.of \in Clients /\ (Named(h) => Conversation(h) \in Owned(h.of))
  BY CurrentIsEvent
<1>2. ASSUME NEW v \in Owned(c) PROVE llmCalls'[v] = llmCalls[v]
  <2>1. v \in Conversations /\ v # Anonymous
    BY DEF Owned, ProxyConstants
  <2>2. Conversation(h) # v
    BY <1>1, <2>1, OwnedByOne DEF Named
  <2>3. QED
    BY <2>1, <2>2
<1>3. QED
  BY <1>2 DEF Awaits, Unspent

\* A request that goes on to its next record has its other events still to come.
LEMMA StaysToCome ==
  ASSUME Typed, NEW h \in handlers, h.step \in Working, Proceeds(h),
         NEW id \in Ids, id # Current(h), ToCome(id)
  PROVE  ToCome(id)'
<1>1. PICK e \in handlers : e.of = id[1] /\ id[2] \in e.at..e.last /\ Unmade(e, id[2])
  BY DEF ToCome
<1>2. CASE e # h
  <2>1. e \in handlers'
    BY <1>2 DEF Proceeds
  <2>2. QED
    BY <1>1, <2>1 DEF ToCome, Unmade
<1>3. CASE e = h
  <2>1. id[2] # h.at
    BY <1>1, <1>3, IdsArePairs DEF Current
  <2>2. Placed(h)
    BY DEF Typed
  <2>3. id[2] \in (h.at + 1)..h.last
    BY <1>1, <1>3, <2>1, <2>2 DEF Placed
  <2>4. PICK g : Follows(g, h) /\ g \in handlers'
    BY <2>2, <2>3 DEF Proceeds, Placed
  <2>5. g.step = "record" /\ g.at = h.at + 1 /\ g.last = h.last /\ g.of = h.of
    BY <2>2, <2>3, <2>4 DEF Follows, Placed
  <2>6. QED
    BY <1>1, <1>3, <2>3, <2>4, <2>5 DEF ToCome, Unmade
<1>4. QED
  BY <1>2, <1>3

\* The counts at h reach the call that awaits them.
CountsReach(h) ==
  h.of \notin gaveUp /\ Kind(h) = "usage" =>
    \A call \in Ids : FirstAfter(Current(h), call) =>
      heap'[call] # None /\ Current(h) \in heap'[call].counts

LEMMA ProceedsTold ==
  ASSUME ProxyConstants, ProxyInv, Told, NEW h \in handlers, h.step \in Working, Proceeds(h),
         HeapLives, Kind(h) \in {"prompt", "request", "span"} => heap'[Current(h)] # None,
         CountsReach(h),
         \A v \in Conversations : Conversation(h) # v => llmCalls'[v] = llmCalls[v],
         h.of \notin gaveUp => Awaits(h.of, h.at)'
  PROVE  Told'
<1> USE DEF ProxyInv, Ordered, Told
<1>1. /\ said' = said /\ gaveUp' = gaveUp /\ clientsUp' = clientsUp
      /\ \A id : ToldBy(id)' <=> ToldBy(id)
  BY DEF Proceeds, ToldBy
<1>2. /\ Placed(h) /\ \A e \in handlers : Placed(e) /\ said[e.of] \in Nat
      /\ Current(h)[1] = h.of
  BY CurrentIsEvent DEF Typed, Placed
<1>3. EventsMade'
  <2> SUFFICES ASSUME NEW id \in Ids, ToldBy(id),
                      Event(id).kind \in {"prompt", "request", "span"}
               PROVE  heap'[id] # None \/ ToCome(id)'
    BY <1>1 DEF EventsMade
  <2>1. CASE id = Current(h)
    BY <2>1 DEF Kind
  <2>2. CASE id # Current(h)
    BY <2>2, StaysToCome DEF EventsMade, HeapLives
  <2>3. QED
    BY <2>1, <2>2
<1>4. CountsMade'
  <2> SUFFICES ASSUME NEW id \in Ids, ToldBy(id), Event(id).kind = "usage", ~ToCome(id)',
                      NEW call \in Ids, FirstAfter(id, call)
               PROVE  heap'[call] # None /\ id \in heap'[call].counts
    BY <1>1 DEF CountsMade, FirstAfter
  <2>1. CASE id = Current(h)
    BY <1>2, <2>1 DEF CountsReach, Kind, ToldBy
  <2>2. CASE id # Current(h)
    <3>1. heap[call] # None /\ id \in heap[call].counts
      BY <2>2, StaysToCome DEF CountsMade
    <3>2. QED
      BY <3>1 DEF HeapLives
  <2>3. QED
    BY <2>1, <2>2
<1>5. ASSUME NEW f \in handlers', f.of \notin gaveUp PROVE Awaits(f.of, Read(f))'
  <2>1. CASE f \in handlers /\ f # h
    <3>1. f.of # h.of /\ f.of \in Clients
      BY <1>2, <1>5, <2>1 DEF Sequential, Placed
    <3>2. Awaits(f.of, Read(f))
      BY <1>5, <2>1 DEF Awaited
    <3>3. Read(f)' = Read(f)
      BY DEF Read
    <3>4. QED
      BY <3>1, <3>2, <3>3, OthersAwait
  <2>2. CASE Follows(f, h)
    <3>1. f.of = h.of /\ Read(f)' = h.at
      BY <1>2, <2>2 DEF Follows, Read, Placed
    <3>2. QED
      BY <1>5, <3>1
  <2>3. QED
    BY <2>1, <2>2 DEF Proceeds
<1>6. ASSUME clientsUp, NEW c \in Clients \ gaveUp, \A f \in handlers' : f.of # c
      PROVE  Awaits(c, said[c])'
  <2>1. CASE c = h.of
    <3>1. h.at = h.last
      BY <1>6, <2>1 DEF Proceeds, Follows
    <3>2. h.last = said[c]
      BY <1>6, <2>1 DEF Sequential
    <3>3. QED
      BY <1>1, <1>6, <2>1, <3>1, <3>2
  <2>2. CASE c # h.of
    <3>1. \A f \in handlers : f.of # c
      BY <1>6, <2>2 DEF Proceeds
    <3>2. Awaits(c, said[c])
      BY <1>6, <3>1 DEF Awaited
    <3>3. QED
      BY <1>1, <2>2, <3>2, OthersAwait
  <2>3. QED
    BY <2>1, <2>2
<1>7. Awaited'
  BY <1>1, <1>5, <1>6 DEF Awaited
<1>8. QED
  BY <1>3, <1>4, <1>7

\* The request stays at its record.
LEMMA TurnsTold ==
  ASSUME ProxyConstants, ProxyInv, Told, NEW h \in handlers, NEW g, Turns(h, g), HeapLives,
         g.step = "remember" => Kind(h) = "request" /\ heap'[Current(h)] # None,
         \A v \in Conversations : Conversation(h) # v => llmCalls'[v] = llmCalls[v],
         h.of \notin gaveUp => Awaits(h.of, Read(g))'
  PROVE  Told'
<1> USE DEF ProxyInv, Ordered, Told
<1>1. /\ said' = said /\ gaveUp' = gaveUp /\ clientsUp' = clientsUp
      /\ \A id : ToldBy(id)' <=> ToldBy(id)
  BY DEF Turns, clientVars, ToldBy
<1>2. Placed(h) /\ \A e \in handlers : Placed(e)
  BY DEF Typed
<1>3. handlers' = (handlers \ {h}) \union {g} /\ g.of = h.of /\ g.at = h.at /\ g.last = h.last
      /\ h.step = "record"
  BY DEF Turns
<1>4. ASSUME NEW id \in Ids, ToCome(id) PROVE ToCome(id)' \/ (id = Current(h) /\ g.step = "remember")
  <2>1. PICK e \in handlers : e.of = id[1] /\ id[2] \in e.at..e.last /\ Unmade(e, id[2])
    BY <1>4 DEF ToCome
  <2>2. CASE e # h
    BY <1>3, <2>1, <2>2 DEF ToCome, Unmade
  <2>3. CASE e = h /\ id[2] = h.at
    <3>1. id = Current(h)
      BY <2>1, <2>3, IdsArePairs DEF Current
    <3>2. g.step = "append" => ToCome(id)'
      BY <1>3, <2>1, <2>3 DEF ToCome, Unmade
    <3>3. QED
      BY <3>1, <3>2 DEF Turns
  <2>4. CASE e = h /\ id[2] # h.at
    <3>1. id[2] > g.at
      BY <1>2, <1>3, <2>1, <2>4 DEF Placed
    <3>2. QED
      BY <1>3, <2>1, <2>4, <3>1 DEF ToCome, Unmade
  <2>5. QED
    BY <2>2, <2>3, <2>4
<1>5. EventsMade'
  BY <1>1, <1>4 DEF EventsMade, HeapLives
<1>6. CountsMade'
  <2> SUFFICES ASSUME NEW id \in Ids, ToldBy(id), Event(id).kind = "usage", ~ToCome(id)',
                      NEW call \in Ids, FirstAfter(id, call)
               PROVE  heap'[call] # None /\ id \in heap'[call].counts
    BY <1>1 DEF CountsMade, FirstAfter
  <2>1. ~ToCome(id)
    <3>1. SUFFICES ASSUME ToCome(id) PROVE FALSE
      OBVIOUS
    <3>2. id = Current(h) /\ g.step = "remember"
      BY <3>1, <1>4
    <3>3. QED
      BY <3>2 DEF Kind
  <2>2. heap[call] # None /\ id \in heap[call].counts
    BY <2>1 DEF CountsMade
  <2>3. QED
    BY <2>2 DEF HeapLives
<1>7. ASSUME NEW f \in handlers', f.of \notin gaveUp PROVE Awaits(f.of, Read(f))'
  <2>1. CASE f \in handlers /\ f # h
    <3>1. f.of # h.of /\ f.of \in Clients
      BY <1>2, <1>7, <2>1 DEF Sequential, Placed
    <3>2. Awaits(f.of, Read(f))
      BY <1>7, <2>1 DEF Awaited
    <3>3. Read(f)' = Read(f)
      BY DEF Read
    <3>4. QED
      BY <3>1, <3>2, <3>3, OthersAwait
  <2>2. CASE f = g
    BY <1>3, <1>7, <2>2
  <2>3. QED
    BY <1>3, <2>1, <2>2
<1>8. ASSUME clientsUp, NEW c \in Clients \ gaveUp, \A f \in handlers' : f.of # c
      PROVE  Awaits(c, said[c])'
  <2>1. c # h.of /\ \A f \in handlers : f.of # c
    BY <1>3, <1>8
  <2>2. Awaits(c, said[c])
    BY <1>8, <2>1 DEF Awaited
  <2>3. QED
    BY <1>1, <2>1, <2>2, OthersAwait
<1>9. Awaited'
  BY <1>1, <1>7, <1>8 DEF Awaited
<1>10. QED
  BY <1>5, <1>6, <1>9
\* Records that make no call and bring no counts.
LEMMA RecordTold ==
  ASSUME ProxyConstants, ProxyInv, Told, NEW h \in handlers, h.step = "record", Proceeds(h),
         Kind(h) \in {"prompt", "span", "completed", "other"}, HeapKeeps, llmCalls' = llmCalls,
         Kind(h) \in {"prompt", "span"} => heap'[Current(h)] # None
  PROVE  Told'
<1>1. HeapLives /\ CountsReach(h) /\ h.step \in Working
  BY KeptHeapLives DEF CountsReach, Working
<1>2. ASSUME h.of \notin gaveUp PROVE Awaits(h.of, h.at)'
  <2>1. Awaits(h.of, h.at - 1)
    BY <1>2 DEF Told, Awaited, Read
  <2>2. PendingFollows(h) /\ Typed
    BY DEF PendingFollows, ProxyInv
  <2>3. QED
    BY <2>1, <2>2, AwaitsNext
<1>3. QED
  BY <1>1, <1>2, ProceedsTold

LEMMA SpanRecordsTold ==
  ASSUME ProxyConstants, ProxyInv, Told, NEW h \in handlers,
         MessageSpan(h) \/ PassSpan(h) \/ SpanForRecord(h)
  PROVE  Told'
<1>1. h.step = "record" /\ llmCalls' = llmCalls
  BY DEF MessageSpan, PassSpan, SpanForRecord, mapVars
<1>2. Proceeds(h)
  BY HandledGoesOn DEF MessageSpan, PassSpan, SpanForRecord, ProxyInv, Typed
<1>3. CASE MessageSpan(h) \/ PassSpan(h)
  <2>1. h.at \in Int /\ None \in Ids \union {None}
    BY DEF ProxyInv, Typed, Placed
  <2>2. HeapKeeps /\ heap'[Current(h)] # None
    BY <1>3, <2>1, HeapGrows DEF MessageSpan, PassSpan, ProxyInv
  <2>3. Kind(h) \in {"prompt", "span"}
    BY <1>3 DEF MessageSpan, PassSpan
  <2>4. QED
    BY <1>1, <1>2, <2>2, <2>3, RecordTold
<1>4. CASE SpanForRecord(h)
  <2>1. HeapKeeps
    BY <1>4 DEF SpanForRecord, mapVars, HeapKeeps, ProxyInv, Typed
  <2>2. Kind(h) \in {"completed", "other"}
    BY <1>4 DEF SpanForRecord
  <2>3. QED
    BY <1>1, <1>2, <2>1, <2>2, RecordTold
<1>5. QED
  BY <1>3, <1>4

LEMMA LlmCallSpanTold ==
  ASSUME ProxyConstants, ProxyInv, Told, NEW h \in handlers, LlmCallSpan(h)
  PROVE  Told'
<1> USE DEF ProxyInv, Made, Ordered
<1> DEFINE parent == IF Named(h) THEN messageSpans[Conversation(h)] ELSE None
           start  == h.at - Event(Current(h)).duration
           from   == IF parent # None /\ start < heap[parent].start
                     THEN heap[parent].start ELSE start
           g      == [h EXCEPT !.step = "remember"]
<1>1. /\ h.step = "record" /\ Kind(h) = "request" /\ llmCalls' = llmCalls
      /\ heap' = [heap EXCEPT ![Current(h)] = Span(parent, from)]
      /\ Shaped(h) /\ Becomes(h, g) /\ UNCHANGED clientVars
  BY DEF LlmCallSpan, Typed
<1>2. PICK f : f = g
  OBVIOUS
<1>3. Turns(h, f) /\ f.step = "remember"
  BY <1>1, <1>2, ToRemember
<1>4. /\ Event(Current(h)).duration \in Nat /\ h.at \in Nat
      /\ (Named(h) => Conversation(h) \in Conversations)
  BY CurrentIsEvent
<1>5. parent \in Ids \union {None}
      /\ (parent # None => heap[parent] # None /\ parent \in Ids)
  BY <1>4 DEF Typed, Messages, IsMade
<1>6. parent # None => heap[parent].start \in Int
  BY <1>5 DEF Typed, Spans
<1> HIDE DEF parent
<1>7. from \in Int
  BY <1>4, <1>6
<1> HIDE DEF from
<1>8. HeapKeeps /\ heap'[Current(h)] # None
  BY <1>1, <1>5, <1>7, HeapGrows
<1>9. HeapLives
  BY <1>8, KeptHeapLives
<1>10. ASSUME h.of \notin gaveUp PROVE Awaits(h.of, Read(f))'
  <2>1. Read(f)' = Read(h)
    BY <1>1, <1>3 DEF Read, Turns
  <2>2. Awaits(h.of, Read(h))
    BY <1>10 DEF Told, Awaited
  <2>3. QED
    BY <1>1, <2>1, <2>2 DEF Awaits, Unspent
<1>11. QED
  BY <1>1, <1>3, <1>8, <1>9, <1>10, TurnsTold

LEMMA RememberLLMCallTold ==
  ASSUME ProxyConstants, ProxyInv, Told, NEW h \in handlers, RememberLLMCall(h)
  PROVE  Told'
<1> USE DEF ProxyInv, Made
<1>1. /\ h.step = "remember" /\ Kind(h) = "request" /\ Shaped(h) /\ heap' = heap
      /\ heap[Current(h)] # None
      /\ llmCalls' = IF Named(h) THEN [llmCalls EXCEPT ![Conversation(h)] = Current(h)]
                                 ELSE llmCalls
  BY DEF RememberLLMCall, Typed, Remembering
<1>2. Proceeds(h)
  BY <1>1, HandledGoesOn DEF RememberLLMCall
<1>3. HeapLives /\ CountsReach(h) /\ h.step \in Working
  BY <1>1 DEF HeapLives, CountsReach, Working
<1>4. PendingFollows(h)
  <2>1. Named(h) => Conversation(h) \in Conversations
    BY CurrentIsEvent
  <2>2. QED
    BY <1>1, <2>1 DEF PendingFollows, Typed, Named
<1>5. h.of \notin gaveUp => Awaits(h.of, h.at)'
  BY <1>1, <1>4, AwaitsNext DEF Told, Awaited, Read
<1>6. QED
  BY <1>1, <1>2, <1>3, <1>4, <1>5, ProceedsTold DEF PendingFollows

\* Counts that find no call pending are awaited by none.
LEMMA CountsDroppedTold ==
  ASSUME ProxyConstants, ProxyInv, Told, NEW h \in handlers, TakeLLMCall(h), Proceeds(h),
         Named(h) => llmCalls[Conversation(h)] = None
  PROVE  Told'
<1> USE DEF ProxyInv
<1>1. /\ h.step = "record" /\ Kind(h) = "usage" /\ heap' = heap
      /\ llmCalls' = IF Named(h) THEN [llmCalls EXCEPT ![Conversation(h)] = None]
                     ELSE llmCalls
  BY DEF TakeLLMCall
<1>2. HeapLives /\ h.step \in Working
  BY <1>1 DEF HeapLives, Working
<1>3. PendingFollows(h)
  <2>1. Named(h) => Conversation(h) \in Conversations
    BY CurrentIsEvent
  <2>2. QED
    BY <1>1, <2>1 DEF PendingFollows, Typed, Named
<1>4. h.of \notin gaveUp => Awaits(h.of, h.at - 1)
  BY <1>1 DEF Told, Awaited, Read
<1>5. h.of \notin gaveUp => Awaits(h.of, h.at)'
  BY <1>3, <1>4, AwaitsNext
<1>6. CountsReach(h)
  <2> SUFFICES ASSUME h.of \notin gaveUp, NEW call \in Ids, FirstAfter(Current(h), call)
               PROVE  FALSE
    BY DEF CountsReach
  <2>1. /\ Current(h)[1] = h.of /\ Current(h)[2] = h.at /\ call # None
        /\ (Named(h) => Conversation(h) \in Owned(h.of)) /\ h.at \in Nat
    BY CurrentIsEvent, IdsAreNotNone
  <2>2. IsLast(call, h.of, h.at - 1, Conversation(h), "request")
    BY <2>1 DEF FirstAfter, IsLastBefore, Conversation
  <2>3. Named(h)
    BY <2>1, <2>2 DEF IsLast, Named
  <2>4. Unspent(call, h.at - 1)
    <3>1. \A jd \in Ids : jd[2] \in Nat
      BY IdsArePairs, LengthsAreNat
    <3>2. QED
      BY <2>1, <3>1 DEF FirstAfter, Unspent
  <2>5. llmCalls[Conversation(h)] = call
    BY <1>4, <2>1, <2>2, <2>3, <2>4 DEF Awaits
  <2>6. QED
    BY <2>1, <2>3, <2>5
<1>7. QED
  BY <1>1, <1>2, <1>3, <1>5, <1>6, ProceedsTold DEF PendingFollows

LEMMA TakeLLMCallTold ==
  ASSUME ProxyConstants, ProxyInv, Told, NEW h \in handlers, TakeLLMCall(h)
  PROVE  Told'
<1> USE DEF ProxyInv
<1>1. PICK call : call = IF Named(h) THEN llmCalls[Conversation(h)] ELSE None
  OBVIOUS
<1>2. /\ h.step = "record" /\ Kind(h) = "usage" /\ Shaped(h) /\ heap' = heap
      /\ llmCalls' = IF Named(h) THEN [llmCalls EXCEPT ![Conversation(h)] = None]
                     ELSE llmCalls
      /\ IF call = None THEN Handled(h, {})
         ELSE /\ Becomes(h, [h EXCEPT !.step = "append", !.span = call])
              /\ UNCHANGED clientVars
  BY <1>1 DEF TakeLLMCall, Typed
<1>3. CASE call = None
  <2>1. Proceeds(h)
    BY <1>2, <1>3, HandledGoesOn
  <2>2. QED
    BY <1>1, <1>3, <2>1, CountsDroppedTold
<1>4. CASE call # None
  <2>1. PICK g : g = [h EXCEPT !.step = "append", !.span = call]
    OBVIOUS
  <2>2. /\ Becomes(h, g) /\ UNCHANGED clientVars
        /\ Shaped(h) /\ h.step = "record"
    BY <1>2, <1>4, <2>1
  <2>3. Turns(h, g) /\ g.step = "append"
    BY <2>1, <2>2 DEF Shaped, Turns, Becomes
  <2>4. PendingFollows(h)
    <3>1. Named(h) => Conversation(h) \in Conversations
      BY CurrentIsEvent
    <3>2. QED
      BY <1>2, <3>1 DEF PendingFollows, Typed, Named
  <2>5. h.of \notin gaveUp => Awaits(h.of, h.at)'
    BY <1>2, <2>4, AwaitsNext DEF Told, Awaited, Read
  <2>6. Read(g)' = h.at
    BY <2>3 DEF Read, Turns
  <2>7. HeapLives
    BY <1>2 DEF HeapLives
  <2>8. QED
    BY <2>3, <2>4, <2>5, <2>6, <2>7, TurnsTold DEF PendingFollows
<1>5. QED
  BY <1>3, <1>4

LEMMA LlmCallUsageSpanTold ==
  ASSUME ProxyConstants, ProxyInv, Told, NEW h \in handlers, LlmCallUsageSpan(h)
  PROVE  Told'
<1> USE DEF ProxyInv, Made, Ordered
<1>1. h.step = "append" /\ Shaped(h) /\ Kind(h) = "usage" /\ llmCalls' = llmCalls
  BY DEF LlmCallUsageSpan, Typed, Taken
<1>2. Proceeds(h)
  BY <1>1, HandledGoesOn DEF LlmCallUsageSpan
<1>3. /\ h.span \in Ids /\ heap[h.span].counts = {}
      /\ \A id \in Ids : id # h.span => heap'[id] = heap[id]
      /\ heap'[h.span] # None /\ heap'[h.span].counts = {Current(h)}
  BY <1>1, HeapCounts DEF Taken
<1>4. HeapLives /\ h.step \in Working
  BY <1>1, <1>3 DEF HeapLives, Working
<1>5. CountsReach(h)
  <2> SUFFICES ASSUME h.of \notin gaveUp, NEW call \in Ids, FirstAfter(Current(h), call)
               PROVE  call = h.span
    BY <1>3 DEF CountsReach
  <2>1. IsLastBefore(call, Current(h), "request") /\ IsLastBefore(h.span, Current(h), "request")
    BY <1>1 DEF FirstAfter, Followed
  <2>2. call # None /\ h.span # None /\ Current(h)[2] - 1 \in Nat
    BY <1>3, IdsAreNotNone, CurrentIsEvent
  <2>3. QED
    BY <2>1, <2>2, LastIsOne DEF IsLastBefore
<1>6. h.of \notin gaveUp => Awaits(h.of, h.at)'
  BY <1>1 DEF Told, Awaited, Read, Awaits, Unspent
<1>7. QED
  BY <1>1, <1>2, <1>4, <1>5, <1>6, ProceedsTold

LEMMA SendTold ==
  ASSUME ProxyConstants, ProxyInv, Told, NEW c \in Clients, NEW n \in 1..MaxBatch, Send(c, n)
  PROVE  Told'
<1> USE DEF ProxyInv, Ordered, Told
<1>1. PICK r : r = Request(c, said[c] + 1, said[c] + n)
  OBVIOUS
<1>2. /\ clientsUp /\ ~waiting[c]
      /\ said' = [said EXCEPT ![c] = said[c] + n]
      /\ handlers' = handlers \union {r}
      /\ clientsUp' = clientsUp /\ gaveUp' = gaveUp /\ heap' = heap /\ llmCalls' = llmCalls
  BY <1>1 DEF Send, mapVars
<1>3. said \in [Clients -> Nat] /\ n \in Nat /\ n >= 1
  BY DEF Typed, ProxyConstants
<1>4. /\ r.of = c /\ r.last = said[c] + n /\ r.at = said[c] + 1 /\ r.step = "record"
  BY <1>1 DEF Request
<1>5. said'[c] = said[c] + n /\ \A d \in Clients : d # c => said'[d] = said[d]
  BY <1>2, <1>3
<1>6. ASSUME NEW id \in Ids, ToldBy(id)', ~ToCome(id)' PROVE ToldBy(id) /\ ~ToCome(id)
  <2>1. id[1] \in Clients /\ id[2] \in Nat
    BY IdsArePairs, LengthsAreNat
  <2>2. ~ToCome(id)
    BY <1>2, <1>6 DEF ToCome, Unmade
  <2>3. CASE id[1] = c /\ id[2] > said[c]
    <3>1. id[2] \in r.at..r.last /\ r \in handlers'
      BY <1>2, <1>3, <1>4, <1>5, <1>6, <2>1, <2>3 DEF ToldBy
    <3>2. QED
      BY <1>4, <1>6, <2>3, <3>1 DEF ToCome, Unmade
  <2>4. CASE ~(id[1] = c /\ id[2] > said[c])
    BY <1>2, <1>3, <1>5, <1>6, <2>1, <2>2, <2>4 DEF ToldBy
  <2>5. QED
    BY <2>3, <2>4
<1>7. EventsMade'
  BY <1>2, <1>6 DEF EventsMade
<1>8. CountsMade'
  BY <1>2, <1>6 DEF CountsMade, FirstAfter
<1>9. \A d, m : Awaits(d, m)' <=> Awaits(d, m)
  BY <1>2 DEF Awaits, Unspent
<1>10. ASSUME NEW f \in handlers', f.of \notin gaveUp' PROVE Awaits(f.of, Read(f))
  <2>1. CASE f \in handlers
    BY <1>2, <1>10, <2>1 DEF Awaited
  <2>2. CASE f = r
    <3>1. c \notin gaveUp /\ \A h \in handlers : h.of # c
      BY <1>2, <1>4, <1>10, <2>2 DEF Sequential
    <3>2. Awaits(c, said[c])
      BY <1>2, <3>1 DEF Awaited
    <3>3. Read(r) = said[c]
      BY <1>3, <1>4 DEF Read
    <3>4. QED
      BY <1>4, <2>2, <3>2, <3>3
  <2>3. QED
    BY <1>2, <2>1, <2>2
<1>11. ASSUME NEW d \in Clients \ gaveUp', \A f \in handlers' : f.of # d
       PROVE  Awaits(d, said'[d])
  <2>1. d # c /\ \A f \in handlers : f.of # d
    BY <1>2, <1>4, <1>11
  <2>2. QED
    BY <1>2, <1>5, <1>11, <2>1 DEF Awaited
<1>12. Awaited'
  BY <1>9, <1>10, <1>11 DEF Awaited, Read
<1>13. QED
  BY <1>7, <1>8, <1>12

LEMMA ProxyVanishTold ==
  ASSUME ProxyConstants, ProxyInv, Told, ProxyVanish
  PROVE  Told'
<1>1. /\ handlers' = {} /\ clientsUp' = FALSE /\ said' = said /\ heap' = heap
      /\ gaveUp' = gaveUp \union {h.of : h \in handlers}
  BY DEF ProxyVanish
<1>2. \A id \in Ids : ToldBy(id)' => ToldBy(id) /\ ~ToCome(id)
  BY <1>1 DEF ToldBy, ToCome
<1>3. EventsMade' /\ CountsMade'
  BY <1>1, <1>2 DEF Told, EventsMade, CountsMade, FirstAfter
<1>4. Awaited'
  BY <1>1 DEF Awaited
<1>5. QED
  BY <1>3, <1>4 DEF Told

LEMMA ProxyStepTold ==
  ASSUME ProxyConstants, ProxyInv, Told, [ProxyNext]_proxyVars
  PROVE  Told'
<1>1. CASE \E h \in handlers : HandlerStep(h)
  BY <1>1, SpanRecordsTold, LlmCallSpanTold, RememberLLMCallTold, TakeLLMCallTold,
     LlmCallUsageSpanTold, ExportsAreQuiet, OversAreQuiet, QuietTold
     DEF HandlerStep, QuietStep
<1>2. CASE \E c \in Clients : \E n \in 1..MaxBatch : Send(c, n)
  BY <1>2, SendTold
<1>3. CASE \/ \E c \in Clients : GiveUp(c)
           \/ LateExportLands \/ ProxyStart \/ ProxyClose \/ ShutdownHTTP
           \/ ClientsStart \/ ClientsEnd \/ StopGRPC \/ UNCHANGED proxyVars
  BY <1>3, OthersAreQuiet, QuietTold DEF QuietStep
<1>4. CASE ProxyVanish
  BY <1>4, ProxyVanishTold
<1>5. QED
  BY <1>1, <1>2, <1>3, <1>4 DEF ProxyNext, ProxyServe

-----------------------------------------------------------------------------
(* What is made is stored, or a request still holds it: for clients that   *)
(* gave no request up, and none of whose exports failed.                   *)

\* The request goes on with what it has to export, or has nothing to.
OutGrows(h, spans) ==
  \/ \E g : Follows(g, h) /\ g.out = h.out \union spans /\ handlers' = (handlers \ {h}) \union {g}
  \/ h.out \union spans = {} /\ handlers' = handlers \ {h}

LEMMA HandledGrows ==
  ASSUME NEW h \in handlers, Shaped(h), NEW spans, Handled(h, spans)
  PROVE  OutGrows(h, spans)
<1>1. PICK out : out = h.out \union spans
  OBVIOUS
<1>2. PICK on : on = [h EXCEPT !.out = out, !.span = None]
  OBVIOUS
<1>3. PICK g1 : g1 = [on EXCEPT !.at = @ + 1, !.step = "record"]
  OBVIOUS
<1>4. PICK g2 : g2 = [on EXCEPT !.step = "export"]
  OBVIOUS
<1>5. \/ h.at < h.last /\ Becomes(h, g1)
      \/ h.at = h.last /\ Becomes(h, g2)
      \/ out = {} /\ Replied(h)
  BY <1>1, <1>2, <1>3, <1>4 DEF Handled
<1>6. h.at < h.last => Follows(g1, h)
  BY <1>2, <1>3, NextRecord
<1>7. h.at = h.last => Follows(g2, h)
  BY <1>2, <1>4, LastRecord
<1>8. g1.out = out /\ g2.out = out
  BY <1>2, <1>3, <1>4 DEF Shaped
<1>9. QED
  BY <1>1, <1>5, <1>6, <1>7, <1>8 DEF OutGrows, Becomes, Replied

\* A record's changes are among what its request exports.
LEMMA GrowingStores ==
  ASSUME ProxyConstants, ProxyInv, Storing, NEW h \in handlers, h.step \in Working,
         NEW spans, OutGrows(h, spans), HeapLives, UNCHANGED storeVars, gaveUp' = gaveUp,
         \A id \in spans : id \in Ids /\ id[1] = h.of /\ heap'[id] # None,
         \A id \in Ids : heap'[id] # heap[id] => id \in spans,
         h.step = "remember" => Current(h) \in spans
  PROVE  Storing'
<1> USE DEF ProxyInv, Ordered, Storing
<1>1. adrift' = adrift /\ rows' = rows /\ unsure' = unsure
  BY DEF storeVars
<1>2. ASSUME NEW f \in handlers, f # h PROVE OwnOut(f)'
  <2>1. OwnOut(f)
    BY DEF OutsOwn
  <2>2. \A id \in f.out : heap'[id] # None
    BY <2>1 DEF OwnOut, HeapLives
  <2>3. ASSUME f.of \notin gaveUp PROVE \A id \in f.out : heap'[id] = heap[id]
    <3>1. h.of # f.of
      BY <1>2, <2>3 DEF Sequential
    <3>2. QED
      BY <2>1, <3>1 DEF OwnOut
  <2>4. f.of \notin gaveUp => AsTheyAre(f)' = AsTheyAre(f)
    BY <2>3 DEF AsTheyAre
  <2>5. QED
    BY <2>1, <2>2, <2>4 DEF OwnOut
<1>3. ASSUME NEW g, Follows(g, h), g.out = h.out \union spans PROVE OwnOut(g)'
  <2>1. OwnOut(h)
    BY DEF OutsOwn
  <2>2. g.of = h.of /\ g.step \in {"record", "export"}
    BY <1>3 DEF Follows
  <2>3. \A id \in g.out : id \in Ids /\ id[1] = g.of /\ heap'[id] # None
    BY <1>3, <2>1, <2>2 DEF OwnOut, HeapLives
  <2>4. QED
    BY <2>2, <2>3 DEF OwnOut
<1>4. OutsOwn'
  BY <1>2, <1>3 DEF OutsOwn, OutGrows
<1>5. AdriftOf(gaveUp \union unsure)'
  BY <1>1 DEF AdriftOf
<1>6. ASSUME NEW id \in Ids, id[1] \notin gaveUp \union unsure, heap'[id] # None
      PROVE  rows[id] = heap'[id] \/ Held(id)'
  <2>1. CASE id \in h.out \union spans
    <3>1. PICK g \in handlers' : g.of = h.of /\ g.out = h.out \union spans
      BY <2>1 DEF OutGrows, Follows
    <3>2. id[1] = h.of
      BY <2>1 DEF OutsOwn, OwnOut
    <3>3. QED
      BY <2>1, <3>1, <3>2 DEF Held
  <2>2. CASE id \notin h.out \union spans
    <3>1. heap'[id] = heap[id]
      BY <2>2
    <3>2. CASE rows[id] = heap[id]
      BY <3>1, <3>2
    <3>3. CASE Held(id)
      <4>1. PICK e \in handlers : /\ e.of = id[1]
                                  /\ id \in e.out \/ (e.step = "remember" /\ id = Current(e))
        BY <3>3 DEF Held
      <4>2. e # h
        BY <2>2, <4>1
      <4>3. e \in handlers'
        BY <4>2 DEF OutGrows
      <4>4. QED
        BY <4>1, <4>3 DEF Held, Current
    <3>4. QED
      BY <1>6, <3>1, <3>2, <3>3 DEF RowsFollow
  <2>3. QED
    BY <2>1, <2>2
<1>7. RowsFollow'
  BY <1>1, <1>6 DEF RowsFollow
<1>8. QED
  BY <1>4, <1>5, <1>7

\* The request stays at its record, and its new call in hand.
LEMMA TurningStores ==
  ASSUME ProxyConstants, ProxyInv, Storing, NEW h \in handlers, NEW g, Turns(h, g),
         g.out = h.out, HeapLives, UNCHANGED storeVars,
         \A id \in Ids : heap'[id] # heap[id] => id = Current(h) /\ g.step = "remember"
  PROVE  Storing'
<1> USE DEF ProxyInv, Ordered, Storing
<1>1. adrift' = adrift /\ rows' = rows /\ unsure' = unsure /\ gaveUp' = gaveUp
  BY DEF storeVars, Turns, clientVars
<1>2. /\ handlers' = (handlers \ {h}) \union {g} /\ g.of = h.of /\ g.at = h.at
      /\ h.step = "record" /\ g.step \in {"remember", "append"}
  BY DEF Turns
<1>3. ASSUME NEW f \in handlers, f # h PROVE OwnOut(f)'
  <2>1. OwnOut(f)
    BY DEF OutsOwn
  <2>2. \A id \in f.out : heap'[id] # None
    BY <2>1 DEF OwnOut, HeapLives
  <2>3. ASSUME f.of \notin gaveUp PROVE \A id \in f.out : heap'[id] = heap[id]
    <3>1. h.of # f.of /\ Current(h)[1] = h.of
      BY <1>3, <2>3 DEF Sequential, Current
    <3>2. QED
      BY <2>1, <3>1 DEF OwnOut
  <2>4. f.of \notin gaveUp => AsTheyAre(f)' = AsTheyAre(f)
    BY <2>3 DEF AsTheyAre
  <2>5. QED
    BY <1>1, <2>1, <2>2, <2>4 DEF OwnOut
<1>4. OwnOut(g)'
  <2>1. OwnOut(h)
    BY DEF OutsOwn
  <2>2. QED
    BY <1>2, <2>1 DEF OwnOut, HeapLives
<1>5. OutsOwn'
  BY <1>2, <1>3, <1>4 DEF OutsOwn
<1>6. AdriftOf(gaveUp \union unsure)'
  BY <1>1 DEF AdriftOf
<1>7. Current(g) = Current(h) /\ Current(h)[1] = h.of
  BY <1>2 DEF Current
<1>8. ASSUME NEW id \in Ids, id[1] \notin gaveUp \union unsure, heap'[id] # None
      PROVE  rows[id] = heap'[id] \/ Held(id)'
  <2>1. CASE heap'[id] # heap[id]
    BY <1>2, <1>7, <2>1 DEF Held, Current
  <2>2. CASE heap'[id] = heap[id] /\ Held(id)
    <3>1. PICK e \in handlers : /\ e.of = id[1]
                                /\ id \in e.out \/ (e.step = "remember" /\ id = Current(e))
      BY <2>2 DEF Held
    <3>2. CASE e = h
      BY <1>2, <3>1, <3>2 DEF Held
    <3>3. CASE e # h
      BY <1>2, <3>1, <3>3 DEF Held, Current
    <3>4. QED
      BY <3>2, <3>3
  <2>3. QED
    BY <1>8, <2>1, <2>2 DEF RowsFollow
<1>9. RowsFollow'
  BY <1>1, <1>8 DEF RowsFollow
<1>10. QED
  BY <1>5, <1>6, <1>9

LEMMA SpanRecordsStore ==
  ASSUME ProxyConstants, ProxyInv, Storing, NEW h \in handlers,
         MessageSpan(h) \/ PassSpan(h) \/ SpanForRecord(h)
  PROVE  Storing'
<1>1. h.step = "record" /\ h.step \in Working /\ Shaped(h) /\ UNCHANGED storeVars
  BY DEF MessageSpan, PassSpan, SpanForRecord, Working, ProxyInv, Typed
<1>2. CASE MessageSpan(h) \/ PassSpan(h)
  <2>1. h.at \in Int /\ None \in Ids \union {None}
    BY DEF ProxyInv, Typed, Placed
  <2>2. HeapKeeps /\ MakesAtMost(h) /\ heap'[Current(h)] # None
    BY <1>1, <1>2, <2>1, HeapGrows DEF MessageSpan, PassSpan, ProxyInv
  <2>3. HeapLives /\ \A id \in Ids : heap'[id] # heap[id] => id = Current(h)
    <3>1. \A id \in Ids : heap[id] # None => heap'[id] = heap[id]
      BY <2>2 DEF HeapKeeps
    <3>2. QED
      BY <2>2, <3>1, KeptHeapLives DEF MakesAtMost
  <2>4. Current(h) \in Ids /\ Current(h)[1] = h.of
    BY CurrentIsEvent DEF ProxyInv
  <2>5. Handled(h, {Current(h)})
    BY <1>2 DEF MessageSpan, PassSpan
  <2>6. OutGrows(h, {Current(h)})
    BY <1>1, <2>5, HandledGrows
  <2>7. gaveUp' = gaveUp
    BY <1>1, <2>5, HandledGoesOn DEF Proceeds
  <2>8. QED
    BY <1>1, <2>2, <2>3, <2>4, <2>6, <2>7, GrowingStores
<1>3. CASE SpanForRecord(h)
  <2>1. Handled(h, {}) /\ heap' = heap
    BY <1>3 DEF SpanForRecord, mapVars
  <2>2. OutGrows(h, {})
    BY <1>1, <2>1, HandledGrows
  <2>3. gaveUp' = gaveUp
    BY <1>1, <2>1, HandledGoesOn DEF Proceeds
  <2>4. HeapLives
    BY <2>1 DEF HeapLives
  <2>5. QED
    BY <1>1, <2>1, <2>2, <2>3, <2>4, GrowingStores
<1>4. QED
  BY <1>2, <1>3

LEMMA RememberLLMCallStores ==
  ASSUME ProxyConstants, ProxyInv, Storing, NEW h \in handlers, RememberLLMCall(h)
  PROVE  Storing'
<1>1. /\ h.step = "remember" /\ h.step \in Working /\ Shaped(h) /\ UNCHANGED storeVars
      /\ heap' = heap /\ Handled(h, {Current(h)})
  BY DEF RememberLLMCall, Working, ProxyInv, Typed
<1>2. OutGrows(h, {Current(h)})
  BY <1>1, HandledGrows
<1>3. gaveUp' = gaveUp
  BY <1>1, HandledGoesOn DEF Proceeds
<1>4. Current(h) \in Ids /\ Current(h)[1] = h.of /\ heap[Current(h)] # None
  BY <1>1, CurrentIsEvent DEF ProxyInv, Made, Remembering
<1>5. HeapLives
  BY <1>1 DEF HeapLives
<1>6. QED
  BY <1>1, <1>2, <1>3, <1>4, <1>5, GrowingStores

\* The call that counts were taken for is of the client they come from.
LEMMA LlmCallUsageSpanStores ==
  ASSUME ProxyConstants, ProxyInv, Storing, NEW h \in handlers, LlmCallUsageSpan(h)
  PROVE  Storing'
<1>1. /\ h.step = "append" /\ h.step \in Working /\ Shaped(h) /\ UNCHANGED storeVars
      /\ Handled(h, {h.span})
  BY DEF LlmCallUsageSpan, Working, ProxyInv, Typed
<1>2. OutGrows(h, {h.span})
  BY <1>1, HandledGrows
<1>3. gaveUp' = gaveUp
  BY <1>1, HandledGoesOn DEF Proceeds
<1>4. Named(h) /\ IsMade(h.span, Conversation(h), "request") /\ heap[h.span].counts = {}
  BY <1>1 DEF ProxyInv, Made, Taken
<1>5. /\ h.span \in Ids /\ \A id \in Ids : id # h.span => heap'[id] = heap[id]
      /\ heap'[h.span] # None
  BY HeapCounts
<1>6. HeapLives
  BY <1>4, <1>5 DEF HeapLives
<1>7. h.span[1] = h.of
  <2>1. h.of \in Clients /\ Conversation(h) \in Owned(h.of)
    BY <1>4, CurrentIsEvent DEF ProxyInv
  <2>2. /\ h.span[1] \in Clients /\ h.span[2] \in 1..Len(Script[h.span[1]])
        /\ Script[h.span[1]][h.span[2]].conversation = Conversation(h)
    BY <1>4, <1>5, IdsArePairs DEF IsMade, Event
  <2>3. Conversation(h) \in Owned(h.span[1])
    BY <2>1, <2>2 DEF Owned
  <2>4. QED
    BY <2>1, <2>2, <2>3, OwnedByOne
<1>8. QED
  BY <1>1, <1>2, <1>3, <1>5, <1>6, <1>7, GrowingStores

LEMMA LlmCallSpanStores ==
  ASSUME ProxyConstants, ProxyInv, Storing, NEW h \in handlers, LlmCallSpan(h)
  PROVE  Storing'
<1> USE DEF ProxyInv, Made
<1> DEFINE parent == IF Named(h) THEN messageSpans[Conversation(h)] ELSE None
           start  == h.at - Event(Current(h)).duration
           from   == IF parent # None /\ start < heap[parent].start
                     THEN heap[parent].start ELSE start
<1>1. /\ h.step = "record" /\ Kind(h) = "request" /\ UNCHANGED storeVars
      /\ heap' = [heap EXCEPT ![Current(h)] = Span(parent, from)]
      /\ Shaped(h) /\ Becomes(h, [h EXCEPT !.step = "remember"]) /\ UNCHANGED clientVars
  BY DEF LlmCallSpan, Typed
<1>2. PICK g : g = [h EXCEPT !.step = "remember"]
  OBVIOUS
<1>3. Turns(h, g) /\ g.step = "remember" /\ g.out = h.out
  BY <1>1, <1>2 DEF Shaped, Turns, Becomes
<1>4. /\ Event(Current(h)).duration \in Nat /\ h.at \in Nat
      /\ (Named(h) => Conversation(h) \in Conversations)
  BY CurrentIsEvent
<1>5. parent \in Ids \union {None}
      /\ (parent # None => heap[parent] # None /\ parent \in Ids)
  BY <1>4 DEF Typed, Messages, IsMade
<1>6. parent # None => heap[parent].start \in Int
  BY <1>5 DEF Typed, Spans
<1> HIDE DEF parent
<1>7. from \in Int
  BY <1>4, <1>6
<1> HIDE DEF from
<1>8. HeapKeeps /\ MakesAtMost(h)
  BY <1>1, <1>5, <1>7, HeapGrows
<1>9. HeapLives /\ \A id \in Ids : heap'[id] # heap[id] => id = Current(h)
  <2>1. \A id \in Ids : heap[id] # None => heap'[id] = heap[id]
    BY <1>8 DEF HeapKeeps
  <2>2. QED
    BY <1>8, <2>1, KeptHeapLives DEF MakesAtMost
<1>10. QED
  BY <1>1, <1>3, <1>9, TurningStores

LEMMA TakeLLMCallStores ==
  ASSUME ProxyConstants, ProxyInv, Storing, NEW h \in handlers, TakeLLMCall(h)
  PROVE  Storing'
<1> USE DEF ProxyInv
<1>1. PICK call : call = IF Named(h) THEN llmCalls[Conversation(h)] ELSE None
  OBVIOUS
<1>2. /\ h.step = "record" /\ h.step \in Working /\ Shaped(h) /\ heap' = heap
      /\ UNCHANGED storeVars
      /\ IF call = None THEN Handled(h, {})
         ELSE /\ Becomes(h, [h EXCEPT !.step = "append", !.span = call])
              /\ UNCHANGED clientVars
  BY <1>1 DEF TakeLLMCall, Typed, Working
<1>3. HeapLives
  BY <1>2 DEF HeapLives
<1>4. CASE call = None
  <2>1. OutGrows(h, {})
    BY <1>2, <1>4, HandledGrows
  <2>2. gaveUp' = gaveUp
    BY <1>2, <1>4, HandledGoesOn DEF Proceeds
  <2>3. QED
    BY <1>2, <1>3, <2>1, <2>2, GrowingStores
<1>5. CASE call # None
  <2>1. PICK g : g = [h EXCEPT !.step = "append", !.span = call]
    OBVIOUS
  <2>2. Becomes(h, g) /\ UNCHANGED clientVars /\ Shaped(h) /\ h.step = "record"
    BY <1>2, <1>5, <2>1
  <2>3. Turns(h, g) /\ g.out = h.out
    BY <2>1, <2>2 DEF Shaped, Turns, Becomes
  <2>4. QED
    BY <1>2, <1>3, <2>3, TurningStores
<1>6. QED
  BY <1>4, <1>5

-----------------------------------------------------------------------------
(* Exports, and the requests that come and go.                             *)

\* f holds what e did.
Carries(f, e) ==
  f.of = e.of /\ f.out = e.out /\ (e.step = "remember" => f.step = e.step /\ f.at = e.at)

\* The spans are as they were, and what no request carries on is of a client given up
\* on or unsure of, or is stored.
LEMMA StillStored ==
  ASSUME Storing, heap' = heap, gaveUp \subseteq gaveUp', unsure \subseteq unsure',
         AdriftOf(gaveUp \union unsure)', \A f \in handlers' : OwnOut(f)',
         \A id \in Ids : id[1] \notin gaveUp' \union unsure' /\ rows[id] = heap[id]
                           => rows'[id] = heap[id],
         \A e \in handlers : \/ e.of \in gaveUp' \union unsure'
                             \/ \E f \in handlers' : Carries(f, e)
                             \/ /\ e.step # "remember"
                                /\ \A id \in e.out : rows'[id] = heap[id]
  PROVE  Storing'
<1> USE DEF Storing
<1>1. ASSUME NEW id \in Ids, id[1] \notin gaveUp' \union unsure', heap[id] # None
      PROVE  rows'[id] = heap[id] \/ Held(id)'
  <2>1. CASE rows[id] = heap[id]
    BY <1>1, <2>1
  <2>2. CASE Held(id)
    <3>1. PICK e \in handlers : /\ e.of = id[1]
                                /\ id \in e.out \/ (e.step = "remember" /\ id = Current(e))
      BY <2>2 DEF Held
    <3>2. CASE \E f \in handlers' : Carries(f, e)
      BY <3>1, <3>2 DEF Held, Carries, Current
    <3>3. CASE e.step # "remember" /\ \A i \in e.out : rows'[i] = heap[i]
      BY <3>1, <3>3
    <3>4. QED
      BY <1>1, <3>1, <3>2, <3>3
  <2>3. QED
    BY <1>1, <2>1, <2>2 DEF RowsFollow
<1>2. RowsFollow'
  BY <1>1 DEF RowsFollow
<1>3. QED
  BY <1>2 DEF OutsOwn

\* So they are when f goes on as e was.
LEMMA OutStaysOwn ==
  ASSUME heap' = heap, gaveUp \subseteq gaveUp', NEW e, OwnOut(e), NEW f, f.of = e.of,
         f.out = e.out, f.step = e.step, f.image = e.image
  PROVE  OwnOut(f)'
BY DEF OwnOut, AsTheyAre

LEMMA AdriftStays ==
  ASSUME Storing, adrift' \subseteq adrift, gaveUp \subseteq gaveUp', unsure \subseteq unsure'
  PROVE  AdriftOf(gaveUp \union unsure)'
BY DEF Storing, AdriftOf

LEMMA SizeStores ==
  ASSUME ProxyConstants, ProxyInv, Storing, NEW h \in handlers, NEW step \in {"write", "sent"},
         NEW image, image = AsTheyAre(h) \/ (h.step = "write" /\ image = h.image),
         h.step \in {"export", "write"},
         Becomes(h, [h EXCEPT !.step = step, !.image = image]),
         UNCHANGED <<heap, gaveUp, storeVars>>
  PROVE  Storing'
<1> USE DEF Storing
<1>1. PICK g : g = [h EXCEPT !.step = step, !.image = image]
  OBVIOUS
<1>2. handlers' = (handlers \ {h}) \union {g}
  BY <1>1 DEF Becomes
<1>3. g.of = h.of /\ g.out = h.out /\ g.step = step /\ g.image = image /\ Shaped(h)
  BY <1>1 DEF Shaped, ProxyInv, Typed
<1>4. OwnOut(h) /\ DOMAIN AsTheyAre(h) = h.out
  BY DEF OutsOwn, AsTheyAre
<1>5. DOMAIN image = h.out /\ (h.of \notin gaveUp => image = AsTheyAre(h))
  BY <1>4 DEF OwnOut
<1>6. OwnOut(g)'
  BY <1>3, <1>4, <1>5 DEF OwnOut, AsTheyAre
<1>7. \A f \in handlers' : OwnOut(f)'
  BY <1>2, <1>6, OutStaysOwn DEF OutsOwn
<1>8. \A e \in handlers : \E f \in handlers' : Carries(f, e)
  BY <1>2, <1>3 DEF Carries
<1>9. rows' = rows /\ AdriftOf(gaveUp \union unsure)'
  BY AdriftStays DEF storeVars
<1>10. QED
  BY <1>7, <1>8, <1>9, StillStored DEF storeVars

LEMMA ExportsStore ==
  ASSUME ProxyConstants, ProxyInv, Storing, NEW h \in handlers, SizeExport(h) \/ WriteExport(h)
  PROVE  Storing'
<1>1. UNCHANGED <<heap, gaveUp, storeVars>>
  BY DEF SizeExport, WriteExport, mapVars, clientVars
<1>2. CASE SizeExport(h)
  <2>1. PICK image : image = AsTheyAre(h)
    OBVIOUS
  <2>2. h.step = "export" /\ Becomes(h, [h EXCEPT !.step = "write", !.image = image])
    BY <1>2, <2>1 DEF SizeExport
  <2>3. QED
    BY <1>1, <2>1, <2>2, SizeStores
<1>3. CASE WriteExport(h)
  <2>1. PICK image \in {h.image, AsTheyAre(h)} :
          Becomes(h, [h EXCEPT !.step = "sent", !.image = image])
    BY <1>3 DEF WriteExport
  <2>2. h.step = "write"
    BY <1>3 DEF WriteExport
  <2>3. QED
    BY <1>1, <2>1, <2>2, SizeStores
<1>4. QED
  BY <1>2, <1>3

\* A request that is over had its spans stored, or is not accounted for.
LEMMA OversStore ==
  ASSUME ProxyConstants, ProxyInv, Storing, NEW h \in handlers,
         Unread(h) \/ WriteFails(h) \/ ExportLands(h) \/ ExportFails(h)
  PROVE  Storing'
<1> USE DEF Storing
<1>1. /\ heap' = heap /\ gaveUp' = gaveUp /\ handlers' = handlers \ {h}
      /\ unsure \subseteq unsure'
  BY DEF Unread, WriteFails, ExportLands, ExportFails, Replied, mapVars, clientVars, storeVars
<1>2. OwnOut(h) /\ \A f \in handlers' : OwnOut(f)'
  BY <1>1, OutStaysOwn DEF OutsOwn
<1>3. \A e \in handlers \ {h} : \E f \in handlers' : Carries(f, e)
  BY <1>1 DEF Carries
<1>4. CASE Unread(h)
  <2>1. h.of \in gaveUp /\ UNCHANGED storeVars
    BY <1>4 DEF Unread, ProxyInv, Ordered, Sequential
  <2>2. rows' = rows /\ AdriftOf(gaveUp \union unsure)'
    BY <1>1, <2>1, AdriftStays DEF storeVars
  <2>3. QED
    BY <1>1, <1>2, <1>3, <2>1, <2>2, StillStored
<1>5. CASE WriteFails(h)
  <2>1. h.of \in unsure' /\ rows' = rows /\ adrift' = adrift
    BY <1>5 DEF WriteFails
  <2>2. AdriftOf(gaveUp \union unsure)'
    BY <1>1, <2>1, AdriftStays
  <2>3. QED
    BY <1>1, <1>2, <1>3, <2>1, <2>2, StillStored
<1>6. CASE ExportFails(h)
  <2>1. /\ h.of \in unsure' /\ rows' = rows /\ adrift' = adrift \union {h.image}
        /\ h.step = "sent"
    BY <1>6 DEF ExportFails
  <2>2. AdriftOf(gaveUp \union unsure)'
    BY <1>1, <1>2, <2>1 DEF AdriftOf, OwnOut
  <2>3. QED
    BY <1>1, <1>2, <1>3, <2>1, <2>2, StillStored
<1>7. CASE ExportLands(h)
  <2>1. h.step = "sent" /\ rows' = Stored(h.image) /\ adrift' = adrift /\ unsure' = unsure
    BY <1>7 DEF ExportLands
  <2>2. /\ DOMAIN h.image = h.out /\ \A id \in h.out : id \in Ids /\ id[1] = h.of
        /\ h.of \notin gaveUp => h.image = AsTheyAre(h)
    BY <1>2, <2>1 DEF OwnOut
  <2>3. \A id \in Ids : rows'[id] = IF id \in h.out THEN h.image[id] ELSE rows[id]
    BY <2>1, <2>2 DEF Stored
  <2>4. h.of \notin gaveUp => \A id \in h.out : rows'[id] = heap[id]
    BY <2>2, <2>3 DEF AsTheyAre
  <2>5. AdriftOf(gaveUp \union unsure)'
    BY <1>1, <2>1, AdriftStays
  <2>6. \A id \in Ids : id[1] \notin gaveUp /\ rows[id] = heap[id] => rows'[id] = heap[id]
    BY <2>2, <2>3, <2>4
  <2>7. QED
    BY <1>1, <1>2, <1>3, <2>1, <2>4, <2>5, <2>6, StillStored
<1>8. QED
  BY <1>4, <1>5, <1>6, <1>7

LEMMA LateExportStores ==
  ASSUME ProxyConstants, ProxyInv, Storing, LateExportLands
  PROVE  Storing'
<1> USE DEF Storing
<1>1. PICK image \in adrift : rows' = Stored(image) /\ adrift' = adrift \ {image}
  BY DEF LateExportLands
<1>2. heap' = heap /\ handlers' = handlers /\ gaveUp' = gaveUp /\ unsure' = unsure
  BY DEF LateExportLands, mapVars, clientVars
<1>3. \A id \in Ids : id[1] \notin gaveUp \union unsure => rows'[id] = rows[id]
  BY <1>1 DEF AdriftOf, Stored
<1>4. \A f \in handlers' : OwnOut(f)'
  BY <1>2, OutStaysOwn DEF OutsOwn
<1>5. AdriftOf(gaveUp \union unsure)'
  BY <1>1, <1>2, AdriftStays
<1>6. \A e \in handlers : \E f \in handlers' : Carries(f, e)
  BY <1>2 DEF Carries
<1>7. QED
  BY <1>2, <1>3, <1>4, <1>5, <1>6, StillStored

LEMMA GoneStores ==
  ASSUME ProxyConstants, ProxyInv, Storing, NEW cs, handlers' = Gone(cs),
         heap' = heap, gaveUp \subseteq gaveUp', UNCHANGED storeVars
  PROVE  Storing'
<1> USE DEF Storing
<1>1. ASSUME NEW e \in handlers, NEW f,
             f = IF e.of \in cs THEN [e EXCEPT !.gone = TRUE] ELSE e
      PROVE  Carries(f, e) /\ OwnOut(f)'
  <2>1. /\ Shaped(e) /\ OwnOut(e)
    BY DEF ProxyInv, Typed, OutsOwn
  <2>2. f.of = e.of /\ f.out = e.out /\ f.step = e.step /\ f.image = e.image /\ f.at = e.at
    BY <1>1, <2>1 DEF Shaped
  <2>3. QED
    BY <2>1, <2>2, OutStaysOwn DEF Carries
<1>2. handlers' = {IF e.of \in cs THEN [e EXCEPT !.gone = TRUE] ELSE e : e \in handlers}
  BY DEF Gone
<1>3. \A f \in handlers' : OwnOut(f)'
  BY <1>1, <1>2
<1>4. \A e \in handlers : \E f \in handlers' : Carries(f, e)
  BY <1>1, <1>2
<1>5. rows' = rows /\ unsure' = unsure /\ AdriftOf(gaveUp \union unsure)'
  BY AdriftStays DEF storeVars
<1>6. QED
  BY <1>3, <1>4, <1>5, StillStored

LEMMA SameRequestsStore ==
  ASSUME ProxyConstants, ProxyInv, Storing, handlers' = handlers, heap' = heap,
         gaveUp' = gaveUp, UNCHANGED storeVars
  PROVE  Storing'
BY DEF Storing, OutsOwn, OwnOut, AdriftOf, RowsFollow, Held, Current, AsTheyAre, storeVars

LEMMA OthersStore ==
  ASSUME ProxyConstants, ProxyInv, Storing,
         \/ \E c \in Clients : GiveUp(c)
         \/ LateExportLands \/ ProxyStart \/ ProxyClose \/ ShutdownHTTP
         \/ ClientsStart \/ ClientsEnd \/ StopGRPC \/ UNCHANGED proxyVars
  PROVE  Storing'
<1>1. CASE \/ ProxyStart \/ ProxyClose \/ ShutdownHTTP \/ ClientsStart \/ UNCHANGED proxyVars
  BY <1>1, SameRequestsStore
     DEF ProxyStart, ProxyClose, ShutdownHTTP, ClientsStart, clientVars, mapVars, proxyVars
<1>2. CASE (\E c \in Clients : GiveUp(c)) \/ ClientsEnd \/ StopGRPC
  <2>1. /\ heap' = heap /\ gaveUp \subseteq gaveUp' /\ UNCHANGED storeVars
        /\ \E cs : handlers' = Gone(cs)
    BY <1>2 DEF GiveUp, ClientsEnd, StopGRPC, mapVars
  <2>2. QED
    BY <2>1, GoneStores
<1>3. QED
  BY <1>1, <1>2, LateExportStores

LEMMA SendStores ==
  ASSUME ProxyConstants, ProxyInv, Storing, NEW c \in Clients, NEW n \in 1..MaxBatch, Send(c, n)
  PROVE  Storing'
<1> USE DEF Storing
<1>1. PICK r : r = Request(c, said[c] + 1, said[c] + n)
  OBVIOUS
<1>2. handlers' = handlers \union {r} /\ heap' = heap /\ gaveUp' = gaveUp /\ UNCHANGED storeVars
  BY <1>1 DEF Send, mapVars
<1>3. r.out = {} /\ r.step = "record"
  BY <1>1 DEF Request
<1>4. \A f \in handlers' : OwnOut(f)'
  <2>1. OwnOut(r)'
    BY <1>3 DEF OwnOut
  <2>2. QED
    BY <1>2, <2>1, OutStaysOwn DEF OutsOwn
<1>5. \A e \in handlers : \E f \in handlers' : Carries(f, e)
  BY <1>2 DEF Carries
<1>6. rows' = rows /\ unsure' = unsure /\ AdriftOf(gaveUp \union unsure)'
  BY <1>2, AdriftStays DEF storeVars
<1>7. QED
  BY <1>2, <1>4, <1>5, <1>6, StillStored

LEMMA ProxyVanishStores ==
  ASSUME ProxyConstants, ProxyInv, Storing, ProxyVanish
  PROVE  Storing'
<1> USE DEF Storing
<1>1. /\ handlers' = {} /\ heap' = heap /\ rows' = rows /\ unsure' = unsure
      /\ gaveUp' = gaveUp \union {h.of : h \in handlers}
      /\ adrift' = adrift \union {h.image : h \in {g \in handlers : g.step = "sent"}}
  BY DEF ProxyVanish
<1>2. \A e \in handlers : e.of \in gaveUp'
  BY <1>1
<1>3. ASSUME NEW image \in adrift', NEW id \in DOMAIN image
      PROVE  id[1] \in gaveUp' \union unsure'
  <2>1. CASE image \in adrift
    BY <1>1, <2>1 DEF AdriftOf
  <2>2. CASE \E h \in handlers : h.step = "sent" /\ image = h.image
    <3>1. PICK h \in handlers : h.step = "sent" /\ image = h.image
      BY <2>2
    <3>2. id \in h.out /\ id[1] = h.of
      BY <3>1 DEF OutsOwn, OwnOut
    <3>3. QED
      BY <1>2, <3>2
  <2>3. QED
    BY <1>1, <2>1, <2>2
<1>4. AdriftOf(gaveUp \union unsure)'
  BY <1>3 DEF AdriftOf
<1>5. QED
  BY <1>1, <1>2, <1>4, StillStored

LEMMA ProxyStepStores ==
  ASSUME ProxyConstants, ProxyInv, Storing, [ProxyNext]_proxyVars
  PROVE  Storing'
<1>1. CASE \E h \in handlers : HandlerStep(h)
  BY <1>1, SpanRecordsStore, LlmCallSpanStores, RememberLLMCallStores, TakeLLMCallStores,
     LlmCallUsageSpanStores, ExportsStore, OversStore
     DEF HandlerStep
<1>2. CASE \E c \in Clients : \E n \in 1..MaxBatch : Send(c, n)
  BY <1>2, SendStores
<1>3. CASE \/ \E c \in Clients : GiveUp(c)
           \/ LateExportLands \/ ProxyStart \/ ProxyClose \/ ShutdownHTTP
           \/ ClientsStart \/ ClientsEnd \/ StopGRPC \/ UNCHANGED proxyVars
  BY <1>3, OthersStore
<1>4. CASE ProxyVanish
  BY <1>4, ProxyVanishStores
<1>5. QED
  BY <1>1, <1>2, <1>3, <1>4 DEF ProxyNext, ProxyServe

-----------------------------------------------------------------------------
(* The theorem.                                                            *)

LEMMA ProxyInitStores ==
  ASSUME ProxyConstants, ProxyInit
  PROVE  Told /\ Storing
<1> USE DEF ProxyInit
<1>1. \A id \in Ids : ~ToldBy(id)
  BY IdsArePairs, LengthsAreNat DEF ToldBy
<1>2. EventsMade /\ CountsMade
  BY <1>1 DEF EventsMade, CountsMade
<1>3. Awaited
  BY DEF Awaited
<1>4. Storing
  BY DEF Storing, OutsOwn, AdriftOf, RowsFollow
<1>5. QED
  BY <1>2, <1>3, <1>4 DEF Told

LEMMA LastIsOfIts ==
  ASSUME NEW what, NEW c, NEW n, NEW v, NEW k, what # None, IsLast(what, c, n, v, k)
  PROVE  what[1] = c
<1>1. \E j \in 1..n : what = <<c, j>>
  BY DEF IsLast
<1>2. QED
  BY <1>1

\* Of a settled client nothing is left to be made or stored.
LEMMA SettledIsComplete ==
  ASSUME ProxyConstants, ProxyInv, Told, Storing
  PROVE  RowsAreComplete
<1>1. ASSUME NEW c, Settled(c), NEW id, id[1] = c
      PROVE  ~ToCome(id) /\ ~Held(id) /\ c \notin gaveUp \union unsure
  BY <1>1 DEF Settled, Over, ToCome, Held
<1>2. ASSUME NEW id \in Ids, heap[id] # None, Settled(id[1])
      PROVE  rows[id] = heap[id]
  BY <1>1, <1>2 DEF Storing, RowsFollow
<1> SUFFICES ASSUME NEW id \in Ids, id[2] <= said[id[1]], Settled(id[1])
             PROVE  /\ Event(id).kind \in {"prompt", "request", "span"} => rows[id] # None
                    /\ Event(id).kind = "usage" =>
                         \A call \in Ids : FirstAfter(id, call) => id \in rows[call].counts
  BY DEF RowsAreComplete
<1>3. ToldBy(id) /\ ~ToCome(id)
  BY <1>1 DEF ToldBy
<1>4. Event(id).kind \in {"prompt", "request", "span"} => rows[id] # None
  BY <1>2, <1>3 DEF Told, EventsMade
<1>5. ASSUME Event(id).kind = "usage", NEW call \in Ids, FirstAfter(id, call)
      PROVE  id \in rows[call].counts
  <2>1. heap[call] # None /\ id \in heap[call].counts
    BY <1>3, <1>5 DEF Told, CountsMade
  <2>2. call[1] = id[1]
    BY <1>5, IdsAreNotNone, LastIsOfIts DEF FirstAfter, IsLastBefore
  <2>3. QED
    BY <1>2, <2>1, <2>2
<1>6. QED
  BY <1>4, <1>5

\* When the requests of a client that gave none up are over and none of their exports
\* failed, the service holds all it told of, and each call with the first counts after it.
THEOREM ProxyRowsAreComplete == ProxySpec => []RowsAreComplete
<1>1. ProxyInit => ProxyInv /\ Told /\ Storing
  BY ProxyConstants, ProxyInitInv, ProxyInitStores
<1>2. ProxyInv /\ Told /\ Storing /\ [ProxyNext]_proxyVars => (ProxyInv /\ Told /\ Storing)'
  BY ProxyConstants, ProxyStepKeeps, ProxyStepTold, ProxyStepStores
<1>3. ProxyInv /\ Told /\ Storing => RowsAreComplete
  BY ProxyConstants, SettledIsComplete
<1>4. QED
  BY <1>1, <1>2, <1>3, PTL DEF ProxySpec

-----------------------------------------------------------------------------
(* The type invariant, which the argument above only needs in part.        *)

ImageOK(image) == \A id \in DOMAIN image : image[id] \in Spans \union {None}

HandlerKept(h) ==
  /\ h.gone \in BOOLEAN /\ h.span \in Ids \union {None}
  /\ h.step \in {"write", "sent"} => ImageOK(h.image)

HandlersKept == \A h \in handlers : HandlerKept(h)

StoreKept ==
  /\ \A image \in adrift : ImageOK(image)
  /\ \A id \in Ids : rows[id] \in Spans \union {None}

ClientsKept ==
  /\ clientsUp \in BOOLEAN /\ waiting \in [Clients -> BOOLEAN]
  /\ gaveUp \subseteq Clients /\ unsure \subseteq Clients

ListensKept ==
  listening \in {"off", "up", "draining", "shutdown"} /\ troubles \in 0..MaxTroubles

AllKept == HandlersKept /\ StoreKept /\ ClientsKept /\ ListensKept

LEMMA RepliedKept ==
  ASSUME ProxyInv, AllKept, NEW h \in handlers, Replied(h)
  PROVE  HandlersKept' /\ waiting' \in [Clients -> BOOLEAN] /\ clientsUp' = clientsUp
         /\ gaveUp' = gaveUp
<1>1. waiting \in [Clients -> BOOLEAN] /\ h.of \in Clients
  BY DEF AllKept, ClientsKept, ProxyInv, Typed, Placed
<1>2. waiting' = [waiting EXCEPT ![h.of] = waiting[h.of] /\ h.gone]
  BY DEF Replied
<1>3. (waiting[h.of] /\ h.gone) \in BOOLEAN
  OBVIOUS
<1>4. waiting' \in [Clients -> BOOLEAN]
  BY <1>1, <1>2, <1>3
<1>5. QED
  BY <1>4 DEF Replied, AllKept, HandlersKept

LEMMA HandledKept ==
  ASSUME ProxyInv, AllKept, NEW h \in handlers, NEW spans, Handled(h, spans)
  PROVE  /\ HandlersKept'
         /\ clientsUp' = clientsUp /\ gaveUp' = gaveUp /\ waiting' \in [Clients -> BOOLEAN]
<1> DEFINE on == [h EXCEPT !.out = h.out \union spans, !.span = None]
<1>1. PICK g1 : g1 = [on EXCEPT !.at = @ + 1, !.step = "record"]
  OBVIOUS
<1>2. PICK g2 : g2 = [on EXCEPT !.step = "export"]
  OBVIOUS
<1>3. Shaped(h) /\ HandlerKept(h) /\ h.of \in Clients
  BY DEF ProxyInv, Typed, Placed, AllKept, HandlersKept
<1>4. HandlerKept(g1) /\ HandlerKept(g2)
  BY <1>1, <1>2, <1>3 DEF Shaped, HandlerKept
<1>5. \/ Becomes(h, g1) /\ UNCHANGED clientVars
      \/ Becomes(h, g2) /\ UNCHANGED clientVars
      \/ Replied(h)
  BY <1>1, <1>2 DEF Handled
<1>6. HandlersKept'
  BY <1>4, <1>5 DEF AllKept, HandlersKept, Becomes, Replied
<1>7. waiting' \in [Clients -> BOOLEAN]
  <2>1. CASE UNCHANGED clientVars
    BY <2>1 DEF AllKept, ClientsKept, clientVars
  <2>2. CASE Replied(h)
    BY <2>2, RepliedKept
  <2>3. QED
    BY <1>5, <2>1, <2>2
<1>8. QED
  BY <1>5, <1>6, <1>7 DEF clientVars, Replied

\* A step of a request makes no client go and leaves nothing behind that is not a span.
LEMMA TurnKept ==
  ASSUME ProxyInv, AllKept, NEW h \in handlers, NEW g, Becomes(h, g), HandlerKept(g),
         UNCHANGED clientVars
  PROVE  /\ HandlersKept'
         /\ clientsUp' = clientsUp /\ gaveUp' = gaveUp /\ waiting' \in [Clients -> BOOLEAN]
BY DEF AllKept, HandlersKept, ClientsKept, Becomes, clientVars

LEMMA RecordsKept ==
  ASSUME ProxyInv, AllKept, NEW h \in handlers,
         \/ MessageSpan(h) \/ LlmCallSpan(h) \/ RememberLLMCall(h) \/ TakeLLMCall(h)
         \/ LlmCallUsageSpan(h) \/ SpanForRecord(h) \/ PassSpan(h)
  PROVE  AllKept'
<1>1. UNCHANGED storeVars /\ listening' = listening /\ troubles' = troubles
  BY DEF MessageSpan, LlmCallSpan, RememberLLMCall, TakeLLMCall, LlmCallUsageSpan,
         SpanForRecord, PassSpan
<1>2. /\ HandlersKept'
      /\ clientsUp' = clientsUp /\ gaveUp' = gaveUp /\ waiting' \in [Clients -> BOOLEAN]
  <2>1. CASE \E spans : Handled(h, spans)
    BY <2>1, HandledKept
  <2>2. Shaped(h) /\ HandlerKept(h)
    BY DEF ProxyInv, Typed, AllKept, HandlersKept
  <2>3. CASE LlmCallSpan(h)
    <3>1. PICK g : g = [h EXCEPT !.step = "remember"]
      OBVIOUS
    <3>2. HandlerKept(g)
      BY <2>2, <3>1 DEF Shaped, HandlerKept
    <3>3. Becomes(h, g) /\ UNCHANGED clientVars
      BY <2>3, <3>1 DEF LlmCallSpan
    <3>4. QED
      BY <3>2, <3>3, TurnKept
  <2>4. CASE TakeLLMCall(h) /\ ~\E spans : Handled(h, spans)
    <3>1. PICK call : call = IF Named(h) THEN llmCalls[Conversation(h)] ELSE None
      OBVIOUS
    <3>2. PICK g : g = [h EXCEPT !.step = "append", !.span = call]
      OBVIOUS
    <3>3. call \in Ids \union {None}
      <4>1. Conversation(h) \in Conversations \union {Anonymous}
        BY ProxyConstants, CurrentIsEvent DEF ProxyInv
      <4>2. QED
        BY <3>1, <4>1 DEF Named, ProxyInv, Typed
    <3>4. HandlerKept(g)
      BY <2>2, <3>2, <3>3 DEF Shaped, HandlerKept
    <3>5. Becomes(h, g) /\ UNCHANGED clientVars
      BY <2>4, <3>1, <3>2 DEF TakeLLMCall
    <3>6. QED
      BY <3>4, <3>5, TurnKept
  <2>5. QED
    BY <2>1, <2>3, <2>4 DEF MessageSpan, RememberLLMCall, LlmCallUsageSpan, SpanForRecord, PassSpan
<1>3. QED
  BY <1>1, <1>2 DEF AllKept, StoreKept, ClientsKept, ListensKept, storeVars

LEMMA SpansAsTheyAre ==
  ASSUME ProxyInv, Storing, NEW h \in handlers
  PROVE  ImageOK(AsTheyAre(h))
BY DEF Storing, OutsOwn, OwnOut, ProxyInv, Typed, ImageOK, AsTheyAre

LEMMA ExportsKept ==
  ASSUME ProxyInv, Storing, AllKept, NEW h \in handlers, SizeExport(h) \/ WriteExport(h)
  PROVE  AllKept'
<1>1. /\ UNCHANGED storeVars /\ listening' = listening /\ troubles' = troubles
      /\ UNCHANGED clientVars
  BY DEF SizeExport, WriteExport
<1>2. Shaped(h) /\ HandlerKept(h) /\ ImageOK(AsTheyAre(h))
  BY SpansAsTheyAre DEF ProxyInv, Typed, AllKept, HandlersKept
<1>3. PICK step \in {"write", "sent"} :
        \E image : ImageOK(image) /\ Becomes(h, [h EXCEPT !.step = step, !.image = image])
  BY <1>2 DEF SizeExport, WriteExport, HandlerKept
<1>4. PICK image : ImageOK(image) /\ Becomes(h, [h EXCEPT !.step = step, !.image = image])
  BY <1>3
<1>5. PICK g : g = [h EXCEPT !.step = step, !.image = image]
  OBVIOUS
<1>6. HandlerKept(g) /\ Becomes(h, g)
  BY <1>2, <1>4, <1>5 DEF Shaped, HandlerKept
<1>7. /\ HandlersKept' /\ clientsUp' = clientsUp /\ gaveUp' = gaveUp
      /\ waiting' \in [Clients -> BOOLEAN]
  BY <1>1, <1>6, TurnKept
<1>8. QED
  BY <1>1, <1>7 DEF AllKept, StoreKept, ClientsKept, ListensKept, storeVars

LEMMA OversKept ==
  ASSUME ProxyConstants, ProxyInv, AllKept, NEW h \in handlers,
         Unread(h) \/ WriteFails(h) \/ ExportLands(h) \/ ExportFails(h)
  PROVE  AllKept'
<1>1. /\ HandlersKept' /\ clientsUp' = clientsUp /\ gaveUp' = gaveUp
      /\ waiting' \in [Clients -> BOOLEAN] /\ listening' = listening
  <2>1. CASE Unread(h)
    BY <2>1 DEF Unread, AllKept, HandlersKept, ClientsKept, clientVars
  <2>2. CASE ~Unread(h)
    BY <2>2, RepliedKept DEF WriteFails, ExportLands, ExportFails
  <2>3. QED
    BY <2>1, <2>2
<1>2. h.of \in Clients /\ HandlerKept(h)
  BY DEF ProxyInv, Typed, Placed, AllKept, HandlersKept
<1>3. unsure' \subseteq Clients
  BY <1>2 DEF Unread, WriteFails, ExportLands, ExportFails, AllKept, ClientsKept, storeVars
<1>4. troubles' \in 0..MaxTroubles
  BY DEF Unread, WriteFails, ExportLands, ExportFails, AllKept, ListensKept, ProxyConstants
<1>5. StoreKept'
  <2>1. CASE Unread(h) \/ WriteFails(h)
    BY <2>1 DEF Unread, WriteFails, AllKept, StoreKept, storeVars
  <2>2. CASE ExportLands(h)
    BY <1>2, <2>2 DEF ExportLands, Stored, AllKept, StoreKept, HandlerKept, ImageOK
  <2>3. CASE ExportFails(h)
    BY <1>2, <2>3 DEF ExportFails, AllKept, StoreKept, HandlerKept
  <2>4. QED
    BY <2>1, <2>2, <2>3
<1>6. QED
  BY <1>1, <1>3, <1>4, <1>5 DEF AllKept, ClientsKept, ListensKept

LEMMA LateExportKept ==
  ASSUME AllKept, LateExportLands
  PROVE  AllKept'
<1>1. PICK image \in adrift : rows' = Stored(image) /\ adrift' = adrift \ {image}
  BY DEF LateExportLands
<1>2. StoreKept'
  BY <1>1 DEF Stored, AllKept, StoreKept, ImageOK
<1>3. QED
  BY <1>2 DEF LateExportLands, clientVars, AllKept, HandlersKept, ClientsKept, ListensKept

LEMMA GoneKept ==
  ASSUME ProxyInv, AllKept, NEW cs, handlers' = Gone(cs)
  PROVE  HandlersKept'
<1>1. ASSUME NEW e \in handlers, NEW f, f = [e EXCEPT !.gone = TRUE]
      PROVE  HandlerKept(f)
  BY <1>1 DEF ProxyInv, Typed, Shaped, AllKept, HandlersKept, HandlerKept
<1>2. QED
  BY <1>1 DEF Gone, AllKept, HandlersKept

LEMMA SendKept ==
  ASSUME ProxyInv, AllKept, NEW c \in Clients, NEW n \in 1..MaxBatch, Send(c, n)
  PROVE  AllKept'
<1>1. PICK r : r = Request(c, said[c] + 1, said[c] + n)
  OBVIOUS
<1>2. HandlerKept(r)
  BY <1>1 DEF Request, HandlerKept
<1>3. handlers' = handlers \union {r} /\ waiting' = [waiting EXCEPT ![c] = TRUE]
  BY <1>1 DEF Send
<1>4. QED
  BY <1>2, <1>3 DEF Send, storeVars, AllKept, HandlersKept, StoreKept, ClientsKept, ListensKept

LEMMA OthersKept ==
  ASSUME ProxyConstants, ProxyInv, AllKept,
         \/ \E c \in Clients : GiveUp(c)
         \/ ProxyStart \/ ProxyClose \/ ShutdownHTTP
         \/ ClientsStart \/ ClientsEnd \/ StopGRPC \/ UNCHANGED proxyVars
  PROVE  AllKept'
<1>1. \A h \in handlers : h.of \in Clients
  BY DEF ProxyInv, Typed, Placed
<1>2. CASE \E c \in Clients : GiveUp(c)
  <2>1. PICK c \in Clients : GiveUp(c)
    BY <1>2
  <2>2. HandlersKept'
    BY <2>1, GoneKept DEF GiveUp
  <2>3. StoreKept' /\ ClientsKept'
    BY <2>1 DEF GiveUp, storeVars, AllKept, StoreKept, ClientsKept
  <2>4. ListensKept'
    BY <2>1 DEF GiveUp, AllKept, ListensKept, ProxyConstants
  <2>5. QED
    BY <2>2, <2>3, <2>4 DEF AllKept
<1>3. CASE ClientsEnd
  <2>1. HandlersKept'
    BY <1>3, GoneKept DEF ClientsEnd
  <2>2. QED
    BY <1>1, <1>3, <2>1 DEF ClientsEnd, storeVars, AllKept, StoreKept, ClientsKept, ListensKept
<1>4. CASE StopGRPC
  <2>1. HandlersKept'
    BY <1>4, GoneKept DEF StopGRPC
  <2>2. gaveUp' \subseteq Clients /\ waiting' \in [Clients -> BOOLEAN]
    BY <1>1, <1>4 DEF StopGRPC, AllKept, ClientsKept
  <2>3. QED
    BY <1>4, <2>1, <2>2 DEF StopGRPC, storeVars, AllKept, StoreKept, ClientsKept, ListensKept
<1>5. CASE ProxyStart \/ ProxyClose \/ ShutdownHTTP \/ ClientsStart \/ UNCHANGED proxyVars
  BY <1>5 DEF ProxyStart, ProxyClose, ShutdownHTTP, ClientsStart, clientVars, storeVars,
              proxyVars, AllKept, HandlersKept, StoreKept, ClientsKept, ListensKept
<1>6. QED
  BY <1>2, <1>3, <1>4, <1>5

LEMMA ProxyVanishKept ==
  ASSUME ProxyInv, AllKept, ProxyVanish
  PROVE  AllKept'
<1>1. \A h \in handlers : h.of \in Clients /\ HandlerKept(h)
  BY DEF ProxyInv, Typed, Placed, AllKept, HandlersKept
<1>2. StoreKept'
  BY <1>1 DEF ProxyVanish, AllKept, StoreKept, HandlerKept
<1>3. gaveUp' \subseteq Clients
  BY <1>1 DEF ProxyVanish, AllKept, ClientsKept
<1>4. QED
  BY <1>2, <1>3 DEF ProxyVanish, AllKept, HandlersKept, ClientsKept, ListensKept

LEMMA ProxyStepKept ==
  ASSUME ProxyConstants, ProxyInv, Storing, AllKept, [ProxyNext]_proxyVars
  PROVE  AllKept'
<1>1. CASE \E h \in handlers : HandlerStep(h)
  BY <1>1, RecordsKept, ExportsKept, OversKept DEF HandlerStep
<1>2. CASE ~\E h \in handlers : HandlerStep(h)
  BY <1>2, SendKept, LateExportKept, OthersKept, ProxyVanishKept DEF ProxyNext, ProxyServe
<1>3. QED
  BY <1>1, <1>2

LEMMA KeptIsTyped ==
  ASSUME ProxyInv, Storing, AllKept
  PROVE  ProxyTypeOK
<1>1. \A h \in handlers : HandlerOK(h)
  <2>1. ASSUME NEW h \in handlers PROVE HandlerOK(h)
    <3>1. Placed(h) /\ HandlerKept(h) /\ h.out \subseteq Ids
      BY DEF ProxyInv, Typed, AllKept, HandlersKept, Storing, OutsOwn, OwnOut
    <3>2. said[h.of] \in Nat
      BY <3>1 DEF ProxyInv, Typed, Placed
    <3>3. QED
      BY <3>1, <3>2 DEF Placed, HandlerKept, HandlerOK
  <2>2. QED
    BY <2>1
<1>2. \A span \in Spans \union {None} : SpanOK(span)
  BY DEF Spans, SpanOK
<1>3. \A id \in Ids : SpanOK(heap[id]) /\ SpanOK(rows[id])
  BY <1>2 DEF ProxyInv, Typed, AllKept, StoreKept
<1>4. QED
  BY <1>1, <1>3 DEF ProxyTypeOK, ProxyInv, Typed, AllKept, ClientsKept, ListensKept

\* The state of the proxy and of the service has its type: no request is at a record it does
\* not have, and what the maps, the requests and the service hold of a span is a span.
THEOREM ProxyIsTyped == ProxySpec => []ProxyTypeOK
<1>1. ProxyInit => ProxyInv /\ Told /\ Storing
  BY ProxyConstants, ProxyInitInv, ProxyInitStores
<1>2. ProxyInit => AllKept
  <2>1. 0 \in 0..MaxTroubles
    BY ProxyConstants DEF ProxyConstants
  <2>2. ProxyInit => HandlersKept /\ StoreKept
    BY DEF ProxyInit, HandlersKept, StoreKept
  <2>3. ProxyInit => ClientsKept /\ ListensKept
    BY <2>1 DEF ProxyInit, ClientsKept, ListensKept
  <2>4. QED
    BY <2>2, <2>3 DEF AllKept
<1>3. /\ ProxyInv /\ Storing /\ AllKept /\ [ProxyNext]_proxyVars
      => (ProxyInv /\ Storing /\ AllKept)'
  BY ProxyConstants, ProxyStepKeeps, ProxyStepStores, ProxyStepKept
<1>4. ProxyInv /\ Storing /\ AllKept => ProxyTypeOK
  BY KeptIsTyped
<1>5. QED
  BY <1>1, <1>2, <1>3, <1>4, PTL DEF ProxySpec

=============================================================================
