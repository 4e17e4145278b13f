---------------------------- MODULE TracingProxy ----------------------------
(***************************************************************************)
(* tracingproxy: an OTLP listener next to the agent CLI. Trace exports are *)
(* passed on to the Tracing service. Log exports are translated into spans *)
(* first: a prompt becomes a message, an API request a call that hangs off *)
(* its conversation's last message and is held until an event with token   *)
(* counts arrives, when it is exported once more with them.                *)
(*                                                                         *)
(* Each request is handled in a goroutine of its own. A client sends one   *)
(* batch after another, but may give a request up and send the next while  *)
(* the first is still handled. The service takes a span in place of any    *)
(* other of the same identity. A log export is answered with success       *)
(* whatever became of its spans, a trace export with the service's answer. *)
(***************************************************************************)
EXTENDS Integers, Sequences, FiniteSets

CONSTANTS
  Clients,        \* what exports to the proxy
  Script,         \* the events each of them emits, in order
  Conversations,  \* what the events belong to
  Anonymous,      \* stands for an event that names no conversation
  MaxBatch,       \* events a client puts into one request
  MaxTroubles     \* requests given up, and exports that fail by themselves

\* A prompt, an API request, a response completed without or with its token counts,
\* a span the client made itself, or an event that nothing is made of.
Kinds == {"prompt", "request", "completed", "usage", "span", "other"}

\* An event gives rise to at most one span, whose random identity no other has.
Ids == UNION {{<<c, i>> : i \in 1..Len(Script[c])} : c \in Clients}
None == <<>>
Event(id) == Script[id[1]][id[2]]

\* A client sends traces or logs, and what one says of a conversation no other does.
ASSUME ProxyConstants ==
  /\ \A c \in Clients :
       /\ Script[c] \in Seq([kind : Kinds, conversation : Conversations \union {Anonymous},
                             duration : Nat])
       /\ \/ \A i \in 1..Len(Script[c]) : Script[c][i].kind = "span"
          \/ \A i \in 1..Len(Script[c]) : Script[c][i].kind # "span"
  /\ \A id, jd \in Ids :
       Event(id).conversation = Event(jd).conversation
       => id[1] = jd[1] \/ Event(id).conversation = Anonymous
  /\ Anonymous \notin Conversations
  /\ MaxBatch \in Nat \ {0} /\ MaxTroubles \in Nat

VARIABLES
  listening,     \* "off", "up", or closing: "draining" gRPC, then "shutdown" of HTTP
  clientsUp,     \* the process the clients belong to runs
  said,          \* how many of its events each client has sent
  waiting,       \* the client waits for a reply
  handlers,      \* the requests being handled
  heap,          \* the spans made, which the maps and the handlers point to
  messageSpans,  \* the message each conversation is answering
  llmCalls,      \* the call each conversation has pending
  adrift,        \* exports that nobody waits for and the service may still take
  rows,          \* the spans the service holds
  gaveUp,        \* history: clients that did not wait for a request to be handled
  unsure,        \* history: clients one of whose exports failed
  troubles       \* how many requests were given up and exports failed so far

clientVars == <<clientsUp, said, waiting, gaveUp>>
mapVars    == <<heap, messageSpans, llmCalls>>
storeVars  == <<adrift, rows, unsure>>
proxyVars  == <<listening, handlers, clientVars, mapVars, storeVars, troubles>>

ProxyInit ==
  /\ listening = "off" /\ clientsUp = FALSE
  /\ said = [c \in Clients |-> 0] /\ waiting = [c \in Clients |-> FALSE]
  /\ handlers = {}
  /\ heap = [id \in Ids |-> None] /\ rows = [id \in Ids |-> None]
  /\ messageSpans = [v \in Conversations |-> None]
  /\ llmCalls = [v \in Conversations |-> None]
  /\ adrift = {} /\ gaveUp = {} /\ unsure = {} /\ troubles = 0

-----------------------------------------------------------------------------
(* The clients. Trace exports come over gRPC, log exports over HTTP.       *)

Traces(c) == Script[c][1].kind = "span"

Request(c, first, last) ==
  [of |-> c, first |-> first, last |-> last, at |-> first, step |-> "record",
   span |-> None, out |-> {}, image |-> <<>>, gone |-> FALSE]

\* HTTP is listened to until gRPC has drained.
Send(c, n) ==
  LET last == said[c] + n
  IN  /\ listening = "up" \/ (listening = "draining" /\ ~Traces(c))
      /\ clientsUp /\ ~waiting[c] /\ last <= Len(Script[c])
      /\ said' = [said EXCEPT ![c] = last]
      /\ waiting' = [waiting EXCEPT ![c] = TRUE]
      /\ handlers' = handlers \union {Request(c, said[c] + 1, last)}
      /\ UNCHANGED <<listening, clientsUp, gaveUp, mapVars, storeVars, troubles>>

Gone(cs) == {IF h.of \in cs THEN [h EXCEPT !.gone = TRUE] ELSE h : h \in handlers}

\* The client's deadline passes, which ends the request's context. The handler goes on.
GiveUp(c) ==
  /\ waiting[c] /\ troubles < MaxTroubles
  /\ troubles' = troubles + 1
  /\ waiting' = [waiting EXCEPT ![c] = FALSE]
  /\ gaveUp' = gaveUp \union {c}
  /\ handlers' = Gone({c})
  /\ UNCHANGED <<listening, clientsUp, said, mapVars, storeVars>>

\* The process whose traffic is followed starts.
ClientsStart ==
  /\ ~clientsUp /\ \A c \in Clients : said[c] = 0
  /\ clientsUp' = TRUE
  /\ UNCHANGED <<listening, said, waiting, gaveUp, handlers, mapVars, storeVars, troubles>>

\* The clients' process ends, and with it the connections of its requests.
ClientsEnd ==
  /\ clientsUp /\ clientsUp' = FALSE
  /\ waiting' = [c \in Clients |-> FALSE]
  /\ gaveUp' = gaveUp \union {h.of : h \in handlers}
  /\ handlers' = Gone(Clients)
  /\ UNCHANGED <<listening, said, mapVars, storeVars, troubles>>

-----------------------------------------------------------------------------
(* A request being handled: the translation of its records. *)

Current(h) == <<h.of, h.at>>
Kind(h) == Event(Current(h)).kind
Conversation(h) == Event(Current(h)).conversation
Named(h) == Conversation(h) # Anonymous

Becomes(h, g) == handlers' = (handlers \ {h}) \union {g}

\* The request is answered; a client that is still there sees it.
Replied(h) ==
  /\ handlers' = handlers \ {h}
  /\ waiting' = [waiting EXCEPT ![h.of] = @ /\ h.gone]
  /\ UNCHANGED <<clientsUp, said, gaveUp>>

\* The record h was at is handled, and spans came of it. A request that nothing
\* came of is answered without an export.
Handled(h, spans) ==
  LET out == h.out \union spans
      on  == [h EXCEPT !.out = out, !.span = None]
  IN  \/ /\ h.at < h.last
         /\ Becomes(h, [on EXCEPT !.at = @ + 1, !.step = "record"])
         /\ UNCHANGED clientVars
      \/ /\ h.at = h.last /\ out # {}
         /\ Becomes(h, [on EXCEPT !.step = "export"])
         /\ UNCHANGED clientVars
      \/ h.at = h.last /\ out = {} /\ Replied(h)

Span(parent, start) == [parent |-> parent, start |-> start, counts |-> {}]

\* The connection is gone before the request was read.
Unread(h) ==
  /\ h.step = "record" /\ h.at = h.first /\ h.gone
  /\ handlers' = handlers \ {h}
  /\ UNCHANGED <<listening, clientVars, mapVars, storeVars, troubles>>

MessageSpan(h) ==
  /\ h.step = "record" /\ Kind(h) = "prompt"
  /\ heap' = [heap EXCEPT ![Current(h)] = Span(None, h.at)]
  /\ messageSpans' = IF Named(h) THEN [messageSpans EXCEPT ![Conversation(h)] = Current(h)]
                                 ELSE messageSpans
  /\ Handled(h, {Current(h)})
  /\ UNCHANGED <<listening, llmCalls, storeVars, troubles>>

\* llmCallSpan up to its second lock: the call started its duration ago, but not
\* before the message it hangs off.
LlmCallSpan(h) ==
  LET parent == IF Named(h) THEN messageSpans[Conversation(h)] ELSE None
      start  == h.at - Event(Current(h)).duration
      from   == IF parent # None /\ start < heap[parent].start
                THEN heap[parent].start ELSE start
  IN  /\ h.step = "record" /\ Kind(h) = "request"
      /\ heap' = [heap EXCEPT ![Current(h)] = Span(parent, from)]
      /\ Becomes(h, [h EXCEPT !.step = "remember"])
      /\ UNCHANGED <<listening, clientVars, messageSpans, llmCalls, storeVars, troubles>>

\* MUTANT: one call is pending for the proxy, whatever the conversation.
OneCallPending(h) ==
  /\ h.step = "remember"
  /\ llmCalls' = IF Named(h) THEN [v \in Conversations |-> Current(h)] ELSE llmCalls
  /\ Handled(h, {Current(h)})
  /\ UNCHANGED <<listening, heap, messageSpans, storeVars, troubles>>

RememberLLMCall(h) ==
  /\ h.step = "remember"
  /\ llmCalls' = IF Named(h) THEN [llmCalls EXCEPT ![Conversation(h)] = Current(h)]
                             ELSE llmCalls
  /\ Handled(h, {Current(h)})
  /\ UNCHANGED <<listening, heap, messageSpans, storeVars, troubles>>

\* Counts take the pending call; with none pending they are dropped.
TakeLLMCall(h) ==
  LET call == IF Named(h) THEN llmCalls[Conversation(h)] ELSE None
  IN  /\ h.step = "record" /\ Kind(h) = "usage"
      /\ llmCalls' = IF Named(h) THEN [llmCalls EXCEPT ![Conversation(h)] = None]
                                 ELSE llmCalls
      /\ IF call = None THEN Handled(h, {})
         ELSE Becomes(h, [h EXCEPT !.step = "append", !.span = call])
              /\ UNCHANGED clientVars
      /\ UNCHANGED <<listening, heap, messageSpans, storeVars, troubles>>

\* They are appended after the lock is left.
LlmCallUsageSpan(h) ==
  /\ h.step = "append"
  /\ heap' = [heap EXCEPT ![h.span].counts = @ \union {Current(h)}]
  /\ Handled(h, {h.span})
  /\ UNCHANGED <<listening, messageSpans, llmCalls, storeVars, troubles>>

\* MUTANT: the first completion takes the call, counts or not.
CompletionSpends(h) ==
  /\ h.step = "record" /\ Kind(h) \in {"completed", "other"}
  /\ llmCalls' = IF Named(h) /\ Kind(h) = "completed"
                 THEN [llmCalls EXCEPT ![Conversation(h)] = None] ELSE llmCalls
  /\ Handled(h, {})
  /\ UNCHANGED <<listening, heap, messageSpans, storeVars, troubles>>

\* A record that nothing is made of. A response completed without counts is one, and
\* leaves the pending call to the record that has them.
SpanForRecord(h) ==
  /\ h.step = "record" /\ Kind(h) \in {"completed", "other"}
  /\ Handled(h, {})
  /\ UNCHANGED <<listening, mapVars, storeVars, troubles>>

\* A span of a trace export is passed on as it is.
PassSpan(h) ==
  /\ h.step = "record" /\ Kind(h) = "span"
  /\ heap' = [heap EXCEPT ![Current(h)] = Span(None, h.at)]
  /\ Handled(h, {Current(h)})
  /\ UNCHANGED <<listening, messageSpans, llmCalls, storeVars, troubles>>

-----------------------------------------------------------------------------
(* Export: what was made of the request goes to the service. *)

AsTheyAre(h) == [id \in h.out |-> heap[id]]

Stored(image) ==
  [id \in Ids |-> IF id \in DOMAIN image THEN image[id] ELSE rows[id]]

\* The message is sized, then written. Nothing keeps another handler from appending to
\* one of its spans in between: either of the two is written, or marshalling fails.
SizeExport(h) ==
  /\ h.step = "export"
  /\ Becomes(h, [h EXCEPT !.step = "write", !.image = AsTheyAre(h)])
  /\ UNCHANGED <<listening, clientVars, mapVars, storeVars, troubles>>

WriteExport(h) ==
  /\ h.step = "write"
  /\ \E image \in {h.image, AsTheyAre(h)} :
       Becomes(h, [h EXCEPT !.step = "sent", !.image = image])
  /\ UNCHANGED <<listening, clientVars, mapVars, storeVars, troubles>>

WriteFails(h) ==
  /\ h.step = "write" /\ h.image # AsTheyAre(h)
  /\ Replied(h)
  /\ unsure' = unsure \union {h.of}
  /\ UNCHANGED <<listening, mapVars, adrift, rows, troubles>>

ExportLands(h) ==
  /\ h.step = "sent"
  /\ rows' = Stored(h.image)
  /\ Replied(h)
  /\ UNCHANGED <<listening, mapVars, adrift, unsure, troubles>>

\* It fails by itself, or because the request it belongs to has gone or the connection
\* is closed. The service may have taken it, or take it later, or never.
ExportFails(h) ==
  /\ h.step = "sent"
  /\ IF h.gone \/ listening = "off" THEN UNCHANGED troubles
     ELSE troubles < MaxTroubles /\ troubles' = troubles + 1
  /\ adrift' = adrift \union {h.image}
  /\ unsure' = unsure \union {h.of}
  /\ Replied(h)
  /\ UNCHANGED <<listening, mapVars, rows>>

LateExportLands ==
  \E image \in adrift :
    /\ rows' = Stored(image)
    /\ adrift' = adrift \ {image}
    /\ UNCHANGED <<listening, handlers, clientVars, mapVars, unsure, troubles>>

HandlerStep(h) ==
  \/ Unread(h) \/ MessageSpan(h) \/ LlmCallSpan(h) \/ RememberLLMCall(h)
  \/ TakeLLMCall(h) \/ LlmCallUsageSpan(h) \/ SpanForRecord(h) \/ PassSpan(h)
  \/ SizeExport(h) \/ WriteExport(h) \/ WriteFails(h)
  \/ ExportLands(h) \/ ExportFails(h)

ProxyServe ==
  \/ \E c \in Clients : GiveUp(c) \/ \E n \in 1..MaxBatch : Send(c, n)
  \/ \E h \in handlers : HandlerStep(h)
  \/ LateExportLands

-----------------------------------------------------------------------------
(* Starting and closing, as the daemon does them. *)

ProxyStart ==
  /\ listening = "off" /\ listening' = "up"
  /\ UNCHANGED <<handlers, clientVars, mapVars, storeVars, troubles>>

ProxyClose ==
  /\ listening = "up" /\ listening' = "draining"
  /\ UNCHANGED <<handlers, clientVars, mapVars, storeVars, troubles>>

Over(cs) == \A h \in handlers : h.of \notin cs

\* gRPC is waited for up to a deadline, then stopped together with what it handles.
StopGRPC ==
  LET cs == {c \in Clients : Traces(c)}
  IN  /\ listening = "draining" /\ listening' = "shutdown"
      /\ waiting' = [c \in Clients |-> waiting[c] /\ c \notin cs]
      /\ gaveUp' = gaveUp \union {h.of : h \in {g \in handlers : g.of \in cs}}
      /\ handlers' = Gone(cs)
      /\ UNCHANGED <<clientsUp, said, mapVars, storeVars, troubles>>

\* HTTP is waited for up to another, and the connection to the service then closed.
ShutdownHTTP ==
  /\ listening = "shutdown" /\ listening' = "off"
  /\ UNCHANGED <<handlers, clientVars, mapVars, storeVars, troubles>>

\* The process ends. What it had sent may still be taken.
ProxyVanish ==
  /\ listening' = "off"
  /\ clientsUp' = FALSE
  /\ waiting' = [c \in Clients |-> FALSE]
  /\ gaveUp' = gaveUp \union {h.of : h \in handlers}
  /\ adrift' = adrift \union {h.image : h \in {g \in handlers : g.step = "sent"}}
  /\ handlers' = {}
  /\ messageSpans' = [v \in Conversations |-> None]
  /\ llmCalls' = [v \in Conversations |-> None]
  /\ UNCHANGED <<said, heap, rows, unsure, troubles>>

ProxyNext ==
  \/ ProxyServe \/ ClientsStart \/ ClientsEnd
  \/ ProxyStart \/ ProxyClose \/ StopGRPC \/ ShutdownHTTP \/ ProxyVanish

ProxySpec == ProxyInit /\ [][ProxyNext]_proxyVars

-----------------------------------------------------------------------------
(* Properties. *)
\* The type invariant of the proxy and of what it talks to.
HandlerOK(h) ==
  /\ h.of \in Clients /\ h.last \in 1..said[h.of] /\ h.first \in 1..h.last
  /\ h.at \in h.first..h.last
  /\ h.step \in {"record", "remember", "append", "export", "write", "sent"}
  /\ h.out \subseteq Ids /\ h.span \in Ids \union {None}
  /\ h.gone \in BOOLEAN

SpanOK(span) ==
  span = None \/ (/\ span.parent \in Ids \union {None} /\ span.start \in Int
                  /\ span.counts \subseteq Ids)

ProxyTypeOK ==
  /\ listening \in {"off", "up", "draining", "shutdown"} /\ clientsUp \in BOOLEAN
  /\ said \in [Clients -> Nat] /\ \A c \in Clients : said[c] <= Len(Script[c])
  /\ waiting \in [Clients -> BOOLEAN]
  /\ \A h \in handlers : HandlerOK(h)
  /\ \A id \in Ids : SpanOK(heap[id]) /\ SpanOK(rows[id])
  /\ messageSpans \in [Conversations -> Ids \union {None}]
  /\ llmCalls \in [Conversations -> Ids \union {None}]
  /\ gaveUp \subseteq Clients /\ unsure \subseteq Clients /\ troubles \in 0..MaxTroubles

Together(id, jd) == Event(id).conversation = Event(jd).conversation

\* what is the last of c's first n events of that kind in a conversation, if one there is.
IsLast(what, c, n, conversation, kind) ==
  LET such == {j \in 1..n : /\ Event(<<c, j>>).kind = kind
                            /\ Event(<<c, j>>).conversation = conversation
                            /\ conversation # Anonymous}
  IN  \/ what = None /\ such = {}
      \/ \E j \in such : what = <<c, j>> /\ \A k \in such : k <= j

IsLastBefore(what, id, kind) ==
  IsLast(what, id[1], id[2] - 1, Event(id).conversation, kind)

\* Usage counts arrive on a later event than the call they belong to, from concurrent
\* requests. Whatever their interleaving, a call gets the counts of one event at most,
\* and that event and the message it hangs off are of its own conversation. Unless its
\* client gave a request up, which lets two of its requests overlap, the message is the
\* last before the call, the call does not start before it, and the counts come after it
\* and before any other call of the conversation.
CallsKeepTheirPlace ==
  \A call \in {id \in Ids : heap[id] # None /\ Event(id).kind = "request"} :
    LET span == heap[call]
    IN  /\ \A id, jd \in span.counts : id = jd
        /\ \A id \in span.counts \union ({span.parent} \ {None}) : Together(id, call)
        /\ call[1] \notin gaveUp =>
             /\ IsLastBefore(span.parent, call, "prompt")
             /\ span.parent # None => span.start >= heap[span.parent].start
             /\ \A id \in span.counts : IsLastBefore(call, id, "request")

\* id has the first counts after the call that is the last before them.
FirstAfter(id, call) ==
  /\ IsLastBefore(call, id, "request")
  /\ ~\E jd \in Ids : /\ Event(jd).kind = "usage" /\ jd[2] < id[2]
                      /\ IsLastBefore(call, jd, "request")

Settled(c) == c \notin gaveUp \union unsure /\ Over({c})

\* Once the requests of a client that gave none up are handled and none of their exports
\* failed, the service holds every message, call and span it told of, and each call with
\* the counts that followed it, however its events were cut into requests: the completion
\* without counts did not spend the call, and the re-export did not come before the first.
RowsAreComplete ==
  \A id \in {i \in Ids : i[2] <= said[i[1]] /\ Settled(i[1])} :
    /\ Event(id).kind \in {"prompt", "request", "span"} => rows[id] # None
    /\ Event(id).kind = "usage" =>
         \A call \in Ids : FirstAfter(id, call) => id \in rows[call].counts

=============================================================================
