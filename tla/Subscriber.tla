----------------------------- MODULE Subscriber -----------------------------
(***************************************************************************)
(* The notification stream: Subscriber.Run opening it, receiving from it,  *)
(* waiting out its failures and reopening it, Resubscribe ending an        *)
(* attempt from another goroutine, and the wake channel it signals.  The   *)
(* notifications service is outside src/: a stream the client has opened   *)
(* is registered there a moment later, carries the announcements of the    *)
(* items accepted from then on, and can be gone on the far side long       *)
(* before Recv says so.                                                    *)
(***************************************************************************)
EXTENDS Integers

CONSTANTS
  NumItems,     \* bound: items the inbox ever accepts
  Announced,    \* items whose announcement passes the subscriber's filter
  MaxBreaks     \* bound: times the far side drops a stream or refuses one

VARIABLES
  sub,         \* where Run's goroutine is
  reopened,    \* a stream has been opened by this process before
  dropped,     \* the attempt's context is cancelled
  subBackoff,  \* seconds the next failure waits
  link,        \* the stream as the service sees it
  news,        \* announcements on the stream, not received yet
  breaks,      \* budget
  wake         \* s.wake holds a token

subVars == <<sub, reopened, dropped, subBackoff, link, news, breaks>>

SubPhases == {"off", "top", "dial", "recv", "wait"}
Links == {"none", "opening", "open", "dead"}
SubBackoffs == {1, 2, 4, 8, 16, 30}

SubInit ==
  /\ sub = "off" /\ reopened = FALSE /\ dropped = FALSE /\ subBackoff = 1
  /\ link = "none" /\ news = {} /\ breaks = 0

\* Run begins: started is closed at once, before any stream is open.
SubStart ==
  /\ sub = "off"
  /\ sub' = "top"
  /\ UNCHANGED <<reopened, dropped, subBackoff, link, news, breaks>>

\* The end of the process; the service forgets its stream.
SubGone ==
  /\ sub' = "off" /\ reopened' = FALSE /\ dropped' = FALSE /\ subBackoff' = 1
  /\ link' = "none" /\ news' = {}
  /\ UNCHANGED breaks

NextSubBackoff(b) == IF 2 * b > 30 THEN 30 ELSE 2 * b

Break == breaks < MaxBreaks /\ breaks' = breaks + 1

-----------------------------------------------------------------------------
(* Run's goroutine. *)

\* A context for the attempt, which Resubscribe cancels from now on.
NewAttempt ==
  /\ sub = "top"
  /\ sub' = "dial"
  /\ dropped' = FALSE
  /\ UNCHANGED <<reopened, subBackoff, link, news, breaks, wake>>

\* MUTANT: reopening a stream asks for nothing.
SubscribedSilently ==
  /\ sub = "dial"
  /\ sub' = "recv"
  /\ reopened' = TRUE /\ subBackoff' = 1
  /\ link' = "opening" /\ news' = {}
  /\ UNCHANGED <<dropped, breaks, wake>>

\* Subscribe returns a stream.  A reopened one asks for an inbox read.
Subscribed ==
  /\ sub = "dial"
  /\ sub' = "recv"
  /\ reopened' = TRUE /\ subBackoff' = 1
  /\ link' = "opening" /\ news' = {}
  /\ wake' = (wake \/ reopened)
  /\ UNCHANGED <<dropped, breaks>>

SubscribeFails ==
  /\ sub = "dial"
  /\ IF dropped THEN UNCHANGED breaks ELSE Break
  /\ sub' = "wait"
  /\ UNCHANGED <<reopened, dropped, subBackoff, link, news, wake>>

RecvCreated(i) ==
  /\ sub = "recv" /\ i \in news
  /\ news' = news \ {i}
  /\ wake' = TRUE
  /\ UNCHANGED <<sub, reopened, dropped, subBackoff, link, breaks>>

\* Recv fails because the attempt was dropped: reopen at once.
RecvDropped ==
  /\ sub = "recv" /\ dropped
  /\ sub' = "top"
  /\ link' = "none" /\ news' = {}
  /\ UNCHANGED <<reopened, dropped, subBackoff, breaks, wake>>

\* Recv fails on its own.
RecvFails ==
  /\ sub = "recv" /\ ~dropped /\ link = "dead"
  /\ sub' = "wait"
  /\ link' = "none" /\ news' = {}
  /\ UNCHANGED <<reopened, dropped, subBackoff, breaks, wake>>

\* MUTANT: a wait cut short starts the backoff over at nothing.
WaitOverToZero ==
  /\ sub = "wait"
  /\ sub' = "top"
  /\ \/ subBackoff' = NextSubBackoff(subBackoff)
     \/ dropped /\ subBackoff' = 0
  /\ UNCHANGED <<reopened, dropped, link, news, breaks, wake>>

\* waitOut: the backoff passes, or Resubscribe cuts it short and the next
\* failure starts over.
WaitOver ==
  /\ sub = "wait"
  /\ sub' = "top"
  /\ \/ subBackoff' = NextSubBackoff(subBackoff)
     \/ dropped /\ subBackoff' = 1
  /\ UNCHANGED <<reopened, dropped, link, news, breaks, wake>>

SubscriberStep ==
  \/ NewAttempt \/ Subscribed \/ SubscribeFails
  \/ (\E i \in 1..NumItems : RecvCreated(i)) \/ RecvDropped \/ RecvFails
  \/ WaitOver

-----------------------------------------------------------------------------
(* The notifications service. *)

Register ==
  /\ link = "opening"
  /\ link' = "open"
  /\ UNCHANGED <<sub, reopened, dropped, subBackoff, news, breaks, wake>>

LinkBreaks ==
  /\ link \in {"opening", "open"}
  /\ Break
  /\ link' = "dead"
  /\ UNCHANGED <<sub, reopened, dropped, subBackoff, news, wake>>

Service == Register \/ LinkBreaks

\* What accepting item i puts on the stream.
Announce(i) ==
  news' = IF link = "open" /\ i \in Announced THEN news \union {i} ELSE news

\* What a freeze of the workload does to the stream: what had been announced
\* may or may not have reached the process.
FreezeLink ==
  /\ link' = IF link \in {"opening", "open"} THEN "dead" ELSE link
  /\ news' \in {news, {}}

-----------------------------------------------------------------------------

\* The types of the stream's variables; there is something on a stream only
\* while one is there.
SubTypeOK ==
  /\ sub \in SubPhases /\ link \in Links
  /\ reopened \in BOOLEAN /\ dropped \in BOOLEAN
  /\ subBackoff \in SubBackoffs
  /\ news \subseteq Announced /\ (link = "none" => news = {})
  /\ breaks \in 0..MaxBreaks
=============================================================================
