--------------------------- MODULE MCAgyndProcess ---------------------------
(* Constants of the instance of AgyndProcess that TLC checks. *)
EXTENDS AgyndProcess

Environment(mode, cli, native, named, servers, port) ==
  [mode |-> mode, ids |-> TRUE, cli |-> cli, native |-> native, named |-> named,
   servers |-> servers, port |-> port]

\* Each CLI as an agent and held, and each way to be turned down.
MCEnvironments ==
  {Environment("", "codex", TRUE, TRUE, <<"m">>, "none"),
   Environment("agent", "agn", FALSE, TRUE, <<"m", "n">>, "none"),
   Environment("agent", "claude", FALSE, FALSE, <<>>, "none"),
   Environment("holder", "codex", TRUE, TRUE, <<>>, "bad"),
   Environment("holder", "claude", FALSE, TRUE, <<"m">>, "none"),
   Environment("holder", "none", FALSE, FALSE, <<>>, "none"),
   Environment("agent", "agn", TRUE, FALSE, <<>>, "none"),
   Environment("agent", "agn", FALSE, FALSE, <<"m", "m">>, "none"),
   Environment("agent", "codex", FALSE, FALSE, <<>>, "ok"),
   Environment("agent", "claude", FALSE, FALSE, <<"m", Malformed>>, "none"),
   Environment("agent", "other", FALSE, FALSE, <<>>, "none")}

InitScript(scope, created, id) == [scope |-> scope, created |-> created, id |-> id]

MCScripts == {InitScript("environment", 1, 2), InitScript("environment", 1, 1),
              InitScript("agent", 1, 0), InitScript("agent", 0, 3)}

Answer(status, stream, payloads, cut) ==
  [status |-> status, stream |-> stream, payloads |-> payloads, cut |-> cut]

MCReplies ==
  {Answer("success", FALSE, <<"result">>, FALSE),
   Answer("success", FALSE, <<"result">>, TRUE),
   Answer("success", TRUE, <<"other", "result">>, TRUE),
   Answer("success", TRUE, <<"error">>, FALSE),
   Answer("success", FALSE, <<"empty">>, FALSE),
   Answer("failure", FALSE, <<"result">>, FALSE)}

Said(kind, conversation, duration) ==
  [kind |-> kind, conversation |-> conversation, duration |-> duration]

\* A turn of one conversation with a request of another in the middle of it, and a span.
MCScript ==
  [c \in Clients |->
     IF c = "events"
     THEN <<Said("prompt", "x", 0), Said("request", "x", 2), Said("request", "y", 0),
            Said("completed", "x", 0), Said("usage", "x", 0)>>
     ELSE <<Said("span", Anonymous, 0)>>]

=============================================================================
