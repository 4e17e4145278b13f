----------------------------- MODULE Bootstrap ------------------------------
(***************************************************************************)
(* One workload's agynd process from its environment variables to its end: *)
(* config.FromEnv, what New prepares and acquires in turn for each agent   *)
(* CLI and gives back when a step fails, the platform retried on a         *)
(* backoff, init scripts, the MCP servers' readiness, what Run does before *)
(* it serves or holds, and Close. The process may be told to stop or be    *)
(* killed between any two steps, and is started again after it ended on    *)
(* an error.                                                               *)
(*                                                                         *)
(* What is left to do is a sequence of steps, todo. Its head is under way. *)
(***************************************************************************)
EXTENDS Integers, Sequences, FiniteSets, SequencesExt

CONSTANTS
  Environments,  \* what a process may be started with
  Scripts,       \* the init scripts the platform holds, of the two scopes
  Replies,       \* what an MCP server may answer to a probe
  ConnectTries,  \* attempts at the platform before New gives up
  MaxFaults,     \* steps that fail by themselves
  MaxStarts      \* starts of the process that are followed

ASSUME BootConstants ==
  /\ ConnectTries \in Nat \ {0} /\ MaxFaults \in Nat /\ MaxStarts \in Nat
  /\ \A e \in Environments : Len(e.servers) \in Nat
  /\ IsFiniteSet(Scripts)
  /\ \A s \in Scripts : /\ s.scope \in {"environment", "agent"}
                        /\ s.created \in Int /\ s.id \in Int
  /\ \A s, t \in Scripts : s.id = t.id => s = t

VARIABLES
  environment, \* what this workload's processes are started with
  doing,       \* "booting", "serving" (or holding), "closing" or "ended"
  todo,        \* the steps left of booting or of closing
  backoff,     \* between two attempts at the platform
  tries,       \* attempts that failed
  held,        \* how many of each resource the process holds
  built,       \* New has returned a daemon, whose Close is deferred
  listed,      \* the init scripts to run
  running,     \* the next of them has started
  ran,         \* those that ran, and how they ended
  probed,      \* MCP servers that passed their probe, and whether by a result
  cancelled,   \* the process was told to stop
  fate,        \* how it ended: "fatal", "stopped" or "killed"
  auth,        \* codex's credential: "none", "empty", "placeholder" or "login"
  loggedIn,    \* history: somebody logged in
  torn,        \* history: the placeholder's write was cut short
  raced,       \* history: a login came while the placeholder was written
  faults, starts

bootVars == <<environment, doing, todo, backoff, tries, held, built, listed, running, ran,
              probed, cancelled, fate, auth, loggedIn, torn, raced, faults, starts>>

scriptVars == <<listed, running, ran>>
authVars   == <<auth, loggedIn, torn, raced>>

-----------------------------------------------------------------------------
(* Configuration. *)

Malformed == ""

\* Ids, the port and the image's description of its CLI are read in agent mode alone; a
\* holder takes the CLI from the image if it has one.
Rejects(e) ==
  \/ e.mode \notin {"", "agent", "holder"}
  \/ Malformed \in Range(e.servers)
  \/ e.mode # "holder" /\ (~e.ids \/ e.port = "bad" \/ e.cli = "none")

FromEnv(e) ==
  [mode |-> IF e.mode = "" THEN "agent" ELSE e.mode,
   sdk |-> IF e.cli = "none" THEN "holder" ELSE e.cli,
   native |-> e.native, named |-> e.named, servers |-> e.servers,
   port |-> e.mode # "holder" /\ e.port = "ok"]

cfg == FromEnv(environment)

\* The definitions are the names AGENT_MCP_SERVERS itself gives, which leaves resolving
\* two ways to fail: a port without servers, and a name given twice.
ResolveMCPServers(c) ==
  /\ c.servers = <<>> => ~c.port
  /\ Cardinality(Range(c.servers)) = Len(c.servers)

-----------------------------------------------------------------------------
(* The steps of a boot. *)

When(cond, steps) == IF cond THEN steps ELSE <<>>

PrepareAgentCLI(c) ==
  CASE c.sdk = "codex"  -> When(c.native, <<"auth">>)
                           \o When(c.mode = "holder", <<"codexConfig">>)
    [] c.sdk = "claude" -> <<"claudeState">> \o When(c.mode = "holder", <<"claudeSettings">>)
    [] OTHER            -> <<>>

ConnectPlatform == <<"dial", "getAgent", "listSkills", "resolve">>

RunInitScripts(c) ==
  When(c.named, <<"listEnvironment">>) \o When(c.mode = "agent", <<"listAgent">>)
  \o <<"scripts">>

Construct(c) ==
  CASE c.mode = "holder" -> When(c.named, <<"dial">>)
    [] c.mode = "agent" /\ c.sdk = "codex" ->
         ConnectPlatform \o <<"writeSkills", "exporter", "codexConfig">>
         \o RunInitScripts(c) \o <<"cli">>
    [] c.mode = "agent" /\ c.sdk = "agn" /\ ~c.native ->
         ConnectPlatform \o <<"agentConfig", "agnConfig">> \o RunInitScripts(c)
         \o <<"mcpServers", "exporter", "proxyConn", "proxyServer", "proxyHTTP", "cli">>
    [] c.mode = "agent" /\ c.sdk = "claude" ->
         ConnectPlatform \o <<"writeSkills", "claudeSettings">> \o RunInitScripts(c)
         \o <<"exporter", "agentConfig", "cli">>
    [] OTHER -> <<"unsupported">>

Run(c) ==
  <<"shells">> \o When(c.mode = "holder", <<"chdir">> \o When(c.named, RunInitScripts(c)))

Resources == {"gateway", "exporter", "proxyConn", "proxyServer", "proxyHTTP", "cli"}
Opens(step) == IF step = "dial" THEN "gateway" ELSE step

\* MUTANT: every error path gives back the connection to the gateway, and nothing else.
GatewayOnly(c, step) == {"gateway"}

\* What the error path of each step of New gives back.
Releases(c, step) ==
  CASE step \in {"getAgent", "listSkills", "resolve", "writeSkills", "agnConfig",
                 "claudeSettings", "mcpServers", "exporter"} -> {"gateway"}
    [] step \in {"listEnvironment", "listAgent", "scripts"} /\ c.sdk # "codex" -> {"gateway"}
    [] step = "agentConfig" /\ c.sdk = "agn" -> {"gateway"}
    [] step \in {"codexConfig", "listEnvironment", "listAgent", "scripts", "agentConfig",
                 "proxyConn"} -> {"exporter", "gateway"}
    [] step = "proxyServer" -> {"proxyConn", "exporter", "gateway"}
    [] step = "proxyHTTP" -> {"proxyServer", "proxyConn", "exporter", "gateway"}
    [] step = "cli" -> {"proxyHTTP", "proxyServer", "proxyConn", "exporter", "gateway"}
    [] OTHER -> {}

Without(rs) == [r \in Resources |-> IF r \in rs /\ held[r] > 0 THEN held[r] - 1 ELSE held[r]]

\* MUTANT: the proxy is closed while the CLI still runs.
ProxyFirst == <<"proxy", "cli", "exporter", "gateway">>

CloseOrder == <<"cli", "exporter", "proxy", "gateway">>

-----------------------------------------------------------------------------
(* Where a process is, and how its steps go. *)

NothingHeld == [r \in Resources |-> 0]

Boots(e) ==
  /\ IF Rejects(e) THEN doing' = "ended" /\ fate' = "fatal" /\ todo' = <<>>
     ELSE /\ doing' = "booting" /\ fate' = "none"
          /\ todo' = PrepareAgentCLI(FromEnv(e)) \o Construct(FromEnv(e)) \o Run(FromEnv(e))
  /\ backoff' = FALSE /\ tries' = 0 /\ held' = NothingHeld /\ built' = FALSE
  /\ listed' = <<>> /\ running' = FALSE /\ ran' = <<>> /\ probed' = <<>>

BootInit ==
  /\ environment \in Environments
  /\ doing = "ended" /\ fate = "none" /\ todo = <<>> /\ starts = 0
  /\ backoff = FALSE /\ tries = 0 /\ held = NothingHeld /\ built = FALSE
  /\ listed = <<>> /\ running = FALSE /\ ran = <<>> /\ probed = <<>>
  /\ cancelled = FALSE /\ faults = 0
  /\ auth = "none" /\ loggedIn = FALSE /\ torn = FALSE /\ raced = FALSE

\* The process is started, and again when it has ended on an error or was killed.
Start ==
  /\ doing = "ended" /\ fate # "stopped" /\ ~cancelled /\ starts < MaxStarts
  /\ starts' = starts + 1
  /\ Boots(environment)
  /\ UNCHANGED <<environment, cancelled, authVars, faults>>

At(steps) == doing = "booting" /\ ~backoff /\ todo # <<>> /\ Head(todo) \in steps

Ends(how) == doing' = "ended" /\ fate' = how

\* MUTANT: one attempt more than there are.
OneMoreTry == tries = ConnectTries

LastTry == tries + 1 = ConnectTries

\* A step that fails. At the platform it is tried again; another ends New, and with it
\* the process; past New it ends Run, which closes only when it was cancelled.
Fails(canceled) ==
  LET step == Head(todo) IN
  IF step \in Range(ConnectPlatform)
    THEN /\ held' = Without(Releases(cfg, step))
         /\ tries' = tries + 1
         /\ todo' = Construct(cfg) \o Run(cfg)
         /\ IF LastTry THEN Ends("fatal") /\ UNCHANGED backoff
            ELSE backoff' = TRUE /\ UNCHANGED <<doing, fate>>
  ELSE IF ~built
    THEN held' = Without(Releases(cfg, step)) /\ Ends("fatal")
         /\ UNCHANGED <<todo, backoff, tries>>
  ELSE IF canceled
    THEN doing' = "closing" /\ todo' = CloseOrder
         /\ UNCHANGED <<held, backoff, tries, fate>>
  ELSE Ends("fatal") /\ UNCHANGED <<held, todo, backoff, tries>>

Advance == todo' = Tail(todo) /\ UNCHANGED <<doing, backoff, tries, fate>>

Fault == faults < MaxFaults /\ faults' = faults + 1

-----------------------------------------------------------------------------
(* Steps of the process itself. *)

Writes == {"codexConfig", "claudeState", "claudeSettings", "writeSkills", "agentConfig",
           "agnConfig", "chdir"}
Acquires == {"dial", "exporter", "proxyConn", "proxyServer", "proxyHTTP", "cli"}

Local ==
  /\ At(Writes \union {"resolve"}) /\ (At({"resolve"}) => ResolveMCPServers(cfg))
  /\ tries' = (IF At({"resolve"}) THEN 0 ELSE tries)
  /\ todo' = Tail(todo) /\ UNCHANGED <<doing, backoff, fate>>
  /\ UNCHANGED <<environment, held, built, scriptVars, probed, cancelled, authVars, faults,
                 starts>>

\* The proxy is not started once the process was told to stop. What the SDKs do then is
\* not known: a CLI may start or not.
Acquire ==
  /\ At(Acquires) /\ ~(At({"dial", "proxyConn"}) /\ cancelled)
  /\ held' = [held EXCEPT ![Opens(Head(todo))] = @ + 1]
  /\ Advance
  /\ UNCHANGED <<environment, built, scriptVars, probed, cancelled, authVars, faults, starts>>

StepFails ==
  /\ \/ At(Writes \union Acquires) /\ Fault
     \/ At({"cli", "proxyConn"}) /\ cancelled /\ UNCHANGED faults
     \/ At({"unsupported"}) /\ UNCHANGED faults
     \/ At({"resolve"}) /\ ~ResolveMCPServers(cfg) /\ UNCHANGED faults
  /\ Fails(FALSE)
  /\ UNCHANGED <<environment, built, scriptVars, probed, cancelled, authVars, starts>>

\* The backoff passes.
Retry ==
  /\ doing = "booting" /\ backoff /\ ~cancelled
  /\ backoff' = FALSE
  /\ UNCHANGED <<environment, doing, todo, tries, held, built, scriptVars, probed, cancelled,
                 fate, authVars, faults, starts>>

\* No attempt begins once the process was told to stop.
StopsConnecting ==
  /\ doing = "booting" /\ (backoff \/ At({"dial"})) /\ cancelled
  /\ Ends("fatal")
  /\ UNCHANGED <<environment, todo, backoff, tries, held, built, scriptVars, probed,
                 cancelled, authVars, faults, starts>>

\* New has returned; the shell server starts or does not, which nothing waits for long.
StartShellServer ==
  /\ At({"shells"})
  /\ built' = TRUE
  /\ Advance
  /\ UNCHANGED <<environment, held, scriptVars, probed, cancelled, authVars, faults, starts>>

Serve ==
  /\ doing = "booting" /\ todo = <<>>
  /\ doing' = "serving"
  /\ UNCHANGED <<environment, todo, backoff, tries, held, built, scriptVars, probed,
                 cancelled, fate, authVars, faults, starts>>

\* Run returns because its context has ended.
RunReturns ==
  /\ doing = "serving" /\ cancelled
  /\ doing' = "closing" /\ todo' = CloseOrder
  /\ UNCHANGED <<environment, backoff, tries, held, built, scriptVars, probed, cancelled,
                 fate, authVars, faults, starts>>

\* A codex turn that fails for good ends Run, and the deferred Close is skipped.
TurnFails ==
  /\ doing = "serving" /\ cfg.sdk = "codex" /\ cfg.mode = "agent"
  /\ Fault /\ Ends("fatal")
  /\ UNCHANGED <<environment, todo, backoff, tries, held, built, scriptVars, probed,
                 cancelled, authVars, starts>>

Closes(step) ==
  IF step = "proxy" THEN {"proxyConn", "proxyServer", "proxyHTTP"} ELSE {step}

Close ==
  /\ doing = "closing"
  /\ IF todo = <<>> THEN Ends("stopped") /\ UNCHANGED <<todo, held>>
     ELSE /\ held' = Without(Closes(Head(todo)))
          /\ todo' = Tail(todo) /\ UNCHANGED <<doing, fate>>
  /\ UNCHANGED <<environment, backoff, tries, built, scriptVars, probed, cancelled, authVars,
                 faults, starts>>

-----------------------------------------------------------------------------
(* Calls of the platform. They carry the context and no deadline. *)

Earlier(s, t) == s.created < t.created \/ (s.created = t.created /\ s.id < t.id)

\* The scripts of a scope in order: the i-th has i - 1 before it.
Listed(scope) ==
  LET all == {s \in Scripts : s.scope = scope}
      Before(s) == {t \in all : Earlier(t, s)}
  IN  [i \in 1..Cardinality(all) |-> CHOOSE s \in all : Cardinality(Before(s)) = i - 1]

Calls == {"getAgent", "listSkills", "listEnvironment", "listAgent"}

Answered ==
  /\ At(Calls) /\ ~cancelled
  /\ listed' = listed \o (CASE At({"listEnvironment"}) -> Listed("environment")
                            [] At({"listAgent"}) -> Listed("agent")
                            [] OTHER -> <<>>)
  /\ Advance
  /\ UNCHANGED <<environment, held, built, running, ran, probed, cancelled, authVars, faults,
                 starts>>

\* An error, an agent or a script that is not what it should be.
Refused ==
  /\ At(Calls) /\ Fault
  /\ Fails(FALSE)
  /\ UNCHANGED <<environment, built, scriptVars, probed, cancelled, authVars, starts>>

\* MUTANT: the agent is asked for with a context that does not end.
NotAbandoned ==
  /\ At(Calls \ {"getAgent"}) /\ cancelled
  /\ Fails(FALSE)
  /\ UNCHANGED <<environment, built, scriptVars, probed, cancelled, authVars, faults, starts>>

\* The error of a call that was cancelled is a status, not the context's own.
Abandoned ==
  /\ At(Calls) /\ cancelled
  /\ Fails(FALSE)
  /\ UNCHANGED <<environment, built, scriptVars, probed, cancelled, authVars, faults, starts>>

-----------------------------------------------------------------------------
(* Init scripts. *)

StartScript ==
  /\ At({"scripts"}) /\ ~running /\ Len(ran) < Len(listed) /\ ~cancelled
  /\ running' = TRUE
  /\ UNCHANGED <<environment, doing, todo, backoff, tries, held, built, listed, ran, probed,
                 cancelled, fate, authVars, faults, starts>>

ScriptStartFails ==
  /\ At({"scripts"}) /\ ~running /\ Len(ran) < Len(listed)
  /\ IF cancelled THEN UNCHANGED faults ELSE Fault
  /\ Fails(cancelled)
  /\ UNCHANGED <<environment, built, scriptVars, probed, cancelled, authVars, starts>>

Ran(how) ==
  /\ running' = FALSE
  /\ ran' = Append(ran, [script |-> listed[Len(ran) + 1], how |-> how])
  /\ UNCHANGED <<environment, doing, todo, backoff, tries, held, built, listed, probed,
                 cancelled, fate, authVars, faults, starts>>

\* Whatever its exit code.
ScriptEnds == At({"scripts"}) /\ running /\ Ran("ended")

\* Being told to stop kills it: an exit code like any other, ...
ScriptKilled == At({"scripts"}) /\ running /\ cancelled /\ Ran("killed")

\* ... unless it had just ended well, when the context's error is returned.
ScriptCut ==
  /\ At({"scripts"}) /\ running /\ cancelled
  /\ Fails(TRUE)
  /\ UNCHANGED <<environment, built, scriptVars, probed, cancelled, authVars, faults, starts>>

ScriptsDone ==
  /\ At({"scripts"}) /\ Len(ran) = Len(listed)
  /\ Advance
  /\ UNCHANGED <<environment, held, built, scriptVars, probed, cancelled, authVars, faults,
                 starts>>

-----------------------------------------------------------------------------
(* The MCP servers' readiness: each is probed until it answers, within one *)
(* deadline for all, looked at after a probe that failed.                  *)

\* MUTANT: any answer will do.
AnySuccess(reply) == reply.status = "success"

\* A stream is good at its first good event, a document when it was read to its end.
Accepts(reply) ==
  /\ reply.status = "success"
  /\ IF reply.stream THEN "result" \in Range(reply.payloads)
     ELSE ~reply.cut /\ reply.payloads = <<"result">>

ProbeMCPService(reply) ==
  /\ At({"mcpServers"}) /\ Len(probed) < Len(cfg.servers) /\ ~cancelled
  /\ Accepts(reply)
  /\ probed' = Append(probed, "result" \in Range(reply.payloads))
  /\ UNCHANGED <<environment, doing, todo, backoff, tries, held, built, scriptVars, cancelled,
                 fate, authVars, faults, starts>>

WaitEnds ==
  /\ At({"mcpServers"}) /\ Len(probed) < Len(cfg.servers)
  /\ Fails(FALSE)
  /\ UNCHANGED <<environment, built, scriptVars, probed, cancelled, authVars, faults, starts>>

ServersReady ==
  /\ At({"mcpServers"}) /\ Len(probed) = Len(cfg.servers)
  /\ Advance
  /\ UNCHANGED <<environment, held, built, scriptVars, probed, cancelled, authVars, faults,
                 starts>>

-----------------------------------------------------------------------------
(* codex's placeholder credential. *)

\* MUTANT: the placeholder is written whatever is there.
WriteAnyway ==
  /\ At({"auth"})
  /\ todo' = <<"authCreate", "authWrite">> \o Tail(todo)
  /\ UNCHANGED <<environment, doing, backoff, tries, held, built, scriptVars, probed,
                 cancelled, fate, authVars, faults, starts>>

\* A file that exists is left alone, whatever it holds.
StatCodexAuth ==
  /\ At({"auth"})
  /\ todo' = (IF auth = "none" THEN <<"authCreate", "authWrite">> ELSE <<>>) \o Tail(todo)
  /\ UNCHANGED <<environment, doing, backoff, tries, held, built, scriptVars, probed,
                 cancelled, fate, authVars, faults, starts>>

\* os.WriteFile empties the file, or makes it, before it writes.
WriteCodexAuth ==
  /\ At({"authCreate", "authWrite"})
  /\ auth' = IF At({"authCreate"}) THEN "empty" ELSE "placeholder"
  /\ Advance
  /\ UNCHANGED <<environment, held, built, scriptVars, probed, cancelled, loggedIn, torn,
                 raced, faults, starts>>

WriteCodexAuthFails ==
  /\ At({"auth", "authCreate", "authWrite"}) /\ Fault
  /\ torn' = (torn \/ At({"authWrite"}))
  /\ Fails(FALSE)
  /\ UNCHANGED <<environment, built, scriptVars, probed, cancelled, auth, loggedIn, raced,
                 starts>>

\* Somebody logs in with the CLI itself.
Login ==
  /\ doing # "ended" /\ cfg.sdk = "codex" /\ cfg.native /\ ~loggedIn
  /\ auth' = "login" /\ loggedIn' = TRUE
  /\ raced' = At({"authCreate", "authWrite"})
  /\ UNCHANGED <<environment, doing, todo, backoff, tries, held, built, scriptVars, probed,
                 cancelled, fate, torn, faults, starts>>

-----------------------------------------------------------------------------
(* From outside. *)

Terminate ==
  /\ doing # "ended" /\ ~cancelled
  /\ cancelled' = TRUE
  /\ UNCHANGED <<environment, doing, todo, backoff, tries, held, built, scriptVars, probed,
                 fate, authVars, faults, starts>>

Kill ==
  /\ doing # "ended"
  /\ Ends("killed")
  /\ torn' = (torn \/ At({"authWrite"}))
  /\ UNCHANGED <<environment, todo, backoff, tries, held, built, scriptVars, probed,
                 cancelled, auth, loggedIn, raced, faults, starts>>

\* What the process does by itself, within its own deadlines.
Own ==
  \/ Local \/ Acquire \/ StepFails \/ Retry \/ StopsConnecting
  \/ StartShellServer \/ Serve \/ RunReturns \/ Close
  \/ Abandoned \/ StartScript \/ ScriptStartFails \/ ScriptKilled \/ ScriptCut
  \/ ScriptsDone \/ WaitEnds \/ ServersReady
  \/ StatCodexAuth \/ WriteCodexAuth \/ WriteCodexAuthFails

Outside ==
  \/ Start \/ TurnFails \/ Answered \/ Refused \/ ScriptEnds
  \/ (\E reply \in Replies : ProbeMCPService(reply))
  \/ Login \/ Terminate \/ Kill

BootNext == Own \/ Outside

BootSpec == BootInit /\ [][BootNext]_bootVars

-----------------------------------------------------------------------------
(* Properties. *)

\* The type invariant: among its bounds, no resource is opened twice, and the platform is
\* not tried more often than there are delays and one.
BootTypeOK ==
  /\ environment \in Environments
  /\ doing \in {"booting", "serving", "closing", "ended"}
  /\ fate \in {"none", "fatal", "stopped", "killed"}
  /\ held \in [Resources -> 0..1]
  /\ tries \in 0..ConnectTries /\ backoff \in BOOLEAN /\ built \in BOOLEAN
  /\ Len(ran) <= Len(listed) /\ Range(listed) \subseteq Scripts
  /\ Len(probed) <= Len(cfg.servers) /\ running \in BOOLEAN /\ cancelled \in BOOLEAN
  /\ auth \in {"none", "empty", "placeholder", "login"}
  /\ loggedIn \in BOOLEAN /\ torn \in BOOLEAN /\ raced \in BOOLEAN
  /\ faults \in 0..MaxFaults /\ starts \in 0..MaxStarts

\* Each constructor acquires connections, listeners and a child in turn, and each failure
\* has its own list of what to give back. Between two attempts at the platform, when New
\* has failed at any step, and after Close, nothing is left of what was acquired.
NothingLeft ==
  \/ backoff
  \/ doing = "ended" /\ (fate = "stopped" \/ (fate = "fatal" /\ ~built))
  => held = NothingHeld

Scopes(c) == (IF c.mode = "agent" THEN {"agent"} ELSE {}) \union
             (IF c.named THEN {"environment"} ELSE {})

RunsBefore(s, t) ==
  \/ s.scope = "environment" /\ t.scope = "agent"
  \/ s.scope = t.scope /\ Earlier(s, t)

\* Every init script of its scopes ran to an end of its own in this life, the
\* environment's before the agent's and each in creation order; and for agn every MCP
\* server gave a result.
Prepared ==
  /\ {ran[i].script : i \in DOMAIN ran} = {s \in Scripts : s.scope \in Scopes(cfg)}
  /\ \A i, j \in DOMAIN ran : i < j => RunsBefore(ran[i].script, ran[j].script)
  /\ \A i \in DOMAIN ran : ran[i].how = "ended"
  /\ cfg.sdk = "agn" /\ cfg.mode = "agent" =>
       Len(probed) = Len(cfg.servers) /\ FALSE \notin Range(probed)

\* However often the platform was tried and the process started, a CLI that runs, or a
\* holder that holds, without having been told to stop, finds its workload prepared.
PreparedBeforeServing ==
  (held["cli"] = 1 \/ doing = "serving") /\ ~cancelled => Prepared

AuthSteps == {"auth", "authCreate", "authWrite"}

\* Over any number of starts, what a native codex finds as its credential is the login
\* somebody made, if one was, and otherwise the whole placeholder; unless the write of the
\* placeholder was cut short once, or a login came in the middle of it.
CredentialStands ==
  /\ doing # "ended" /\ cfg.sdk = "codex" /\ cfg.native
  /\ Range(todo) \cap AuthSteps = {} /\ ~torn /\ ~raced
  => auth = IF loggedIn THEN "login" ELSE "placeholder"

=============================================================================
