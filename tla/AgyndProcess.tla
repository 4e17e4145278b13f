---------------------------- MODULE AgyndProcess ----------------------------
(***************************************************************************)
(* The agynd process (Bootstrap) with the tracing proxy it starts for agn  *)
(* (TracingProxy): the proxy listens once both its listeners are made,     *)
(* its clients live as long as the CLI does, Close waits for the proxy to  *)
(* drain between the exporter and the gateway, and the process takes the   *)
(* proxy's memory with it when it ends.                                    *)
(***************************************************************************)
EXTENDS Bootstrap, TracingProxy

vars == <<bootVars, proxyVars>>

Init == BootInit /\ ProxyInit

-----------------------------------------------------------------------------

\* What a step of the process does to the proxy.
ProxyFollows ==
  IF doing = "ended" THEN UNCHANGED proxyVars
  ELSE IF doing' = "ended" THEN ProxyVanish
  ELSE IF held'["proxyHTTP"] > held["proxyHTTP"] THEN ProxyStart
  ELSE IF cfg.sdk = "agn" /\ held'["cli"] > held["cli"] THEN ClientsStart
  ELSE IF cfg.sdk = "agn" /\ held'["cli"] < held["cli"] THEN ClientsEnd
  ELSE UNCHANGED proxyVars

ClosesProxy == doing = "closing" /\ todo # <<>> /\ Head(todo) = "proxy"

ProxyCloses ==
  /\ ClosesProxy
  /\ ProxyClose \/ StopGRPC \/ ShutdownHTTP
  /\ UNCHANGED bootVars

OwnStep ==
  \/ Own /\ (ClosesProxy => listening = "off") /\ ProxyFollows
  \/ ProxyCloses

\* The lives after the one whose traffic was followed are not.
OutsideStep ==
  /\ Outside /\ (starts' # starts => \A c \in Clients : said[c] = 0)
  /\ ProxyFollows

\* A proxy is new in every life, so the traffic of the first is followed, after a boot
\* without a fault.
Traffic ==
  /\ starts = 1 /\ faults = 0
  /\ ProxyServe
  /\ UNCHANGED bootVars

Next == OwnStep \/ OutsideStep \/ Traffic

\* The process goes on by itself. Nothing is assumed of the platform, of a script or of
\* the service, nor of whoever may tell the process to stop.
Spec == Init /\ [][Next]_vars /\ WF_vars(OwnStep)

-----------------------------------------------------------------------------
(* Properties. *)

\* The type invariant of the two.
TypeOK == BootTypeOK /\ ProxyTypeOK

\* agn is handed the proxy's address when it starts. For as long as it runs there is a
\* proxy that listens, and for as long as the proxy handles what it took, through both of
\* its drains, the connection it exports over is open.
ProxyOutlivesCLI ==
  /\ clientsUp => listening = "up"
  /\ listening # "off" => held["proxyConn"] = 1

\* The calls of a boot have no deadline, and a script may run for ever. Told to stop, the
\* process ends all the same, wherever it is, the proxy's drains included.
StopsWhenTold == cancelled ~> doing = "ended"

=============================================================================
