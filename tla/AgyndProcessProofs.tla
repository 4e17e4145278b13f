------------------------- MODULE AgyndProcessProofs -------------------------
(***************************************************************************)
(* What TLAPS proves of Bootstrap and of AgyndProcess.                     *)
(*                                                                         *)
(* Of the boot: New gives back what it acquired, at whatever step it       *)
(* fails; a CLI finds its workload prepared; and codex finds the login     *)
(* somebody made or the placeholder. For any environment, script and       *)
(* answer, and any number of attempts, faults and starts.                  *)
(*                                                                         *)
(* Of the process: whatever it does, to the proxy it is a step of the      *)
(* proxy's own specification and to the boot a step of the boot's, so that *)
(* what holds of each by itself holds in the process, through the proxy's  *)
(* start, its drains and its end.                                          *)
(***************************************************************************)
EXTENDS AgyndProcess, TracingProxyProofs, FiniteSetTheorems

-----------------------------------------------------------------------------
(* The steps of a boot have an order, in which each plan lists its own. *)

Steps ==
  {"auth", "authCreate", "authWrite", "claudeState", "codexConfig", "claudeSettings", "dial",
   "unsupported", "getAgent", "listSkills", "resolve", "writeSkills", "agentConfig",
   "agnConfig", "exporter", "listEnvironment", "listAgent", "scripts", "mcpServers",
   "proxyConn", "proxyServer", "proxyHTTP", "cli", "shells", "chdir"}

Holder(c) == c.mode = "holder"

\* What RunInitScripts asks and runs.
ScriptChores(c) ==
  {"scripts"} \union (IF c.named THEN {"listEnvironment"} ELSE {})
              \union (IF c.mode = "agent" THEN {"listAgent"} ELSE {})

Rank(c, step) ==
  CASE step = "auth" -> 1
    [] step = "authCreate" -> 2
    [] step = "authWrite" -> 3
    [] step = "claudeState" -> 4
    [] step = "codexConfig" -> IF Holder(c) THEN 5 ELSE 17
    [] step = "claudeSettings" -> IF Holder(c) THEN 5 ELSE 17
    [] step = "dial" -> 10
    [] step = "unsupported" -> 10
    [] step = "getAgent" -> 11
    [] step = "listSkills" -> 12
    [] step = "resolve" -> 13
    [] step = "writeSkills" -> 15
    [] step = "agentConfig" -> IF c.sdk = "agn" THEN 15 ELSE 35
    [] step = "agnConfig" -> 16
    [] step = "exporter" -> IF c.sdk = "codex" THEN 16 ELSE 31
    [] step = "listEnvironment" -> IF Holder(c) THEN 60 ELSE 20
    [] step = "listAgent" -> 21
    [] step = "scripts" -> IF Holder(c) THEN 62 ELSE 22
    [] step = "mcpServers" -> 30
    [] step = "proxyConn" -> 32
    [] step = "proxyServer" -> 33
    [] step = "proxyHTTP" -> 34
    [] step = "cli" -> 40
    [] step = "shells" -> 50
    [] step = "chdir" -> 51
    [] OTHER -> 0

Increasing(c, s) ==
  \A i, j \in DOMAIN s : i < j => Rank(c, s[i]) < Rank(c, s[j])

LEMMA SeqRange ==
  ASSUME NEW s \in Seq(Steps)
  PROVE  /\ s = <<>> => Range(s) = {}
         /\ s # <<>> => /\ Tail(s) \in Seq(Steps)
                        /\ Range(s) = {Head(s)} \union Range(Tail(s))
<1>1. s = <<>> => Range(s) = {}
  BY DEF Range
<1>2. ASSUME s # <<>>
      PROVE  Tail(s) \in Seq(Steps) /\ Range(s) = {Head(s)} \union Range(Tail(s))
  <2>1. /\ DOMAIN s = 1..Len(s) /\ Len(s) \in Nat \ {0}
        /\ DOMAIN Tail(s) = 1..(Len(s) - 1) /\ Tail(s) \in Seq(Steps)
        /\ Head(s) = s[1] /\ \A i \in 1..(Len(s) - 1) : Tail(s)[i] = s[i + 1]
    BY <1>2
  <2>2. Range(Tail(s)) \subseteq Range(s) /\ Head(s) \in Range(s)
    BY <2>1 DEF Range
  <2>3. ASSUME NEW i \in 1..Len(s) PROVE s[i] \in {Head(s)} \union Range(Tail(s))
    <3>1. CASE i = 1
      BY <2>1, <3>1
    <3>2. CASE i # 1
      <4>1. i - 1 \in 1..(Len(s) - 1) /\ Tail(s)[i - 1] = s[i]
        BY <2>1, <3>2
      <4>2. QED
        BY <2>1, <4>1 DEF Range
    <3>3. QED
      BY <3>1, <3>2
  <2>4. QED
    BY <2>1, <2>2, <2>3 DEF Range
<1>3. QED
  BY <1>1, <1>2

LEMMA TailIncreases ==
  ASSUME NEW c, NEW s \in Seq(Steps), s # <<>>, Increasing(c, s)
  PROVE  /\ Increasing(c, Tail(s))
         /\ \A x \in Range(Tail(s)) : Rank(c, Head(s)) < Rank(c, x)
<1>1. /\ DOMAIN s = 1..Len(s) /\ Len(s) \in Nat \ {0}
      /\ DOMAIN Tail(s) = 1..(Len(s) - 1)
      /\ Head(s) = s[1] /\ \A i \in 1..(Len(s) - 1) : Tail(s)[i] = s[i + 1]
  OBVIOUS
<1>2. Increasing(c, Tail(s))
  <2> SUFFICES ASSUME NEW i \in 1..(Len(s) - 1), NEW j \in 1..(Len(s) - 1), i < j
               PROVE  Rank(c, Tail(s)[i]) < Rank(c, Tail(s)[j])
    BY <1>1 DEF Increasing
  <2>1. i + 1 \in 1..Len(s) /\ j + 1 \in 1..Len(s) /\ i + 1 < j + 1
    BY <1>1
  <2>2. QED
    BY <1>1, <2>1 DEF Increasing
<1>3. ASSUME NEW x \in Range(Tail(s)) PROVE Rank(c, Head(s)) < Rank(c, x)
  <2>1. PICK i \in 1..(Len(s) - 1) : x = s[i + 1]
    BY <1>1 DEF Range
  <2>2. i + 1 \in 1..Len(s) /\ 1 \in 1..Len(s) /\ 1 < i + 1
    BY <1>1
  <2>3. QED
    BY <1>1, <2>1, <2>2 DEF Increasing
<1>4. QED
  BY <1>2, <1>3

LEMMA ConcatIncreases ==
  ASSUME NEW c, NEW s \in Seq(Steps), NEW t \in Seq(Steps),
         Increasing(c, s), Increasing(c, t),
         \A x \in Range(s), y \in Range(t) : Rank(c, x) < Rank(c, y)
  PROVE  /\ s \o t \in Seq(Steps) /\ Increasing(c, s \o t)
         /\ Range(s \o t) = Range(s) \union Range(t)
<1> DEFINE m == Len(s)
<1>1. /\ m \in Nat /\ Len(t) \in Nat
      /\ DOMAIN s = 1..m /\ DOMAIN t = 1..Len(t)
      /\ s \o t \in Seq(Steps)
      /\ DOMAIN (s \o t) = 1..(m + Len(t))
      /\ \A i \in 1..m : (s \o t)[i] = s[i]
      /\ \A i \in (m + 1)..(m + Len(t)) : (s \o t)[i] = t[i - m]
  OBVIOUS
<1> HIDE DEF m
<1>2. ASSUME NEW i \in 1..(m + Len(t)) PROVE \/ i \in 1..m
                                             \/ i \in (m + 1)..(m + Len(t)) /\ i - m \in 1..Len(t)
  BY <1>1
<1>3. Increasing(c, s \o t)
  <2> SUFFICES ASSUME NEW i \in 1..(m + Len(t)), NEW j \in 1..(m + Len(t)), i < j
               PROVE  Rank(c, (s \o t)[i]) < Rank(c, (s \o t)[j])
    BY <1>1 DEF Increasing
  <2>1. CASE j \in 1..m
    <3>1. i \in 1..m
      BY <1>1, <2>1
    <3>2. QED
      BY <1>1, <2>1, <3>1 DEF Increasing
  <2>2. CASE i \in 1..m /\ j - m \in 1..Len(t) /\ j \in (m + 1)..(m + Len(t))
    <3>1. s[i] \in Range(s) /\ t[j - m] \in Range(t)
      BY <1>1, <2>2 DEF Range
    <3>2. QED
      BY <1>1, <2>2, <3>1
  <2>3. CASE i \in (m + 1)..(m + Len(t)) /\ j \in (m + 1)..(m + Len(t))
    <3>1. i - m \in 1..Len(t) /\ j - m \in 1..Len(t) /\ i - m < j - m
      BY <1>1, <2>3
    <3>2. QED
      BY <1>1, <2>3, <3>1 DEF Increasing
  <2>4. QED
    BY <1>2, <2>1, <2>2, <2>3
<1>4. Range(s \o t) \subseteq Range(s) \union Range(t)
  BY <1>1, <1>2 DEF Range
<1>5. Range(s) \subseteq Range(s \o t)
  <2>1. \A i \in 1..m : i \in 1..(m + Len(t))
    BY <1>1
  <2>2. QED
    BY <1>1, <2>1 DEF Range
<1>6. Range(t) \subseteq Range(s \o t)
  <2>1. ASSUME NEW i \in 1..Len(t) PROVE t[i] \in Range(s \o t)
    <3>1. i + m \in (m + 1)..(m + Len(t)) /\ (i + m) - m = i /\ i + m \in 1..(m + Len(t))
      BY <1>1
    <3>2. (s \o t)[i + m] = t[i]
      BY <1>1, <3>1
    <3>3. QED
      BY <1>1, <3>1, <3>2 DEF Range
  <2>2. QED
    BY <1>1, <2>1 DEF Range
<1>7. QED
  BY <1>1, <1>3, <1>4, <1>5, <1>6

\* A part of a plan: its steps are in order, within two ranks.
Part(c, s, lo, hi) ==
  /\ s \in Seq(Steps) /\ Increasing(c, s)
  /\ \A x \in Range(s) : lo <= Rank(c, x) /\ Rank(c, x) <= hi

LEMMA RanksAreNumbers == \A c, x : Rank(c, x) \in Nat
BY DEF Rank

\* Two parts of which the second comes after the first, each within its own ranks.
Joins(c, s, lo, mid, t, up, hi) ==
  /\ Part(c, s, lo, mid) /\ Part(c, t, up, hi)
  /\ {lo, mid, up, hi} \subseteq Nat
  /\ lo <= up /\ mid < up /\ mid <= hi

LEMMA PartsJoin ==
  \A c, s, lo, mid, t, up, hi :
    Joins(c, s, lo, mid, t, up, hi) =>
      Part(c, s \o t, lo, hi) /\ Range(s \o t) = Range(s) \union Range(t)
<1> SUFFICES ASSUME NEW c, NEW s, NEW lo, NEW mid, NEW t, NEW up, NEW hi,
                    Joins(c, s, lo, mid, t, up, hi)
             PROVE  Part(c, s \o t, lo, hi) /\ Range(s \o t) = Range(s) \union Range(t)
  OBVIOUS
<1>1. /\ Part(c, s, lo, mid) /\ Part(c, t, up, hi)
      /\ lo \in Nat /\ mid \in Nat /\ up \in Nat /\ hi \in Nat
      /\ lo <= up /\ mid < up /\ mid <= hi
  BY DEF Joins
<1>2. \A x \in Range(s), y \in Range(t) : Rank(c, x) < Rank(c, y)
  BY <1>1, RanksAreNumbers DEF Part
<1>3. /\ s \o t \in Seq(Steps) /\ Increasing(c, s \o t)
      /\ Range(s \o t) = Range(s) \union Range(t)
  BY <1>1, <1>2, ConcatIncreases DEF Part
<1>4. QED
  BY <1>1, <1>3, RanksAreNumbers DEF Part

LEMMA PartWidens ==
  ASSUME NEW c, NEW s, NEW lo \in Nat, NEW hi \in Nat, NEW lo2 \in Nat, NEW hi2 \in Nat,
         Part(c, s, lo, hi), lo2 <= lo, hi <= hi2
  PROVE  Part(c, s, lo2, hi2)
BY RanksAreNumbers DEF Part

LEMMA NoSteps == \A c : Part(c, <<>>, 0, 0) /\ Range(<<>>) = {}
BY DEF Part, Increasing, Range

LEMMA Singletons == \A S, x : x \in S => <<x>> \in Seq(S)
OBVIOUS

LEMMA OneStep ==
  ASSUME NEW c, NEW x \in Steps
  PROVE  Part(c, <<x>>, Rank(c, x), Rank(c, x)) /\ Range(<<x>>) = {x}
<1> DEFINE s == <<x>>
<1>1. s \in Seq(Steps)
  BY Singletons
<1>2. DOMAIN s = {1} /\ s[1] = x
  OBVIOUS
<1> HIDE DEF s
<1>3. Range(s) = {x}
  BY <1>2 DEF Range
<1>4. Part(c, s, Rank(c, x), Rank(c, x))
  BY <1>1, <1>2, <1>3, RanksAreNumbers DEF Part, Increasing
<1>5. QED
  BY <1>3, <1>4 DEF s

LEMMA OptionalStep ==
  ASSUME NEW c, NEW x \in Steps, NEW s, s \in {<<>>, <<x>>}
  PROVE  Part(c, s, Rank(c, x), Rank(c, x)) /\ Range(s) \subseteq {x}
<1>1. CASE s = <<x>>
  BY <1>1, OneStep
<1>2. CASE s = <<>>
  <2>1. s \in Seq(Steps) /\ Range(s) = {} /\ DOMAIN s = {}
    BY <1>2 DEF Range
  <2>2. QED
    BY <2>1 DEF Part, Increasing
<1>3. QED
  BY <1>1, <1>2

-----------------------------------------------------------------------------
(* The plans. *)

LEMMA ConnectPart ==
  ASSUME NEW c
  PROVE  /\ Part(c, ConnectPlatform, 10, 13)
         /\ Range(ConnectPlatform) = {"dial", "getAgent", "listSkills", "resolve"}
<1> DEFINE s == ConnectPlatform
<1>1. s \in Seq(Steps)
  BY DEF ConnectPlatform, Steps
<1>2. /\ DOMAIN s = {1, 2, 3, 4}
      /\ s[1] = "dial" /\ s[2] = "getAgent" /\ s[3] = "listSkills" /\ s[4] = "resolve"
  <2>1. DOMAIN s = 1..4
    BY DEF ConnectPlatform
  <2>2. QED
    BY <2>1 DEF ConnectPlatform
<1>3. Rank(c, "dial") = 10 /\ Rank(c, "getAgent") = 11 /\ Rank(c, "listSkills") = 12
      /\ Rank(c, "resolve") = 13
  BY DEF Rank
<1> HIDE DEF s
<1>4. Increasing(c, s) /\ Range(s) = {"dial", "getAgent", "listSkills", "resolve"}
  BY <1>2, <1>3 DEF Increasing, Range
<1>5. QED
  BY <1>1, <1>3, <1>4 DEF Part, s

LEMMA ScriptsPart ==
  ASSUME NEW c
  PROVE  /\ ~Holder(c) => /\ Part(c, RunInitScripts(c), 20, 22)
                          /\ Range(RunInitScripts(c)) \subseteq
                               {"listEnvironment", "listAgent", "scripts"}
         /\ Holder(c) => /\ Part(c, RunInitScripts(c), 60, 62)
                         /\ Range(RunInitScripts(c)) \subseteq {"listEnvironment", "scripts"}
<1> DEFINE env == When(c.named, <<"listEnvironment">>)
           agent == When(c.mode = "agent", <<"listAgent">>)
           scripts == <<"scripts">>
<1>0. env \in {<<>>, <<"listEnvironment">>} /\ agent \in {<<>>, <<"listAgent">>}
      /\ (Holder(c) => agent = <<>>)
  BY DEF When, Holder
<1>1. {"listEnvironment", "listAgent", "scripts"} \subseteq Steps
  BY DEF Steps
<1>2. Part(c, scripts, Rank(c, "scripts"), Rank(c, "scripts")) /\ Range(scripts) = {"scripts"}
  BY <1>1, OneStep
<1>3. RunInitScripts(c) = (env \o agent) \o scripts
  BY DEF RunInitScripts
<1> HIDE DEF env, agent, scripts
<1>4. Part(c, env, Rank(c, "listEnvironment"), Rank(c, "listEnvironment"))
      /\ Range(env) \subseteq {"listEnvironment"}
  BY <1>0, <1>1, OptionalStep
<1>5. Part(c, agent, 21, 21) /\ Range(agent) \subseteq {"listAgent"}
  <2>1. Rank(c, "listAgent") = 21
    BY DEF Rank
  <2>2. QED
    BY <1>0, <1>1, <2>1, OptionalStep
<1>6. CASE ~Holder(c)
  <2>1. Part(c, env, 20, 20)
    BY <1>4, <1>6 DEF Rank
  <2>2. Part(c, scripts, 22, 22)
    BY <1>2, <1>6 DEF Rank
  <2>3. Part(c, agent, 21, 21)
    BY <1>5
  <2>4. Part(c, env \o agent, 20, 21) /\ Range(env \o agent) = Range(env) \union Range(agent)
    <3>1. Joins(c, env, 20, 20, agent, 21, 21)
      BY <2>1, <2>3 DEF Joins
    <3>2. QED
      BY <3>1, PartsJoin
  <2>5. Part(c, (env \o agent) \o scripts, 20, 22)
        /\ Range((env \o agent) \o scripts) = Range(env \o agent) \union Range(scripts)
    <3>1. Joins(c, env \o agent, 20, 21, scripts, 22, 22)
      BY <2>2, <2>4 DEF Joins
    <3>2. QED
      BY <3>1, PartsJoin
  <2>6. QED
    BY <1>2, <1>3, <1>4, <1>5, <1>6, <2>4, <2>5
<1>7. CASE Holder(c)
  <2>1. Part(c, env, 60, 60) /\ Part(c, scripts, 62, 62)
    BY <1>2, <1>4, <1>7 DEF Rank
  <2>2. env \o agent = env
    BY <1>0, <2>1, <1>7 DEF Part
  <2>3. Part(c, env \o scripts, 60, 62)
        /\ Range(env \o scripts) = Range(env) \union Range(scripts)
    <3>1. Joins(c, env, 60, 60, scripts, 62, 62)
      BY <2>1 DEF Joins
    <3>2. QED
      BY <3>1, PartsJoin
  <2>4. QED
    BY <1>2, <1>3, <1>4, <1>7, <2>2, <2>3
<1>8. QED
  BY <1>6, <1>7

LEMMA WhenRange ==
  ASSUME NEW b, NEW x \in Steps
  PROVE  /\ When(b, <<x>>) \in Seq(Steps)
         /\ Range(When(b, <<x>>)) = IF b THEN {x} ELSE {}
<1>1. <<x>> \in Seq(Steps) /\ Range(<<x>>) = {x}
  BY OneStep DEF Part
<1>2. <<>> \in Seq(Steps) /\ Range(<<>>) = {}
  BY NoSteps DEF Part
<1>3. When(b, <<x>>) = IF b THEN <<x>> ELSE <<>>
  BY DEF When
<1>4. CASE b
  <2>1. When(b, <<x>>) = <<x>>
    BY <1>3, <1>4
  <2>2. QED
    BY <1>1, <1>4, <2>1
<1>5. CASE ~b
  <2>1. When(b, <<x>>) = <<>>
    BY <1>3, <1>5
  <2>2. QED
    BY <1>2, <1>5, <2>1
<1>6. QED
  BY <1>4, <1>5

LEMMA ConcatRange ==
  ASSUME NEW S, NEW s \in Seq(S), NEW t \in Seq(S)
  PROVE  s \o t \in Seq(S) /\ Range(s \o t) = Range(s) \union Range(t)
<1> DEFINE m == Len(s)
<1>1. /\ m \in Nat /\ Len(t) \in Nat
      /\ DOMAIN s = 1..m /\ DOMAIN t = 1..Len(t)
      /\ s \o t \in Seq(S)
      /\ DOMAIN (s \o t) = 1..(m + Len(t))
      /\ \A i \in 1..m : (s \o t)[i] = s[i]
      /\ \A i \in (m + 1)..(m + Len(t)) : (s \o t)[i] = t[i - m]
  OBVIOUS
<1> HIDE DEF m
<1>2. Range(s \o t) \subseteq Range(s) \union Range(t)
  <2>1. ASSUME NEW i \in 1..(m + Len(t)) PROVE (s \o t)[i] \in Range(s) \union Range(t)
    <3>1. \/ i \in 1..m
          \/ i \in (m + 1)..(m + Len(t)) /\ i - m \in 1..Len(t)
      BY <1>1
    <3>2. QED
      BY <1>1, <3>1 DEF Range
  <2>2. QED
    BY <1>1, <2>1 DEF Range
<1>3. Range(s) \subseteq Range(s \o t)
  <2>1. \A i \in 1..m : i \in 1..(m + Len(t))
    BY <1>1
  <2>2. QED
    BY <1>1, <2>1 DEF Range
<1>4. ASSUME NEW i \in 1..Len(t) PROVE t[i] \in Range(s \o t)
  <2>1. i + m \in (m + 1)..(m + Len(t)) /\ (i + m) - m = i /\ i + m \in 1..(m + Len(t))
    BY <1>1
  <2>2. (s \o t)[i + m] = t[i]
    BY <1>1, <2>1
  <2>3. QED
    BY <1>1, <2>1, <2>2 DEF Range
<1>5. Range(t) \subseteq Range(s \o t)
  BY <1>1, <1>4 DEF Range
<1>6. QED
  BY <1>1, <1>2, <1>3, <1>5

LEMMA ScriptsRange ==
  ASSUME NEW c
  PROVE  RunInitScripts(c) \in Seq(Steps) /\ Range(RunInitScripts(c)) = ScriptChores(c)
<1> DEFINE env == When(c.named, <<"listEnvironment">>)
           agent == When(c.mode = "agent", <<"listAgent">>)
           scripts == <<"scripts">>
<1>1. "listEnvironment" \in Steps /\ "listAgent" \in Steps /\ "scripts" \in Steps
  BY DEF Steps
<1>2. env \in Seq(Steps) /\ Range(env) = IF c.named THEN {"listEnvironment"} ELSE {}
  BY <1>1, WhenRange
<1>3. agent \in Seq(Steps) /\ Range(agent) = IF c.mode = "agent" THEN {"listAgent"} ELSE {}
  BY <1>1, WhenRange
<1>4. scripts \in Seq(Steps) /\ Range(scripts) = {"scripts"}
  BY <1>1, OneStep DEF Part
<1>5. RunInitScripts(c) = (env \o agent) \o scripts
  BY DEF RunInitScripts
<1> HIDE DEF env, agent, scripts
<1> DEFINE lists == env \o agent
<1>6. lists \in Seq(Steps) /\ Range(lists) = Range(env) \union Range(agent)
  BY <1>2, <1>3, ConcatRange
<1>7. RunInitScripts(c) = lists \o scripts
  BY <1>5
<1> HIDE DEF lists
<1>8. lists \o scripts \in Seq(Steps) /\ Range(lists \o scripts) = Range(lists) \union Range(scripts)
  BY <1>4, <1>6, ConcatRange
<1>9. QED
  BY <1>2, <1>3, <1>4, <1>6, <1>7, <1>8 DEF ScriptChores

LEMMA CodexPreparesAuth ==
  ASSUME NEW c, c.sdk = "codex", c.native
  PROVE  "auth" \in Range(PrepareAgentCLI(c))
<1> DEFINE t == When(c.mode = "holder", <<"codexConfig">>)
<1>1. PrepareAgentCLI(c) = <<"auth">> \o t
  BY DEF PrepareAgentCLI, When
<1>2. t \in {<<>>, <<"codexConfig">>}
  BY DEF When
<1> HIDE DEF t
<1>3. <<"auth">> \in Seq(Steps) /\ t \in Seq(Steps)
  <2>1. "auth" \in Steps /\ "codexConfig" \in Steps
    BY DEF Steps
  <2>2. <<"auth">> \in Seq(Steps) /\ <<"codexConfig">> \in Seq(Steps)
    BY <2>1, Singletons
  <2>3. <<>> \in Seq(Steps)
    BY NoSteps DEF Part
  <2>4. CASE t = <<>>
    BY <2>2, <2>3, <2>4
  <2>5. CASE t = <<"codexConfig">>
    BY <2>2, <2>5
  <2>6. QED
    BY <1>2, <2>4, <2>5
<1>4. 1 \in DOMAIN (<<"auth">> \o t) /\ (<<"auth">> \o t)[1] = "auth"
  BY <1>3
<1>5. QED
  BY <1>1, <1>4 DEF Range

LEMMA PreparePart ==
  ASSUME NEW c
  PROVE  /\ Part(c, PrepareAgentCLI(c), 0, 5)
         /\ Range(PrepareAgentCLI(c)) \subseteq {"auth", "claudeState"} \union
              IF Holder(c) THEN {"codexConfig", "claudeSettings"} ELSE {}
<1>1. {"auth", "claudeState", "codexConfig", "claudeSettings"} \subseteq Steps
  BY DEF Steps
<1>2. Rank(c, "auth") = 1 /\ Rank(c, "claudeState") = 4
      /\ (Holder(c) => Rank(c, "codexConfig") = 5 /\ Rank(c, "claudeSettings") = 5)
  BY DEF Rank
<1>3. ASSUME NEW s, NEW t, Part(c, s, 0, 4), Range(s) \subseteq {"auth", "claudeState"},
             Holder(c) => Part(c, t, 5, 5) /\ Range(t) \subseteq {"codexConfig", "claudeSettings"},
             ~Holder(c) => t = <<>>
      PROVE  /\ Part(c, s \o t, 0, 5)
             /\ Range(s \o t) \subseteq {"auth", "claudeState"} \union
                  IF Holder(c) THEN {"codexConfig", "claudeSettings"} ELSE {}
  <2>1. CASE ~Holder(c)
    <3>1. s \o t = s
      BY <1>3, <2>1 DEF Part
    <3>2. Part(c, s, 0, 5)
      BY <1>3, PartWidens
    <3>3. QED
      BY <1>3, <2>1, <3>1, <3>2
  <2>2. CASE Holder(c)
    <3>1. Part(c, s, 0, 4)
      BY <1>3
    <3>2. Part(c, t, 5, 5)
      BY <1>3, <2>2
    <3>3. Part(c, s \o t, 0, 5) /\ Range(s \o t) = Range(s) \union Range(t)
      <4>1. Joins(c, s, 0, 4, t, 5, 5)
        BY <3>1, <3>2 DEF Joins
      <4>2. QED
        BY <4>1, PartsJoin
    <3>4. QED
      BY <1>3, <2>2, <3>3
  <2>3. QED
    BY <2>1, <2>2
<1>4. CASE c.sdk = "codex"
  <2> DEFINE s == When(c.native, <<"auth">>)
             t == When(c.mode = "holder", <<"codexConfig">>)
  <2>1. s \in {<<>>, <<"auth">>} /\ t \in {<<>>, <<"codexConfig">>}
        /\ (~Holder(c) => t = <<>>)
    BY DEF When, Holder
  <2>2. PrepareAgentCLI(c) = s \o t
    BY <1>4 DEF PrepareAgentCLI
  <2> HIDE DEF s, t
  <2>3. Part(c, s, 1, 1) /\ Range(s) \subseteq {"auth"}
    BY <1>1, <1>2, <2>1, OptionalStep
  <2>4. Holder(c) => Part(c, t, 5, 5) /\ Range(t) \subseteq {"codexConfig"}
    BY <1>1, <1>2, <2>1, OptionalStep
  <2>5. Part(c, s, 0, 4)
    BY <2>3, PartWidens
  <2>6. QED
    BY <1>3, <2>1, <2>2, <2>3, <2>4, <2>5
<1>5. CASE c.sdk = "claude"
  <2> DEFINE s == <<"claudeState">>
             t == When(c.mode = "holder", <<"claudeSettings">>)
  <2>1. s \in {<<>>, <<"claudeState">>} /\ t \in {<<>>, <<"claudeSettings">>}
        /\ (~Holder(c) => t = <<>>)
    BY DEF When, Holder
  <2>2. PrepareAgentCLI(c) = s \o t
    BY <1>5 DEF PrepareAgentCLI
  <2> HIDE DEF s, t
  <2>3. Part(c, s, 4, 4) /\ Range(s) \subseteq {"claudeState"}
    BY <1>1, <1>2, <2>1, OptionalStep
  <2>4. Holder(c) => Part(c, t, 5, 5) /\ Range(t) \subseteq {"claudeSettings"}
    BY <1>1, <1>2, <2>1, OptionalStep
  <2>5. Part(c, s, 0, 4)
    BY <2>3, PartWidens
  <2>6. QED
    BY <1>3, <2>1, <2>2, <2>3, <2>4, <2>5
<1>6. CASE c.sdk \notin {"codex", "claude"}
  <2>1. PrepareAgentCLI(c) = <<>>
    BY <1>6 DEF PrepareAgentCLI
  <2>2. QED
    BY <2>1, NoSteps, PartWidens
<1>7. QED
  BY <1>4, <1>5, <1>6

\* An agent's constructor: the platform, B, the init scripts, then D.
Assembled(c, B, D, s) ==
  /\ ~Holder(c) /\ Part(c, B, 15, 17) /\ Part(c, D, 30, 40)
  /\ s = ((ConnectPlatform \o B) \o RunInitScripts(c)) \o D

LEMMA ConstructorPart ==
  ASSUME NEW c, NEW B, NEW D, NEW s, Assembled(c, B, D, s)
  PROVE  /\ Part(c, s, 10, 40)
         /\ {"dial"} \union Range(B) \union Range(D) \subseteq Range(s)
         /\ Range(s) \subseteq {"dial", "getAgent", "listSkills", "resolve",
                                "listEnvironment", "listAgent", "scripts"}
                               \union Range(B) \union Range(D)
         /\ Range(s) = {"dial", "getAgent", "listSkills", "resolve"}
                       \union Range(B) \union ScriptChores(c) \union Range(D)
<1> DEFINE A == ConnectPlatform
           R == RunInitScripts(c)
<1>0. ~Holder(c) /\ Part(c, B, 15, 17) /\ Part(c, D, 30, 40)
      /\ s = ((A \o B) \o R) \o D
  BY DEF Assembled
<1>1. Part(c, A, 10, 13)
  BY ConnectPart
<1>2. Part(c, R, 20, 22)
  BY <1>0, ScriptsPart
<1>3. Range(A) = {"dial", "getAgent", "listSkills", "resolve"}
      /\ Range(R) \subseteq {"listEnvironment", "listAgent", "scripts"}
      /\ Range(R) = ScriptChores(c)
  BY <1>0, ConnectPart, ScriptsPart, ScriptsRange
<1> HIDE DEF A, R
<1>5. Part(c, A \o B, 10, 17) /\ Range(A \o B) = Range(A) \union Range(B)
  <2>1. Joins(c, A, 10, 13, B, 15, 17)
    BY <1>0, <1>1 DEF Joins
  <2>2. QED
    BY <2>1, PartsJoin
<1>6. Part(c, (A \o B) \o R, 10, 22)
      /\ Range((A \o B) \o R) = Range(A \o B) \union Range(R)
  <2>1. Joins(c, A \o B, 10, 17, R, 20, 22)
    BY <1>2, <1>5 DEF Joins
  <2>2. QED
    BY <2>1, PartsJoin
<1>7. Part(c, ((A \o B) \o R) \o D, 10, 40)
      /\ Range(((A \o B) \o R) \o D) = Range((A \o B) \o R) \union Range(D)
  <2>1. Joins(c, (A \o B) \o R, 10, 22, D, 30, 40)
    BY <1>0, <1>6 DEF Joins
  <2>2. QED
    BY <2>1, PartsJoin
<1>8. QED
  BY <1>0, <1>3, <1>5, <1>6, <1>7

LEMMA TwoSteps ==
  ASSUME NEW c, NEW x \in Steps, NEW y \in Steps, NEW lo \in Nat, NEW hi \in Nat,
         lo <= Rank(c, x), Rank(c, x) < Rank(c, y), Rank(c, y) <= hi
  PROVE  Part(c, <<x, y>>, lo, hi) /\ Range(<<x, y>>) = {x, y}
<1> DEFINE s == <<x, y>>
<1>1. s \in Seq(Steps)
  OBVIOUS
<1>2. DOMAIN s = {1, 2} /\ s[1] = x /\ s[2] = y
  OBVIOUS
<1> HIDE DEF s
<1>3. Range(s) = {x, y} /\ Increasing(c, s)
  BY <1>2, RanksAreNumbers DEF Range, Increasing
<1>4. Part(c, s, lo, hi)
  BY <1>1, <1>3, RanksAreNumbers DEF Part
<1>5. QED
  BY <1>3, <1>4 DEF s

LEMMA ThreeSteps ==
  ASSUME NEW c, NEW x \in Steps, NEW y \in Steps, NEW z \in Steps,
         NEW lo \in Nat, NEW hi \in Nat,
         lo <= Rank(c, x), Rank(c, x) < Rank(c, y), Rank(c, y) < Rank(c, z), Rank(c, z) <= hi
  PROVE  Part(c, <<x, y, z>>, lo, hi) /\ Range(<<x, y, z>>) = {x, y, z}
<1> DEFINE s == <<x, y, z>>
<1>1. s \in Seq(Steps)
  OBVIOUS
<1>2. DOMAIN s = {1, 2, 3} /\ s[1] = x /\ s[2] = y /\ s[3] = z
  OBVIOUS
<1> HIDE DEF s
<1>3. Range(s) = {x, y, z} /\ Increasing(c, s)
  BY <1>2, RanksAreNumbers DEF Range, Increasing
<1>4. Part(c, s, lo, hi)
  BY <1>1, <1>3, RanksAreNumbers DEF Part
<1>5. QED
  BY <1>3, <1>4 DEF s

LEMMA ProxySteps ==
  ASSUME NEW c, NEW s, c.sdk = "agn",
         s = <<"mcpServers", "exporter", "proxyConn", "proxyServer", "proxyHTTP", "cli">>
  PROVE  /\ Part(c, s, 30, 40)
         /\ Range(s) = {"mcpServers", "exporter", "proxyConn", "proxyServer", "proxyHTTP", "cli"}
<1>1. s \in Seq(Steps)
  BY DEF Steps
<1>2. DOMAIN s = 1..6
  OBVIOUS
<1>3. /\ s[1] = "mcpServers" /\ s[2] = "exporter" /\ s[3] = "proxyConn"
      /\ s[4] = "proxyServer" /\ s[5] = "proxyHTTP" /\ s[6] = "cli"
  OBVIOUS
<1>4. /\ Rank(c, "mcpServers") = 30 /\ Rank(c, "exporter") = 31 /\ Rank(c, "proxyConn") = 32
      /\ Rank(c, "proxyServer") = 33 /\ Rank(c, "proxyHTTP") = 34 /\ Rank(c, "cli") = 40
  BY DEF Rank
<1> DEFINE t == s
<1>5. t \in Seq(Steps) /\ DOMAIN t = {1, 2, 3, 4, 5, 6}
  BY <1>1, <1>2
<1>6. /\ t[1] = "mcpServers" /\ t[2] = "exporter" /\ t[3] = "proxyConn"
      /\ t[4] = "proxyServer" /\ t[5] = "proxyHTTP" /\ t[6] = "cli"
  BY <1>3
<1> HIDE DEF t
<1>7. Range(t) = {"mcpServers", "exporter", "proxyConn", "proxyServer", "proxyHTTP", "cli"}
  BY <1>5, <1>6 DEF Range
<1>8. Increasing(c, t)
  BY <1>4, <1>5, <1>6 DEF Increasing
<1>9. QED
  BY <1>4, <1>5, <1>7, <1>8 DEF Part, t

IsCodex(c)  == c.mode = "agent" /\ c.sdk = "codex"
IsAgn(c)    == c.mode = "agent" /\ c.sdk = "agn" /\ ~c.native
IsClaude(c) == c.mode = "agent" /\ c.sdk = "claude"

\* What New acquires, and all it does, for each agent CLI.
AcquiresFor(c) ==
  IF Holder(c) THEN IF c.named THEN {"dial"} ELSE {}
  ELSE IF IsCodex(c) \/ IsClaude(c) THEN {"dial", "exporter", "cli"}
  ELSE IF IsAgn(c)
    THEN {"dial", "exporter", "proxyConn", "proxyServer", "proxyHTTP", "cli"}
  ELSE {}

PrepareSteps == {"auth", "authCreate", "authWrite", "claudeState"}
CommonSteps == {"dial", "getAgent", "listSkills", "resolve",
                "listEnvironment", "listAgent", "scripts"}

StepsOfNew(c) ==
  IF Holder(c) THEN {"codexConfig", "claudeSettings"} \union AcquiresFor(c)
  ELSE IF IsCodex(c) THEN CommonSteps \union {"writeSkills", "exporter", "codexConfig", "cli"}
  ELSE IF IsClaude(c)
    THEN CommonSteps \union {"writeSkills", "claudeSettings", "exporter", "agentConfig", "cli"}
  ELSE IF IsAgn(c)
    THEN CommonSteps \union {"agentConfig", "agnConfig", "mcpServers", "exporter", "proxyConn",
                             "proxyServer", "proxyHTTP", "cli"}
  ELSE {"unsupported"}

\* The steps that what a CLI finds prepared hangs on, and those of them a boot goes through.
Chores == {"listEnvironment", "listAgent", "scripts", "mcpServers", "unsupported"}

Chosen(c) ==
  IF Holder(c) THEN IF c.named THEN ScriptChores(c) ELSE {}
  ELSE IF IsCodex(c) \/ IsClaude(c) THEN ScriptChores(c)
  ELSE IF IsAgn(c) THEN ScriptChores(c) \union {"mcpServers"}
  ELSE {"unsupported"}

Constructs(c, s) ==
  /\ Part(c, s, 10, 40)
  /\ AcquiresFor(c) \subseteq Range(s) /\ Range(s) \subseteq StepsOfNew(c)
  /\ Range(s) \intersect Chores = IF Holder(c) THEN {} ELSE Chosen(c)

LEMMA HolderConstructs ==
  ASSUME NEW c, Holder(c)
  PROVE  Constructs(c, Construct(c))
<1> DEFINE s == Construct(c)
<1>1. s = When(c.named, <<"dial">>)
  BY DEF Holder, Construct
<1>2. s \in {<<>>, <<"dial">>} /\ (c.named => s = <<"dial">>)
  BY <1>1 DEF When
<1> HIDE DEF s
<1>3. "dial" \in Steps /\ Rank(c, "dial") = 10
  BY DEF Steps, Rank
<1>4. Part(c, s, 10, 10) /\ Range(s) \subseteq {"dial"}
  BY <1>2, <1>3, OptionalStep
<1>5. Part(c, s, 10, 40)
  BY <1>4, PartWidens
<1>6. IF c.named THEN Range(s) = {"dial"} ELSE Range(s) = {}
  <2>1. CASE c.named
    BY <1>2, <1>3, <2>1, OneStep
  <2>2. CASE ~c.named
    <3>1. s = <<>>
      BY <1>1, <2>2 DEF When
    <3>2. QED
      BY <2>2, <3>1, NoSteps
  <2>3. QED
    BY <2>1, <2>2
<1>7. QED
  BY <1>4, <1>5, <1>6 DEF Constructs, AcquiresFor, StepsOfNew, Chores, s

LEMMA CodexConstructs ==
  ASSUME NEW c, IsCodex(c)
  PROVE  Constructs(c, Construct(c))
<1> DEFINE B == <<"writeSkills", "exporter", "codexConfig">>
           D == <<"cli">>
           s == Construct(c)
<1>0. ~Holder(c)
  BY DEF IsCodex, Holder
<1>1. s = ((ConnectPlatform \o B) \o RunInitScripts(c)) \o D
  BY DEF IsCodex, Construct
<1>2. Rank(c, "writeSkills") = 15 /\ Rank(c, "exporter") = 16 /\ Rank(c, "codexConfig") = 17
      /\ Rank(c, "cli") = 40
  BY <1>0 DEF Rank, IsCodex
<1>3. {"writeSkills", "exporter", "codexConfig", "cli"} \subseteq Steps
  BY DEF Steps
<1>4. Part(c, B, 15, 17) /\ Range(B) = {"writeSkills", "exporter", "codexConfig"}
  BY <1>2, <1>3, ThreeSteps
<1>5. Part(c, D, 40, 40) /\ Range(D) = {"cli"}
  BY <1>2, <1>3, OneStep
<1> HIDE DEF B, D, s
<1>6. Part(c, D, 30, 40)
  BY <1>5, PartWidens
<1>7. /\ Part(c, s, 10, 40)
      /\ {"dial"} \union Range(B) \union Range(D) \subseteq Range(s)
      /\ Range(s) \subseteq CommonSteps \union Range(B) \union Range(D)
      /\ Range(s) = {"dial", "getAgent", "listSkills", "resolve"}
                    \union Range(B) \union ScriptChores(c) \union Range(D)
  <2>1. Assembled(c, B, D, s)
    BY <1>0, <1>1, <1>4, <1>6 DEF Assembled
  <2>2. QED
    BY <2>1, ConstructorPart DEF CommonSteps
<1>8. Range(s) \intersect Chores = Chosen(c)
  BY <1>0, <1>4, <1>5, <1>7 DEF Chores, Chosen, ScriptChores
<1>9. QED
  BY <1>0, <1>4, <1>5, <1>7, <1>8 DEF Constructs, AcquiresFor, StepsOfNew, s

LEMMA ClaudeConstructs ==
  ASSUME NEW c, IsClaude(c)
  PROVE  Constructs(c, Construct(c))
<1> DEFINE B == <<"writeSkills", "claudeSettings">>
           D == <<"exporter", "agentConfig", "cli">>
           s == Construct(c)
<1>0. ~Holder(c) /\ ~IsCodex(c)
  BY DEF IsClaude, IsCodex, Holder
<1>1. s = ((ConnectPlatform \o B) \o RunInitScripts(c)) \o D
  BY DEF IsClaude, Construct
<1>2. Rank(c, "writeSkills") = 15 /\ Rank(c, "claudeSettings") = 17
      /\ Rank(c, "exporter") = 31 /\ Rank(c, "agentConfig") = 35 /\ Rank(c, "cli") = 40
  BY <1>0 DEF Rank, IsClaude
<1>3. {"writeSkills", "claudeSettings", "exporter", "agentConfig", "cli"} \subseteq Steps
  BY DEF Steps
<1>4. Part(c, B, 15, 17) /\ Range(B) = {"writeSkills", "claudeSettings"}
  BY <1>2, <1>3, TwoSteps
<1>5. Part(c, D, 30, 40) /\ Range(D) = {"exporter", "agentConfig", "cli"}
  BY <1>2, <1>3, ThreeSteps
<1> HIDE DEF B, D, s
<1>6. /\ Part(c, s, 10, 40)
      /\ {"dial"} \union Range(B) \union Range(D) \subseteq Range(s)
      /\ Range(s) \subseteq CommonSteps \union Range(B) \union Range(D)
      /\ Range(s) = {"dial", "getAgent", "listSkills", "resolve"}
                    \union Range(B) \union ScriptChores(c) \union Range(D)
  <2>1. Assembled(c, B, D, s)
    BY <1>0, <1>1, <1>4, <1>5 DEF Assembled
  <2>2. QED
    BY <2>1, ConstructorPart DEF CommonSteps
<1>7. Range(s) \intersect Chores = Chosen(c)
  BY <1>0, <1>4, <1>5, <1>6 DEF Chores, Chosen, ScriptChores
<1>8. QED
  BY <1>0, <1>4, <1>5, <1>6, <1>7 DEF Constructs, AcquiresFor, StepsOfNew, s

LEMMA AgnConstructs ==
  ASSUME NEW c, IsAgn(c)
  PROVE  Constructs(c, Construct(c))
<1> DEFINE B == <<"agentConfig", "agnConfig">>
           D == <<"mcpServers", "exporter", "proxyConn", "proxyServer", "proxyHTTP", "cli">>
           s == Construct(c)
<1>0. ~Holder(c) /\ ~IsCodex(c) /\ ~IsClaude(c) /\ c.sdk = "agn"
  BY DEF IsAgn, IsClaude, IsCodex, Holder
<1>1. s = ((ConnectPlatform \o B) \o RunInitScripts(c)) \o D
  BY DEF IsAgn, Construct
<1>2. Rank(c, "agentConfig") = 15 /\ Rank(c, "agnConfig") = 16
  BY <1>0 DEF Rank
<1>3. {"agentConfig", "agnConfig"} \subseteq Steps
  BY DEF Steps
<1>4. Part(c, B, 15, 17) /\ Range(B) = {"agentConfig", "agnConfig"}
  BY <1>2, <1>3, TwoSteps
<1>5. Part(c, D, 30, 40)
      /\ Range(D) = {"mcpServers", "exporter", "proxyConn", "proxyServer", "proxyHTTP", "cli"}
  BY <1>0, ProxySteps
<1> HIDE DEF B, D, s
<1>6. /\ Part(c, s, 10, 40)
      /\ {"dial"} \union Range(B) \union Range(D) \subseteq Range(s)
      /\ Range(s) \subseteq CommonSteps \union Range(B) \union Range(D)
      /\ Range(s) = {"dial", "getAgent", "listSkills", "resolve"}
                    \union Range(B) \union ScriptChores(c) \union Range(D)
  <2>1. Assembled(c, B, D, s)
    BY <1>0, <1>1, <1>4, <1>5 DEF Assembled
  <2>2. QED
    BY <2>1, ConstructorPart DEF CommonSteps
<1>7. Range(s) \intersect Chores = Chosen(c)
  BY <1>0, <1>4, <1>5, <1>6 DEF Chores, Chosen, ScriptChores
<1>8. QED
  BY <1>0, <1>4, <1>5, <1>6, <1>7 DEF Constructs, AcquiresFor, StepsOfNew, s

LEMMA NewConstructs == \A c : Constructs(c, Construct(c))
<1> SUFFICES ASSUME NEW c PROVE Constructs(c, Construct(c))
  OBVIOUS
<1>1. CASE ~Holder(c) /\ ~IsCodex(c) /\ ~IsClaude(c) /\ ~IsAgn(c)
  <2>1. Construct(c) = <<"unsupported">>
    BY <1>1 DEF Construct, Holder, IsCodex, IsClaude, IsAgn
  <2>2. "unsupported" \in Steps /\ Rank(c, "unsupported") = 10
    BY DEF Steps, Rank
  <2>3. Part(c, Construct(c), 10, 10) /\ Range(Construct(c)) = {"unsupported"}
    BY <2>1, <2>2, OneStep
  <2>4. Part(c, Construct(c), 10, 40)
    BY <2>3, PartWidens
  <2>5. QED
    BY <1>1, <2>3, <2>4 DEF Constructs, AcquiresFor, StepsOfNew, Chores, Chosen
<1>2. QED
  BY <1>1, HolderConstructs, CodexConstructs, ClaudeConstructs, AgnConstructs

LEMMA RunPart ==
  ASSUME NEW c
  PROVE  Part(c, Run(c), 50, 62) /\ "shells" \in Range(Run(c))
<1> DEFINE A == <<"shells">>
           B == <<"chdir">>
           C == When(c.named, RunInitScripts(c))
           t == When(c.mode = "holder", B \o C)
<1>0. Run(c) = A \o t
  BY DEF Run
<1>1. {"shells", "chdir"} \subseteq Steps /\ Rank(c, "shells") = 50 /\ Rank(c, "chdir") = 51
  BY DEF Steps, Rank
<1>2. Part(c, A, 50, 50) /\ Range(A) = {"shells"} /\ Part(c, B, 51, 51)
  BY <1>1, OneStep
<1>3. ~Holder(c) => t = <<>>
  BY DEF When, Holder
<1>4. Holder(c) => t = B \o C
  BY DEF When, Holder
<1>5. C \in {<<>>, RunInitScripts(c)}
  BY DEF When
<1> HIDE DEF A, B, C, t
<1>6. CASE ~Holder(c)
  <2>1. A \o t = A
    BY <1>2, <1>3, <1>6 DEF Part
  <2>2. Part(c, A, 50, 62)
    BY <1>2, PartWidens
  <2>3. QED
    BY <1>0, <1>2, <2>1, <2>2
<1>7. CASE Holder(c)
  <2>1. Part(c, B \o C, 51, 62)
    <3>1. CASE C = <<>>
      <4>1. B \o C = B
        BY <1>2, <3>1 DEF Part
      <4>2. QED
        BY <1>2, <4>1, PartWidens
    <3>2. CASE C = RunInitScripts(c)
      <4>1. Part(c, C, 60, 62)
        BY <1>7, <3>2, ScriptsPart
      <4>2. Joins(c, B, 51, 51, C, 60, 62)
        BY <1>2, <4>1 DEF Joins
      <4>3. QED
        BY <4>2, PartsJoin
    <3>3. QED
      BY <1>5, <3>1, <3>2
  <2>2. Joins(c, A, 50, 50, t, 51, 62)
    <3>1. Part(c, A, 50, 50)
      BY <1>2
    <3>2. Part(c, t, 51, 62)
      BY <1>4, <1>7, <2>1
    <3>3. QED
      BY <3>1, <3>2 DEF Joins
  <2>3. Part(c, A \o t, 50, 62) /\ Range(A \o t) = Range(A) \union Range(t)
    BY <2>2, PartsJoin
  <2>4. QED
    BY <1>0, <1>2, <2>3
<1>8. QED
  BY <1>6, <1>7

-----------------------------------------------------------------------------
(* What is left to do is the end of a plan. *)

\* All that the plan acquires from its first step on is still in it.
Plan(c, s) ==
  /\ s \in Seq(Steps) /\ Increasing(c, s)
  /\ \A x \in Range(s) : x \in PrepareSteps \union StepsOfNew(c) \/ Rank(c, x) >= 50
  /\ \A x \in Range(s), a \in AcquiresFor(c) : Rank(c, a) >= Rank(c, x) => a \in Range(s)
  /\ "auth" \in Range(s) => {"authCreate", "authWrite"} \intersect Range(s) = {}

LEMMA PlanTail ==
  ASSUME NEW c, NEW s, Plan(c, s), s # <<>>
  PROVE  /\ Plan(c, Tail(s))
         /\ Range(s) = {Head(s)} \union Range(Tail(s))
         /\ \A x \in Range(Tail(s)) : Rank(c, Head(s)) < Rank(c, x)
<1>1. /\ Tail(s) \in Seq(Steps)
      /\ Range(s) = {Head(s)} \union Range(Tail(s))
      /\ Increasing(c, Tail(s))
      /\ \A x \in Range(Tail(s)) : Rank(c, Head(s)) < Rank(c, x)
  BY SeqRange, TailIncreases DEF Plan
<1>2. \A x \in Range(Tail(s)), a \in AcquiresFor(c) :
        Rank(c, a) >= Rank(c, x) => a \in Range(Tail(s))
  BY <1>1, RanksAreNumbers DEF Plan
<1>3. QED
  BY <1>1, <1>2 DEF Plan

LEMMA NewPlan ==
  \A c : /\ Plan(c, Construct(c) \o Run(c))
         /\ AcquiresFor(c) \union {"shells"} \subseteq Range(Construct(c) \o Run(c))
         /\ \A x \in Range(Construct(c) \o Run(c)) : Rank(c, x) >= 10
<1> SUFFICES ASSUME NEW c
             PROVE  /\ Plan(c, Construct(c) \o Run(c))
                    /\ AcquiresFor(c) \union {"shells"} \subseteq Range(Construct(c) \o Run(c))
                    /\ \A x \in Range(Construct(c) \o Run(c)) : Rank(c, x) >= 10
  OBVIOUS
<1> DEFINE A == Construct(c)
           B == Run(c)
<1>1. Part(c, A, 10, 40) /\ AcquiresFor(c) \subseteq Range(A) /\ Range(A) \subseteq StepsOfNew(c)
  BY NewConstructs DEF Constructs
<1>2. Part(c, B, 50, 62) /\ "shells" \in Range(B)
  BY RunPart
<1> HIDE DEF A, B
<1>3. Part(c, A \o B, 10, 62) /\ Range(A \o B) = Range(A) \union Range(B)
  <2>1. Joins(c, A, 10, 40, B, 50, 62)
    BY <1>1, <1>2 DEF Joins
  <2>2. QED
    BY <2>1, PartsJoin
<1>4. Rank(c, "auth") = 1
  BY DEF Rank
<1>5. \A x \in Range(A \o B) : x \in StepsOfNew(c) \/ Rank(c, x) >= 50
  BY <1>1, <1>2, <1>3 DEF Part
<1>6. "auth" \notin Range(A \o B)
  BY <1>3, <1>4 DEF Part
<1>7. AcquiresFor(c) \union {"shells"} \subseteq Range(A \o B)
  BY <1>1, <1>2, <1>3
<1>8. Plan(c, A \o B)
  BY <1>3, <1>5, <1>6, <1>7 DEF Plan, Part
<1>9. \A x \in Range(A \o B) : Rank(c, x) >= 10
  BY <1>3, RanksAreNumbers DEF Part
<1>10. QED
  BY <1>7, <1>8, <1>9 DEF A, B

LEMMA BootPlan ==
  \A c : LET s == PrepareAgentCLI(c) \o Construct(c) \o Run(c) IN
         /\ Plan(c, s) /\ AcquiresFor(c) \union {"shells"} \subseteq Range(s)
         /\ {"authCreate", "authWrite"} \intersect Range(s) = {}
         /\ c.sdk = "codex" /\ c.native => "auth" \in Range(s)
<1> SUFFICES ASSUME NEW c
             PROVE  LET s == PrepareAgentCLI(c) \o Construct(c) \o Run(c) IN
                    /\ Plan(c, s) /\ AcquiresFor(c) \union {"shells"} \subseteq Range(s)
                    /\ {"authCreate", "authWrite"} \intersect Range(s) = {}
                    /\ c.sdk = "codex" /\ c.native => "auth" \in Range(s)
  OBVIOUS
<1> DEFINE P == PrepareAgentCLI(c)
           A == Construct(c)
           B == Run(c)
<1>1. Part(c, A, 10, 40) /\ AcquiresFor(c) \subseteq Range(A) /\ Range(A) \subseteq StepsOfNew(c)
  BY NewConstructs DEF Constructs
<1>2. Part(c, B, 50, 62) /\ "shells" \in Range(B)
  BY RunPart
<1>3. Part(c, P, 0, 5)
  BY PreparePart
<1>4. Range(P) \subseteq PrepareSteps \union StepsOfNew(c)
  BY PreparePart DEF PrepareSteps, StepsOfNew
<1>5. /\ Range(P) \intersect {"authCreate", "authWrite"} = {}
      /\ c.sdk = "codex" /\ c.native => "auth" \in Range(P)
  BY PreparePart, CodexPreparesAuth
<1> HIDE DEF P, A, B
<1>6. Part(c, P \o A, 0, 40) /\ Range(P \o A) = Range(P) \union Range(A)
  <2>1. Joins(c, P, 0, 5, A, 10, 40)
    BY <1>1, <1>3 DEF Joins
  <2>2. QED
    BY <2>1, PartsJoin
<1>7. Part(c, (P \o A) \o B, 0, 62) /\ Range((P \o A) \o B) = Range(P \o A) \union Range(B)
  <2>1. Joins(c, P \o A, 0, 40, B, 50, 62)
    BY <1>2, <1>6 DEF Joins
  <2>2. QED
    BY <2>1, PartsJoin
<1> DEFINE s == (P \o A) \o B
<1>8. Range(s) = Range(P) \union Range(A) \union Range(B) /\ Part(c, s, 0, 62)
  BY <1>6, <1>7
<1> HIDE DEF s
<1>9. \A x \in Range(s) : x \in PrepareSteps \union StepsOfNew(c) \/ Rank(c, x) >= 50
  BY <1>1, <1>2, <1>4, <1>8 DEF Part
<1>10. {"authCreate", "authWrite"} \intersect Range(s) = {}
  <2>1. Rank(c, "authCreate") = 2 /\ Rank(c, "authWrite") = 3
    BY DEF Rank
  <2>2. QED
    BY <1>1, <1>2, <1>5, <1>8, <2>1 DEF Part
<1>11. AcquiresFor(c) \union {"shells"} \subseteq Range(s)
  BY <1>1, <1>2, <1>8
<1>12. Plan(c, s)
  BY <1>8, <1>9, <1>10, <1>11 DEF Plan, Part
<1>13. QED
  BY <1>5, <1>8, <1>10, <1>11, <1>12 DEF s, P, A, B

\* codex's credential is found missing: two steps more, ahead of the others.
LEMMA AuthPlan ==
  ASSUME NEW c, NEW s, Plan(c, s), s # <<>>, Head(s) = "auth"
  PROVE  /\ Plan(c, <<"authCreate", "authWrite">> \o Tail(s))
         /\ Range(<<"authCreate", "authWrite">> \o Tail(s))
              = {"authCreate", "authWrite"} \union Range(Tail(s))
<1> DEFINE A == <<"authCreate", "authWrite">>
           t == Tail(s)
<1>1. /\ Plan(c, t) /\ Range(s) = {"auth"} \union Range(t)
      /\ \A x \in Range(t) : Rank(c, "auth") < Rank(c, x)
  BY PlanTail
<1>2. Rank(c, "auth") = 1 /\ Rank(c, "authCreate") = 2 /\ Rank(c, "authWrite") = 3
  BY DEF Rank
<1>3. {"authCreate", "authWrite"} \subseteq Steps
  BY DEF Steps
<1>4. Part(c, A, 2, 3) /\ Range(A) = {"authCreate", "authWrite"}
  BY <1>2, <1>3, TwoSteps
<1>5. {"authCreate", "authWrite"} \intersect Range(t) = {}
  BY <1>1 DEF Plan
<1>6. \A x \in Range(t) : Rank(c, x) >= 4
  <2>1. \A x \in Range(t) : x \in Steps
    BY <1>1 DEF Plan, Range
  <2>2. \A x \in Steps \ {"auth", "authCreate", "authWrite"} : Rank(c, x) >= 4
    BY DEF Steps, Rank
  <2>3. "auth" \notin Range(t)
    BY <1>1, <1>2
  <2>4. QED
    BY <1>5, <2>1, <2>2, <2>3
<1> HIDE DEF A, t
<1>7. \A x \in Range(A), y \in Range(t) : Rank(c, x) < Rank(c, y)
  BY <1>2, <1>4, <1>6, RanksAreNumbers
<1>8. A \o t \in Seq(Steps) /\ Increasing(c, A \o t) /\ Range(A \o t) = Range(A) \union Range(t)
  <2>1. A \in Seq(Steps) /\ t \in Seq(Steps) /\ Increasing(c, A) /\ Increasing(c, t)
    BY <1>1, <1>4 DEF Part, Plan
  <2>2. QED
    BY <1>7, <2>1, ConcatIncreases
<1>9. \A a \in AcquiresFor(c) : a \in Range(s)
  <2>1. \A a \in AcquiresFor(c) : Rank(c, a) >= Rank(c, "auth")
    BY <1>2 DEF AcquiresFor, Rank
  <2>2. QED
    BY <1>1, <2>1 DEF Plan
<1>10. \A a \in AcquiresFor(c) : a \in Range(t)
  <2>1. "auth" \notin AcquiresFor(c)
    BY DEF AcquiresFor
  <2>2. QED
    BY <1>1, <1>9, <2>1
<1>11. \A x \in Range(A \o t) : x \in PrepareSteps \union StepsOfNew(c) \/ Rank(c, x) >= 50
  BY <1>1, <1>4, <1>8 DEF Plan, PrepareSteps
<1>12. "auth" \notin Range(A \o t)
  BY <1>2, <1>4, <1>6, <1>8
<1>13. Plan(c, A \o t)
  BY <1>8, <1>10, <1>11, <1>12 DEF Plan
<1>14. QED
  BY <1>4, <1>8, <1>13 DEF A, t

-----------------------------------------------------------------------------
(* What a failing step gives back is what New holds. *)

LEMMA AcquiresRank ==
  \A c : /\ \A a \in AcquiresFor(c) : a \in Acquires /\ 10 <= Rank(c, a) /\ Rank(c, a) <= 40
         /\ \A x \in PrepareSteps : Rank(c, x) < 10
         /\ Acquires \intersect (PrepareSteps \union StepsOfNew(c)) = AcquiresFor(c)
         /\ \A a \in Acquires : Rank(c, a) < 50
<1> SUFFICES ASSUME NEW c
             PROVE  /\ \A a \in AcquiresFor(c) : a \in Acquires /\ 10 <= Rank(c, a)
                                                 /\ Rank(c, a) <= 40
                    /\ \A x \in PrepareSteps : Rank(c, x) < 10
                    /\ Acquires \intersect (PrepareSteps \union StepsOfNew(c)) = AcquiresFor(c)
                    /\ \A a \in Acquires : Rank(c, a) < 50
  OBVIOUS
<1>1. \A a \in Acquires : 10 <= Rank(c, a) /\ Rank(c, a) <= 40
  <2>1. /\ Rank(c, "dial") = 10 /\ Rank(c, "exporter") \in {16, 31}
        /\ Rank(c, "proxyConn") = 32 /\ Rank(c, "proxyServer") = 33
        /\ Rank(c, "proxyHTTP") = 34 /\ Rank(c, "cli") = 40
    BY DEF Rank
  <2>2. QED
    BY <2>1 DEF Acquires
<1>2. AcquiresFor(c) \subseteq Acquires
  BY DEF AcquiresFor, Acquires
<1>3. \A x \in PrepareSteps : Rank(c, x) < 10
  BY DEF PrepareSteps, Rank
<1>4. Acquires \intersect (PrepareSteps \union StepsOfNew(c)) = AcquiresFor(c)
  <2>1. CASE Holder(c)
    BY <2>1 DEF Acquires, PrepareSteps, StepsOfNew, AcquiresFor
  <2>2. CASE ~Holder(c)
    BY <2>2 DEF Acquires, PrepareSteps, StepsOfNew, CommonSteps, AcquiresFor
  <2>3. QED
    BY <2>1, <2>2
<1>5. QED
  BY <1>1, <1>2, <1>3, <1>4, RanksAreNumbers

LEMMA ReleasesAll ==
  ASSUME NEW c, NEW h \in StepsOfNew(c), NEW a \in AcquiresFor(c), Rank(c, a) < Rank(c, h)
  PROVE  Opens(a) \in Releases(c, h)
<1>1. CASE Holder(c)
  BY <1>1 DEF StepsOfNew, AcquiresFor, Rank
<1>2. CASE ~Holder(c) /\ IsCodex(c)
  BY <1>2 DEF StepsOfNew, CommonSteps, AcquiresFor, Rank, IsCodex, Releases, Opens
<1>3. CASE ~Holder(c) /\ ~IsCodex(c) /\ IsClaude(c)
  BY <1>3 DEF StepsOfNew, CommonSteps, AcquiresFor, Rank, IsClaude, Releases, Opens
<1>4. CASE ~Holder(c) /\ ~IsCodex(c) /\ ~IsClaude(c) /\ IsAgn(c)
  BY <1>4 DEF StepsOfNew, CommonSteps, AcquiresFor, Rank, IsAgn, Releases, Opens
<1>5. CASE ~Holder(c) /\ ~IsCodex(c) /\ ~IsClaude(c) /\ ~IsAgn(c)
  BY <1>5 DEF AcquiresFor
<1>6. QED
  BY <1>1, <1>2, <1>3, <1>4, <1>5

-----------------------------------------------------------------------------
(* The invariant. *)

\* New has acquired what its plan names and what is left of it no longer does; and has
\* not returned before "shells", the first step of Run.
Booting ==
  /\ Plan(cfg, todo)
  /\ ~built => "shells" \in Range(todo)
  /\ \A a \in Acquires : held[Opens(a)] = 1 <=> a \in AcquiresFor(cfg) /\ a \notin Range(todo)

\* What is held while the process closes, is still to be closed.
Closing ==
  /\ todo \in Seq(Range(CloseOrder))
  /\ \A r \in Resources : held[r] = 1 => \E k \in DOMAIN todo : r \in Closes(todo[k])

BootInv ==
  /\ held \in [Resources -> 0..1]
  /\ built \in BOOLEAN /\ backoff \in BOOLEAN
  /\ backoff => held = NothingHeld
  /\ doing = "booting" => Booting
  /\ doing \in {"serving", "closing"} => built
  /\ doing = "closing" => Closing
  /\ doing = "ended" /\ (fate = "stopped" \/ (fate = "fatal" /\ ~built)) => held = NothingHeld

\* Every resource is opened by one step.
LEMMA ResourcesOpen ==
  /\ \A r \in Resources : \E a \in Acquires : r = Opens(a)
  /\ \A a \in Acquires : Opens(a) \in Resources
  /\ \A a, b \in Acquires : Opens(a) = Opens(b) => a = b
BY DEF Resources, Acquires, Opens

LEMMA HeadIsInPlan ==
  ASSUME BootInv, doing = "booting", todo # <<>>
  PROVE  /\ Head(todo) \in Range(todo)
         /\ Plan(cfg, Tail(todo))
         /\ Range(todo) = {Head(todo)} \union Range(Tail(todo))
         /\ Head(todo) \notin Range(Tail(todo))
         /\ \A x \in Range(Tail(todo)) : Rank(cfg, Head(todo)) < Rank(cfg, x)
<1>1. Plan(cfg, todo)
  BY DEF BootInv, Booting
<1>2. /\ Plan(cfg, Tail(todo))
      /\ Range(todo) = {Head(todo)} \union Range(Tail(todo))
      /\ \A x \in Range(Tail(todo)) : Rank(cfg, Head(todo)) < Rank(cfg, x)
  BY <1>1, PlanTail
<1>3. Head(todo) \notin Range(Tail(todo))
  <2>1. Rank(cfg, Head(todo)) \in Nat
    BY RanksAreNumbers
  <2>2. QED
    BY <1>2, <2>1
<1>4. QED
  BY <1>2, <1>3

\* A step fails before New has returned: nothing is left.
LEMMA NothingIsLeftOver ==
  ASSUME BootInv, doing = "booting", todo # <<>>, Rank(cfg, Head(todo)) < 50
  PROVE  Without(Releases(cfg, Head(todo))) = NothingHeld
<1> DEFINE h == Head(todo)
<1>1. h \in Range(todo) /\ Plan(cfg, todo) /\ Rank(cfg, h) \in Nat /\ Rank(cfg, h) < 50
  BY HeadIsInPlan, RanksAreNumbers DEF BootInv, Booting
<1>2. h \in PrepareSteps \union StepsOfNew(cfg)
  BY <1>1 DEF Plan
<1>3. ASSUME NEW r \in Resources PROVE r \in Releases(cfg, h) \/ held[r] = 0
  <2>1. PICK a \in Acquires : r = Opens(a)
    BY ResourcesOpen
  <2>2. CASE held[r] = 1
    <3>1. a \in AcquiresFor(cfg) /\ a \notin Range(todo)
      BY <2>1, <2>2 DEF BootInv, Booting
    <3>2. Rank(cfg, a) < Rank(cfg, h)
      BY <1>1, <3>1, RanksAreNumbers DEF Plan
    <3>3. h \in StepsOfNew(cfg)
      BY <1>1, <1>2, <3>1, <3>2, AcquiresRank, RanksAreNumbers
    <3>4. QED
      BY <2>1, <3>1, <3>2, <3>3, ReleasesAll
  <2>3. QED
    BY <2>2 DEF BootInv
<1> HIDE DEF h
<1>4. \A r \in Resources : IF r \in Releases(cfg, h) /\ held[r] > 0
                           THEN held[r] - 1 = 0 ELSE held[r] = 0
  BY <1>3 DEF BootInv
<1>5. Without(Releases(cfg, h)) = [r \in Resources |-> 0]
  BY <1>4 DEF Without
<1>6. QED
  BY <1>5 DEF NothingHeld, h

LEMMA NothingHeldAtFirst ==
  ASSUME BootInv, doing = "booting", todo # <<>>, Head(todo) = "dial"
  PROVE  held = NothingHeld
<1>1. "dial" \in Range(todo) /\ Plan(cfg, todo) /\ Rank(cfg, "dial") = 10
  BY HeadIsInPlan DEF BootInv, Booting, Rank
<1>2. AcquiresFor(cfg) \subseteq Range(todo)
  BY <1>1, AcquiresRank DEF Plan
<1>3. \A r \in Resources : held[r] = 0
  BY <1>2, ResourcesOpen DEF BootInv, Booting
<1>4. QED
  BY <1>3 DEF BootInv, NothingHeld

\* The steps that move on.
LEMMA AdvanceKeeps ==
  ASSUME BootInv, doing = "booting", todo # <<>>, ~backoff,
         todo' = Tail(todo), UNCHANGED <<environment, doing, backoff, fate>>,
         built' \in {built, TRUE}, Head(todo) # "shells" \/ built',
         IF Head(todo) \in Acquires
           THEN held' = [held EXCEPT ![Opens(Head(todo))] = @ + 1]
           ELSE held' = held
  PROVE  BootInv'
<1> DEFINE h == Head(todo)
<1>1. /\ Plan(cfg, Tail(todo)) /\ Range(todo) = {h} \union Range(Tail(todo))
      /\ h \in Range(todo) /\ h \notin Range(Tail(todo))
  BY HeadIsInPlan
<1>2. cfg' = cfg
  BY DEF cfg
<1>3. /\ Plan(cfg, todo) /\ (~built => "shells" \in Range(todo))
      /\ \A a \in Acquires : held[Opens(a)] = 1 <=> a \in AcquiresFor(cfg) /\ a \notin Range(todo)
      /\ held \in [Resources -> 0..1] /\ built \in BOOLEAN
  BY DEF BootInv, Booting
<1> HIDE DEF h
<1>4. /\ held' \in [Resources -> 0..1]
      /\ \A a \in Acquires : held'[Opens(a)] = 1 <=> a \in AcquiresFor(cfg) /\ a \notin Range(Tail(todo))
  <2>1. CASE h \in Acquires
    <3>1. h \in AcquiresFor(cfg)
      <4>1. h \in PrepareSteps \union StepsOfNew(cfg) \/ Rank(cfg, h) >= 50
        BY <1>1, <1>3 DEF Plan
      <4>2. Rank(cfg, h) < 50 /\ Rank(cfg, h) \in Nat
        BY <2>1, AcquiresRank, RanksAreNumbers
      <4>3. QED
        BY <2>1, <4>1, <4>2, AcquiresRank
    <3>2. held[Opens(h)] = 0 /\ Opens(h) \in Resources
      BY <1>1, <1>3, <2>1, ResourcesOpen
    <3>3. held' = [held EXCEPT ![Opens(h)] = 1]
      BY <1>3, <2>1, <3>2 DEF h
    <3>4. \A a \in Acquires : a # h => held'[Opens(a)] = held[Opens(a)]
      BY <1>3, <2>1, <3>3, ResourcesOpen
    <3>5. held'[Opens(h)] = 1 /\ held' \in [Resources -> 0..1]
      BY <1>3, <3>2, <3>3
    <3>6. QED
      BY <1>1, <1>3, <3>1, <3>4, <3>5
  <2>2. CASE h \notin Acquires
    BY <1>1, <1>3, <2>2 DEF h
  <2>3. QED
    BY <2>1, <2>2
<1>5. ~built' => "shells" \in Range(Tail(todo))
  BY <1>1, <1>3 DEF h
<1>6. Booting'
  BY <1>1, <1>2, <1>4, <1>5 DEF Booting
<1>7. QED
  BY <1>3, <1>4, <1>6 DEF BootInv

\* Close names every resource.
LEMMA ClosesEverything ==
  /\ CloseOrder \in Seq(Range(CloseOrder))
  /\ \A r \in Resources : \E k \in DOMAIN CloseOrder : r \in Closes(CloseOrder[k])
<1> DEFINE s == CloseOrder
<1>1. DOMAIN s = 1..4
  BY DEF CloseOrder
<1>2. s[1] = "cli" /\ s[2] = "exporter" /\ s[3] = "proxy" /\ s[4] = "gateway"
  BY DEF CloseOrder
<1>3. s \in Seq({"cli", "exporter", "proxy", "gateway"})
  BY DEF CloseOrder
<1> HIDE DEF s
<1>4. DOMAIN s = {1, 2, 3, 4}
  BY <1>1
<1>5. Range(s) = {"cli", "exporter", "proxy", "gateway"}
  BY <1>2, <1>4 DEF Range
<1>6. \A r \in Resources : \E k \in DOMAIN s : r \in Closes(s[k])
  BY <1>2, <1>4 DEF Resources, Closes
<1>7. QED
  BY <1>3, <1>5, <1>6 DEF s

\* The steps that fail.
LEMMA FailsKeep ==
  ASSUME BootInv, doing = "booting", todo # <<>>, ~backoff, Head(todo) # "shells",
         NEW canceled, Fails(canceled), UNCHANGED <<environment, built>>
  PROVE  BootInv'
<1> DEFINE h == Head(todo)
<1>1. cfg' = cfg /\ built \in BOOLEAN /\ held \in [Resources -> 0..1]
  BY DEF cfg, BootInv
<1>2. NothingHeld \in [Resources -> 0..1] /\ \A r \in Resources : NothingHeld[r] = 0
  BY DEF NothingHeld
<1>3. Rank(cfg, h) \in Nat
  BY RanksAreNumbers
<1>4. CASE h \in Range(ConnectPlatform)
  <2>1. Rank(cfg, h) < 50
    <3>1. Part(cfg, ConnectPlatform, 10, 13)
      BY ConnectPart
    <3>2. QED
      BY <1>3, <1>4, <3>1 DEF Part
  <2>2. held' = NothingHeld
    BY <1>4, <2>1, NothingIsLeftOver DEF Fails
  <2>3. todo' = Construct(cfg) \o Run(cfg)
    BY <1>4 DEF Fails
  <2>4. Plan(cfg', todo') /\ AcquiresFor(cfg') \union {"shells"} \subseteq Range(todo')
    BY <1>1, <2>3, NewPlan
  <2>5. Booting'
    BY <1>2, <2>2, <2>4, ResourcesOpen DEF Booting
  <2>6. /\ backoff' \in BOOLEAN
        /\ \/ doing' = "ended"
           \/ doing' = "booting"
    BY <1>4 DEF Fails, Ends, BootInv
  <2>7. QED
    BY <1>1, <1>2, <2>2, <2>5, <2>6 DEF BootInv
<1>5. CASE h \notin Range(ConnectPlatform) /\ ~built
  <2>1. "shells" \in Range(Tail(todo))
    BY <1>5, HeadIsInPlan DEF BootInv, Booting
  <2>2. Rank(cfg, h) < Rank(cfg, "shells") /\ Rank(cfg, "shells") = 50
    BY <2>1, HeadIsInPlan DEF Rank
  <2>3. held' = NothingHeld
    BY <1>5, <2>2, NothingIsLeftOver DEF Fails
  <2>4. doing' = "ended" /\ backoff' = backoff
    BY <1>5 DEF Fails, Ends
  <2>5. QED
    BY <1>1, <1>2, <2>3, <2>4 DEF BootInv
<1>6. CASE h \notin Range(ConnectPlatform) /\ built /\ canceled
  <2>1. doing' = "closing" /\ todo' = CloseOrder /\ held' = held /\ backoff' = backoff
    BY <1>6 DEF Fails
  <2>2. Closing'
    BY <1>1, <2>1, ClosesEverything DEF Closing
  <2>3. QED
    BY <1>1, <1>6, <2>1, <2>2 DEF BootInv
<1>7. CASE h \notin Range(ConnectPlatform) /\ built /\ ~canceled
  <2>1. doing' = "ended" /\ fate' = "fatal" /\ held' = held /\ backoff' = backoff
    BY <1>7 DEF Fails, Ends
  <2>2. QED
    BY <1>1, <1>7, <2>1 DEF BootInv
<1>8. QED
  BY <1>1, <1>4, <1>5, <1>6, <1>7

LEMMA BootInitInv == BootInit => BootInv
<1> SUFFICES ASSUME BootInit PROVE BootInv
  OBVIOUS
<1>1. doing = "ended" /\ held = NothingHeld /\ built = FALSE /\ backoff = FALSE
  BY DEF BootInit
<1>2. NothingHeld \in [Resources -> 0..1]
  BY DEF NothingHeld
<1>3. QED
  BY <1>1, <1>2 DEF BootInv

LEMMA StartKeeps ==
  ASSUME BootInv, Start
  PROVE  BootInv'
<1>1. held' = NothingHeld /\ ~built' /\ built' \in BOOLEAN /\ backoff' = FALSE
      /\ environment' = environment
  BY DEF Start, Boots
<1>2. NothingHeld \in [Resources -> 0..1] /\ \A r \in Resources : NothingHeld[r] = 0
  BY DEF NothingHeld
<1>3. CASE Rejects(environment)
  <2>1. doing' = "ended"
    BY <1>3 DEF Start, Boots
  <2>2. QED
    BY <1>1, <1>2, <2>1 DEF BootInv
<1>4. CASE ~Rejects(environment)
  <2>1. doing' = "booting" /\ todo' = PrepareAgentCLI(cfg) \o Construct(cfg) \o Run(cfg)
    BY <1>4 DEF Start, Boots, cfg
  <2>2. cfg' = cfg
    BY <1>1 DEF cfg
  <2>3. Plan(cfg', todo') /\ AcquiresFor(cfg') \union {"shells"} \subseteq Range(todo')
    BY <2>1, <2>2, BootPlan
  <2>4. Booting'
    BY <1>1, <1>2, <2>3, ResourcesOpen DEF Booting
  <2>5. QED
    BY <1>1, <1>2, <2>1, <2>4 DEF BootInv
<1>5. QED
  BY <1>3, <1>4

LEMMA StatCodexAuthKeeps ==
  ASSUME BootInv, StatCodexAuth
  PROVE  BootInv'
<1>1. /\ doing = "booting" /\ todo # <<>> /\ Head(todo) = "auth" /\ ~backoff
      /\ UNCHANGED <<environment, doing, backoff, held, built, fate>>
  BY DEF StatCodexAuth, At
<1>2. CASE auth = "none"
  <2>1. todo' = <<"authCreate", "authWrite">> \o Tail(todo)
    BY <1>2 DEF StatCodexAuth
  <2>2. /\ Plan(cfg, todo')
        /\ Range(todo') = {"authCreate", "authWrite"} \union Range(Tail(todo))
    BY <1>1, <2>1, AuthPlan DEF BootInv, Booting
  <2>3. Range(todo) = {"auth"} \union Range(Tail(todo))
    BY <1>1, HeadIsInPlan
  <2>4. "auth" \notin AcquiresFor(cfg) /\ {"authCreate", "authWrite"} \intersect Acquires = {}
    BY DEF AcquiresFor, Acquires
  <2>5. cfg' = cfg
    BY <1>1 DEF cfg
  <2>6. Booting
    BY <1>1 DEF BootInv
  <2>7. Plan(cfg', todo') /\ (~built' => "shells" \in Range(todo'))
    BY <1>1, <2>2, <2>3, <2>5, <2>6 DEF Booting
  <2>8. \A a \in Acquires : a \in AcquiresFor(cfg) => (a \in Range(todo) <=> a \in Range(todo'))
    BY <2>2, <2>3, <2>4
  <2>9. Booting'
    BY <1>1, <2>5, <2>6, <2>7, <2>8 DEF Booting
  <2>10. QED
    BY <1>1, <2>9 DEF BootInv
<1>3. CASE auth # "none"
  <2>1. todo' = <<>> \o Tail(todo)
    BY <1>3 DEF StatCodexAuth
  <2>2. Tail(todo) \in Seq(Steps)
    BY <1>1, HeadIsInPlan DEF Plan
  <2>3. todo' = Tail(todo)
    BY <2>1, <2>2
  <2>4. Head(todo) \notin Acquires
    BY <1>1 DEF Acquires
  <2>5. QED
    BY <1>1, <2>3, <2>4, AdvanceKeeps
<1>4. QED
  BY <1>2, <1>3

LEMMA CloseKeeps ==
  ASSUME BootInv, Close
  PROVE  BootInv'
<1>1. /\ doing = "closing" /\ Closing /\ built /\ held \in [Resources -> 0..1]
      /\ UNCHANGED <<environment, backoff, built>>
      /\ NothingHeld \in [Resources -> 0..1]
  BY DEF BootInv, Close, NothingHeld
<1>2. CASE todo = <<>>
  <2>1. held' = held /\ doing' = "ended"
    BY <1>2 DEF Close, Ends
  <2>2. \A r \in Resources : held[r] = 0
    BY <1>1, <1>2 DEF Closing
  <2>3. held = NothingHeld
    BY <1>1, <2>2 DEF NothingHeld
  <2>4. QED
    BY <1>1, <2>1, <2>3 DEF BootInv
<1>3. CASE todo # <<>>
  <2>1. held' = Without(Closes(Head(todo))) /\ todo' = Tail(todo) /\ doing' = doing
    BY <1>3 DEF Close
  <2>2. held' \in [Resources -> 0..1]
        /\ \A r \in Resources : held'[r] = IF r \in Closes(Head(todo)) THEN 0 ELSE held[r]
    <3>1. \A r \in Resources : IF r \in Closes(Head(todo)) /\ held[r] > 0
                               THEN held[r] - 1 = 0
                               ELSE held[r] \in 0..1 /\ (r \in Closes(Head(todo)) => held[r] = 0)
      BY <1>1
    <3>2. QED
      BY <2>1, <3>1 DEF Without
  <2>3. /\ DOMAIN todo = 1..Len(todo) /\ Len(todo) \in Nat \ {0}
        /\ Tail(todo) \in Seq(Range(CloseOrder))
        /\ DOMAIN Tail(todo) = 1..(Len(todo) - 1) /\ Head(todo) = todo[1]
        /\ \A i \in 1..(Len(todo) - 1) : Tail(todo)[i] = todo[i + 1]
    BY <1>1, <1>3 DEF Closing
  <2>4. ASSUME NEW r \in Resources, held'[r] = 1
        PROVE  \E k \in DOMAIN Tail(todo) : r \in Closes(Tail(todo)[k])
    <3>1. held[r] = 1 /\ r \notin Closes(Head(todo))
      BY <2>2, <2>4
    <3>2. PICK k \in DOMAIN todo : r \in Closes(todo[k])
      BY <1>1, <3>1 DEF Closing
    <3>3. k # 1 /\ k - 1 \in 1..(Len(todo) - 1)
      BY <2>3, <3>1, <3>2
    <3>4. Tail(todo)[k - 1] = todo[k]
      BY <2>3, <3>2, <3>3
    <3>5. QED
      BY <2>3, <3>2, <3>3, <3>4
  <2>5. Closing'
    BY <2>1, <2>3, <2>4 DEF Closing
  <2>6. backoff => held' = NothingHeld
    <3>1. backoff => \A r \in Resources : held[r] = 0
      BY DEF BootInv, NothingHeld
    <3>2. QED
      BY <2>2, <3>1 DEF NothingHeld
  <2>7. QED
    BY <1>1, <2>1, <2>2, <2>5, <2>6 DEF BootInv
<1>4. QED
  BY <1>2, <1>3

LEMMA AdvancingStepsKeep ==
  ASSUME BootInv,
         Local \/ Acquire \/ StartShellServer \/ Answered \/ ScriptsDone \/ ServersReady
           \/ WriteCodexAuth
  PROVE  BootInv'
<1>1. CASE Acquire
  <2>1. /\ doing = "booting" /\ todo # <<>> /\ ~backoff /\ Head(todo) \in Acquires
        /\ todo' = Tail(todo) /\ UNCHANGED <<environment, doing, backoff, fate, built>>
        /\ held' = [held EXCEPT ![Opens(Head(todo))] = @ + 1]
    BY <1>1 DEF Acquire, At, Advance
  <2>2. Head(todo) # "shells"
    BY <2>1 DEF Acquires
  <2>3. QED
    BY <2>1, <2>2, AdvanceKeeps
<1>2. CASE StartShellServer
  <2>1. /\ doing = "booting" /\ todo # <<>> /\ ~backoff /\ Head(todo) = "shells"
        /\ todo' = Tail(todo) /\ UNCHANGED <<environment, doing, backoff, fate, held>>
        /\ built' = TRUE
    BY <1>2 DEF StartShellServer, At, Advance
  <2>2. Head(todo) \notin Acquires
    BY <2>1 DEF Acquires
  <2>3. QED
    BY <2>1, <2>2, AdvanceKeeps
<1>3. CASE Local \/ Answered \/ ScriptsDone \/ ServersReady \/ WriteCodexAuth
  <2>1. /\ doing = "booting" /\ todo # <<>> /\ ~backoff
        /\ todo' = Tail(todo) /\ UNCHANGED <<environment, doing, backoff, fate, built, held>>
    BY <1>3 DEF Local, Answered, ScriptsDone, ServersReady, WriteCodexAuth, At, Advance
  <2>2. Head(todo) \in Writes \union Calls \union
                        {"resolve", "scripts", "mcpServers", "authCreate", "authWrite"}
    BY <1>3 DEF Local, Answered, ScriptsDone, ServersReady, WriteCodexAuth, At
  <2>3. Head(todo) \notin Acquires /\ Head(todo) # "shells"
    BY <2>2 DEF Acquires, Writes, Calls
  <2>4. QED
    BY <2>1, <2>3, AdvanceKeeps
<1>4. QED
  BY <1>1, <1>2, <1>3

LEMMA FailingStepsKeep ==
  ASSUME BootInv,
         StepFails \/ Refused \/ Abandoned \/ ScriptStartFails \/ ScriptCut \/ WaitEnds
           \/ WriteCodexAuthFails
  PROVE  BootInv'
<1>1. /\ doing = "booting" /\ todo # <<>> /\ ~backoff /\ UNCHANGED <<environment, built>>
      /\ Head(todo) \in Writes \union Acquires \union Calls \union
           {"unsupported", "resolve", "scripts", "mcpServers", "auth", "authCreate", "authWrite"}
  BY DEF StepFails, Refused, Abandoned, ScriptStartFails, ScriptCut, WaitEnds,
         WriteCodexAuthFails, At, Acquires
<1>2. Head(todo) # "shells"
  BY <1>1 DEF Writes, Acquires, Calls
<1>3. \E canceled \in {TRUE, FALSE, cancelled} : Fails(canceled)
  BY DEF StepFails, Refused, Abandoned, ScriptStartFails, ScriptCut, WaitEnds,
         WriteCodexAuthFails
<1>4. QED
  BY <1>1, <1>2, <1>3, FailsKeep

LEMMA OtherStepsKeep ==
  ASSUME BootInv,
         \/ Retry \/ StopsConnecting \/ Serve \/ RunReturns \/ StartScript \/ ScriptKilled
         \/ TurnFails \/ ScriptEnds \/ (\E reply \in Replies : ProbeMCPService(reply))
         \/ Login \/ Terminate \/ Kill \/ UNCHANGED bootVars
  PROVE  BootInv'
<1>1. CASE Retry \/ StartScript \/ ScriptKilled \/ ScriptEnds
           \/ (\E reply \in Replies : ProbeMCPService(reply)) \/ Login \/ Terminate
           \/ UNCHANGED bootVars
  <2>1. UNCHANGED <<environment, doing, todo, held, built, fate>> /\ backoff' \in {backoff, FALSE}
    BY <1>1 DEF Retry, StartScript, ScriptKilled, ScriptEnds, Ran, ProbeMCPService, Login,
                Terminate, bootVars
  <2>2. cfg' = cfg
    BY <2>1 DEF cfg
  <2>3. (Booting => Booting') /\ (Closing => Closing')
    BY <2>1, <2>2 DEF Booting, Closing
  <2>4. backoff' \in BOOLEAN /\ (backoff' => backoff)
    <3>1. CASE backoff' = FALSE
      BY <3>1
    <3>2. CASE UNCHANGED backoff
      <4>1. backoff \in BOOLEAN
        BY DEF BootInv
      <4>2. backoff' \in BOOLEAN
        BY <3>2, <4>1, Zenon
      <4>3. backoff' => backoff
        BY <3>2, Zenon
      <4>4. QED
        BY <4>2, <4>3
    <3>3. QED
      BY <2>1, <3>1, <3>2, Zenon
  <2>5. QED
    BY <2>1, <2>3, <2>4 DEF BootInv
<1>2. CASE StopsConnecting
  <2>1. held = NothingHeld
    BY <1>2, NothingHeldAtFirst DEF StopsConnecting, At, BootInv
  <2>2. /\ doing' = "ended" /\ UNCHANGED <<held, built, backoff>>
    BY <1>2 DEF StopsConnecting, Ends
  <2>3. QED
    BY <2>1, <2>2 DEF BootInv
<1>3. CASE Serve
  <2>1. doing = "booting" /\ todo = <<>> /\ doing' = "serving"
        /\ UNCHANGED <<held, built, backoff>>
    BY <1>3 DEF Serve
  <2>2. Range(todo) = {}
    BY <2>1, NoSteps
  <2>3. built
    BY <2>1, <2>2 DEF BootInv, Booting
  <2>4. QED
    BY <2>1, <2>3 DEF BootInv
<1>4. CASE RunReturns
  <2>1. doing = "serving" /\ doing' = "closing" /\ todo' = CloseOrder
        /\ UNCHANGED <<held, built, backoff>>
    BY <1>4 DEF RunReturns
  <2>2. Closing'
    BY <2>1, ClosesEverything DEF Closing
  <2>3. QED
    BY <2>1, <2>2 DEF BootInv
<1>5. CASE TurnFails \/ Kill
  <2>1. /\ doing' = "ended" /\ UNCHANGED <<held, built, backoff>>
        /\ (fate' = "killed" \/ (doing = "serving" /\ fate' = "fatal"))
    BY <1>5 DEF TurnFails, Kill, Ends
  <2>2. QED
    BY <2>1 DEF BootInv
<1>6. QED
  BY <1>1, <1>2, <1>3, <1>4, <1>5

LEMMA BootStepKeeps == BootInv /\ [BootNext]_bootVars => BootInv'
<1> SUFFICES ASSUME BootInv, [BootNext]_bootVars PROVE BootInv'
  OBVIOUS
<1>1. CASE Own
  BY <1>1, AdvancingStepsKeep, FailingStepsKeep, OtherStepsKeep, StatCodexAuthKeeps, CloseKeeps
     DEF Own
<1>2. CASE Outside
  BY <1>2, AdvancingStepsKeep, FailingStepsKeep, OtherStepsKeep, StartKeeps DEF Outside
<1>3. CASE UNCHANGED bootVars
  BY <1>3, OtherStepsKeep
<1>4. QED
  BY <1>1, <1>2, <1>3 DEF BootNext

LEMMA InvLeavesNothing == BootInv => NothingLeft
BY DEF BootInv, NothingLeft

\* Between two attempts at the platform, when New has failed at any step, and after Close,
\* nothing is left of what was acquired (the error paths of New, and Close).
THEOREM BootLeavesNothing == BootSpec => []NothingLeft
BY BootInitInv, BootStepKeeps, InvLeavesNothing, PTL DEF BootSpec

-----------------------------------------------------------------------------
(* codex's credential. *)

AuthOver == Range(todo) \intersect AuthSteps = {}

\* An auth step is left only while the boot is at one. A login that came in no write of the
\* placeholder stands and nothing is left to write over it; without one, an empty file is
\* one whose write is under way, or was cut short.
CredentialInv ==
  /\ doing = "booting" /\ (backoff \/ built) => AuthOver
  /\ doing \in {"serving", "closing"} => AuthOver
  /\ doing = "booting" /\ "authCreate" \in Range(todo) => "authWrite" \in Range(todo)
  /\ loggedIn /\ ~raced =>
       /\ auth = "login"
       /\ doing = "booting" => {"authCreate", "authWrite"} \intersect Range(todo) = {}
  /\ ~loggedIn /\ ~torn =>
       \/ auth \in {"none", "placeholder"}
       \/ /\ auth = "empty" /\ doing = "booting"
          /\ "authWrite" \in Range(todo) /\ "authCreate" \notin Range(todo)
  /\ doing # "ended" /\ cfg.sdk = "codex" /\ cfg.native /\ AuthOver /\ ~torn /\ ~loggedIn
     => auth = "placeholder"

LEMMA AuthComesFirst ==
  ASSUME BootInv, doing = "booting", todo # <<>>
  PROVE  /\ Range(todo) = {Head(todo)} \union Range(Tail(todo))
         /\ Head(todo) \notin AuthSteps => AuthOver
         /\ Head(todo) = "auth" => {"authCreate", "authWrite"} \intersect Range(todo) = {}
         /\ Head(todo) = "auth" => "auth" \notin Range(Tail(todo))
         /\ Head(todo) = "authCreate" => {"auth", "authCreate"} \intersect Range(Tail(todo)) = {}
         /\ Head(todo) = "authWrite" => AuthSteps \intersect Range(Tail(todo)) = {}
<1>1. /\ Range(todo) = {Head(todo)} \union Range(Tail(todo)) /\ Plan(cfg, todo)
      /\ Head(todo) \in Range(todo) /\ Head(todo) \notin Range(Tail(todo))
      /\ \A x \in Range(Tail(todo)) : Rank(cfg, Head(todo)) < Rank(cfg, x)
  BY HeadIsInPlan DEF BootInv, Booting
<1>2. Rank(cfg, "auth") = 1 /\ Rank(cfg, "authCreate") = 2 /\ Rank(cfg, "authWrite") = 3
  BY DEF Rank
<1>3. \A x \in Steps \ AuthSteps : Rank(cfg, x) >= 4
  BY DEF Steps, AuthSteps, Rank
<1>4. Head(todo) \in Steps
  BY <1>1 DEF Plan, Range
<1>5. Head(todo) \notin AuthSteps => AuthOver
  BY <1>1, <1>2, <1>3, <1>4, RanksAreNumbers DEF AuthSteps, AuthOver
<1>6. Head(todo) = "auth" => {"authCreate", "authWrite"} \intersect Range(todo) = {}
  BY <1>1 DEF Plan
<1>7. Head(todo) = "authCreate" => {"auth", "authCreate"} \intersect Range(Tail(todo)) = {}
  BY <1>1, <1>2
<1>8. Head(todo) = "authWrite" => AuthSteps \intersect Range(Tail(todo)) = {}
  BY <1>1, <1>2 DEF AuthSteps
<1>9. QED
  BY <1>1, <1>5, <1>6, <1>7, <1>8

\* Past the auth steps nothing touches the file but a login.
LEMMA PastAuthKeeps ==
  ASSUME CredentialInv, doing # "ended", AuthOver, AuthOver', UNCHANGED <<environment, authVars>>
  PROVE  CredentialInv'
<1>1. cfg' = cfg /\ UNCHANGED <<auth, loggedIn, torn, raced>>
  BY DEF cfg, authVars
<1>2. {"authCreate", "authWrite"} \intersect Range(todo) = {}
      /\ {"authCreate", "authWrite"} \intersect Range(todo)' = {}
  BY DEF AuthOver, AuthSteps
<1>3. QED
  BY <1>1, <1>2 DEF CredentialInv

LEMMA EndKeepsCredential ==
  ASSUME CredentialInv, doing' = "ended", UNCHANGED <<auth, loggedIn, raced>>,
         ~torn' /\ ~loggedIn => auth \in {"none", "placeholder"}
  PROVE  CredentialInv'
BY DEF CredentialInv

\* The process ends where no write is cut short.
LEMMA CutNowhere ==
  ASSUME BootInv, CredentialInv, ~torn, ~loggedIn,
         doing = "booting" /\ todo # <<>> => Head(todo) # "authWrite"
  PROVE  auth \in {"none", "placeholder"}
<1>1. ASSUME doing = "booting", "authWrite" \in Range(todo), "authCreate" \notin Range(todo)
      PROVE  FALSE
  <2>1. todo # <<>>
    BY <1>1, NoSteps
  <2>2. Head(todo) # "authCreate"
    BY <1>1, <2>1, AuthComesFirst
  <2>3. Head(todo) \notin AuthSteps
    BY <1>1, <2>1, <2>2, AuthComesFirst DEF AuthSteps
  <2>4. QED
    BY <1>1, <2>1, <2>3, AuthComesFirst DEF AuthOver, AuthSteps
<1>2. QED
  BY <1>1 DEF CredentialInv

LEMMA FailureKeepsCredential ==
  ASSUME BootInv, CredentialInv, doing = "booting", todo # <<>>,
         NEW canceled, Fails(canceled), UNCHANGED <<environment, auth, loggedIn, raced>>,
         ~torn' => ~torn /\ Head(todo) # "authWrite",
         Head(todo) \notin AuthSteps => torn' = torn
  PROVE  CredentialInv'
<1>1. CASE doing' = "ended"
  <2>1. ~torn' /\ ~loggedIn => auth \in {"none", "placeholder"}
    BY CutNowhere
  <2>2. QED
    BY <1>1, <2>1, EndKeepsCredential
<1>2. CASE doing' # "ended"
  <2>1. Head(todo) \in Range(ConnectPlatform) \/ built
    BY <1>2 DEF Fails, Ends
  <2>2. Range(ConnectPlatform) \intersect AuthSteps = {}
    BY DEF ConnectPlatform, AuthSteps, Range
  <2>3. AuthOver
    BY <2>1, <2>2, AuthComesFirst DEF CredentialInv
  <2>4. Head(todo) \notin AuthSteps
    BY <2>3, AuthComesFirst DEF AuthOver
  <2>5. todo' = CloseOrder \/ todo' = Construct(cfg) \o Run(cfg)
    BY <1>2 DEF Fails, Ends
  <2>6. AuthOver'
    <3>1. Range(CloseOrder) \intersect AuthSteps = {}
      BY DEF CloseOrder, AuthSteps, Range
    <3>2. \A x \in Range(Construct(cfg) \o Run(cfg)) : Rank(cfg, x) >= 10
      BY NewPlan
    <3>3. \A x \in AuthSteps : Rank(cfg, x) < 10 /\ Rank(cfg, x) \in Nat
      BY DEF AuthSteps, Rank
    <3>4. Range(Construct(cfg) \o Run(cfg)) \intersect AuthSteps = {}
      BY <3>2, <3>3
    <3>5. QED
      BY <2>5, <3>1, <3>4 DEF AuthOver
  <2>7. QED
    BY <1>2, <2>3, <2>4, <2>6, PastAuthKeeps DEF authVars
<1>3. QED
  BY <1>1, <1>2

LEMMA FailingStepsKeepCredential ==
  ASSUME BootInv, CredentialInv,
         StepFails \/ Refused \/ Abandoned \/ ScriptStartFails \/ ScriptCut \/ WaitEnds
           \/ WriteCodexAuthFails
  PROVE  CredentialInv'
<1>1. /\ doing = "booting" /\ todo # <<>> /\ UNCHANGED <<environment, auth, loggedIn, raced>>
      /\ \E canceled \in {TRUE, FALSE, cancelled} : Fails(canceled)
  BY DEF StepFails, Refused, Abandoned, ScriptStartFails, ScriptCut, WaitEnds,
         WriteCodexAuthFails, At, authVars
<1>2. CASE WriteCodexAuthFails
  <2>1. Head(todo) \in AuthSteps /\ torn' = (torn \/ At({"authWrite"}))
    BY <1>2 DEF WriteCodexAuthFails, At, AuthSteps
  <2>2. ~torn' => ~torn /\ ~At({"authWrite"})
    BY <2>1, Zenon
  <2>3. At({"authWrite"}) <=> Head(todo) = "authWrite"
    BY <1>2 DEF WriteCodexAuthFails, At
  <2>4. QED
    BY <1>1, <2>1, <2>2, <2>3, FailureKeepsCredential
<1>3. CASE StepFails \/ Refused \/ Abandoned \/ ScriptStartFails \/ ScriptCut \/ WaitEnds
  <2>1. Head(todo) \in Writes \union Acquires \union Calls \union
                         {"unsupported", "resolve", "scripts", "mcpServers"}
    BY <1>3 DEF StepFails, Refused, Abandoned, ScriptStartFails, ScriptCut, WaitEnds, At, Acquires
  <2>2. Head(todo) \notin AuthSteps /\ torn' = torn
    BY <1>3, <2>1 DEF Writes, Acquires, Calls, AuthSteps, StepFails, Refused, Abandoned,
                      ScriptStartFails, ScriptCut, WaitEnds, authVars
  <2>3. ~torn' => ~torn /\ Head(todo) # "authWrite"
    BY <2>2 DEF AuthSteps
  <2>4. QED
    BY <1>1, <2>2, <2>3, FailureKeepsCredential
<1>4. QED
  BY <1>2, <1>3

LEMMA AuthStepsKeepCredential ==
  ASSUME BootInv, CredentialInv, StatCodexAuth \/ WriteCodexAuth
  PROVE  CredentialInv'
<1>1. /\ doing = "booting" /\ todo # <<>> /\ ~backoff /\ Head(todo) \in AuthSteps
      /\ UNCHANGED <<environment, doing, backoff, built, loggedIn, torn, raced>>
  BY DEF StatCodexAuth, WriteCodexAuth, At, Advance, AuthSteps, authVars
<1>2. cfg' = cfg /\ ~built
  <2>1. ~AuthOver
    BY <1>1, AuthComesFirst DEF AuthOver
  <2>2. QED
    BY <1>1, <2>1 DEF cfg, CredentialInv
<1>3. CASE StatCodexAuth /\ auth = "none"
  <2>1. /\ Head(todo) = "auth" /\ auth' = auth
        /\ todo' = <<"authCreate", "authWrite">> \o Tail(todo)
    BY <1>3 DEF StatCodexAuth, At, authVars
  <2>2. Range(todo') = {"authCreate", "authWrite"} \union Range(Tail(todo))
    BY <1>1, <2>1, AuthPlan DEF BootInv, Booting
  <2>3. "authWrite" \in Range(todo)' /\ ~AuthOver'
    BY <2>2 DEF AuthOver, AuthSteps
  <2>4. loggedIn => raced
    BY <1>3 DEF CredentialInv
  <2>5. QED
    BY <1>1, <1>2, <1>3, <2>1, <2>3, <2>4 DEF CredentialInv
<1>4. CASE StatCodexAuth /\ auth # "none"
  <2>1. Head(todo) = "auth" /\ auth' = auth /\ todo' = <<>> \o Tail(todo)
    BY <1>4 DEF StatCodexAuth, At, authVars
  <2>2. todo' = Tail(todo)
    <3>1. Tail(todo) \in Seq(Steps)
      BY <1>1, HeadIsInPlan DEF Plan
    <3>2. QED
      BY <2>1, <3>1
  <2>3. {"authCreate", "authWrite"} \intersect Range(todo) = {}
        /\ {"authCreate", "authWrite"} \intersect Range(todo)' = {}
    BY <1>1, <2>1, <2>2, AuthComesFirst
  <2>4. ~loggedIn /\ ~torn => auth = "placeholder"
    BY <1>4, <2>3 DEF CredentialInv
  <2>5. QED
    BY <1>1, <1>2, <2>1, <2>3, <2>4 DEF CredentialInv
<1>5. CASE WriteCodexAuth /\ Head(todo) = "authCreate"
  <2>1. auth' = "empty" /\ todo' = Tail(todo)
    BY <1>5 DEF WriteCodexAuth, At, Advance
  <2>2. "authCreate" \in Range(todo) /\ loggedIn => raced
    BY <1>1 DEF CredentialInv
  <2>3. "authCreate" \in Range(todo) /\ "authWrite" \in Range(todo)
    BY <1>1, <1>5, AuthComesFirst DEF CredentialInv
  <2>4. "authWrite" \in Range(todo)' /\ "authCreate" \notin Range(todo)'
    BY <1>1, <1>5, <2>1, <2>3, AuthComesFirst
  <2>5. ~AuthOver'
    BY <2>4 DEF AuthOver, AuthSteps
  <2>6. QED
    BY <1>1, <1>2, <2>1, <2>2, <2>3, <2>4, <2>5 DEF CredentialInv
<1>6. CASE WriteCodexAuth /\ Head(todo) = "authWrite"
  <2>1. auth' = "placeholder" /\ todo' = Tail(todo)
    BY <1>6 DEF WriteCodexAuth, At, Advance
  <2>2. "authWrite" \in Range(todo)
    BY <1>1, <1>6, AuthComesFirst
  <2>3. loggedIn => raced
    BY <1>1, <2>2 DEF CredentialInv
  <2>4. {"authCreate", "authWrite"} \intersect Range(todo)' = {}
    BY <1>1, <1>6, <2>1, AuthComesFirst DEF AuthSteps
  <2>5. QED
    BY <1>1, <1>2, <2>1, <2>3, <2>4 DEF CredentialInv
<1>7. QED
  <2>1. StatCodexAuth \/ (WriteCodexAuth /\ Head(todo) \in {"authCreate", "authWrite"})
    BY DEF StatCodexAuth, WriteCodexAuth, At
  <2>2. QED
    BY <2>1, <1>3, <1>4, <1>5, <1>6

LEMMA LoginKeepsCredential ==
  ASSUME BootInv, CredentialInv, Login
  PROVE  CredentialInv'
<1>1. /\ auth' = "login" /\ loggedIn' = TRUE /\ raced' = At({"authCreate", "authWrite"})
      /\ UNCHANGED <<environment, doing, todo, backoff, built>>
  BY DEF Login
<1>2. ~raced' => ~At({"authCreate", "authWrite"})
  BY <1>1, Zenon
<1>3. ASSUME doing = "booting", ~At({"authCreate", "authWrite"})
      PROVE  {"authCreate", "authWrite"} \intersect Range(todo) = {}
  <2>1. CASE backoff
    BY <1>3, <2>1 DEF CredentialInv, AuthOver, AuthSteps
  <2>2. CASE todo = <<>>
    BY <2>2, NoSteps
  <2>3. CASE ~backoff /\ todo # <<>>
    <3>1. Head(todo) \notin {"authCreate", "authWrite"}
      BY <1>3, <2>3 DEF At
    <3>2. Head(todo) = "auth" \/ Head(todo) \notin AuthSteps
      BY <3>1 DEF AuthSteps
    <3>3. QED
      BY <1>3, <2>3, <3>2, AuthComesFirst DEF AuthOver, AuthSteps
  <2>4. QED
    BY <2>1, <2>2, <2>3
<1>4. loggedIn'
  BY <1>1
<1>5. AuthOver' = AuthOver
  BY <1>1 DEF AuthOver
<1>6. doing = "booting" /\ ~raced' => {"authCreate", "authWrite"} \intersect Range(todo) = {}
  BY <1>2, <1>3
<1>7. QED
  BY <1>1, <1>4, <1>5, <1>6 DEF CredentialInv

LEMMA StartKeepsCredential ==
  ASSUME BootInv, CredentialInv, Start
  PROVE  CredentialInv'
<1>1. /\ doing = "ended" /\ backoff' = FALSE /\ built' = FALSE
      /\ UNCHANGED <<environment, auth, loggedIn, torn, raced>>
  BY DEF Start, Boots, authVars
<1>2. cfg' = cfg
  BY <1>1 DEF cfg
<1>3. ~loggedIn /\ ~torn => auth \in {"none", "placeholder"}
  BY <1>1 DEF CredentialInv
<1>4. CASE Rejects(environment)
  <2>1. doing' = "ended"
    BY <1>4 DEF Start, Boots
  <2>2. QED
    BY <1>1, <1>3, <2>1 DEF CredentialInv
<1>5. CASE ~Rejects(environment)
  <2>1. doing' = "booting" /\ todo' = PrepareAgentCLI(cfg) \o Construct(cfg) \o Run(cfg)
    BY <1>5 DEF Start, Boots, cfg
  <2>2. {"authCreate", "authWrite"} \intersect Range(todo)' = {}
        /\ (cfg.sdk = "codex" /\ cfg.native => "auth" \in Range(todo)')
    BY <2>1, BootPlan
  <2>3. cfg.sdk = "codex" /\ cfg.native => ~AuthOver'
    BY <2>2 DEF AuthOver, AuthSteps
  <2>4. QED
    BY <1>1, <1>2, <1>3, <2>1, <2>2, <2>3 DEF CredentialInv
<1>6. QED
  BY <1>4, <1>5

LEMMA OtherStepsKeepCredential ==
  ASSUME BootInv, CredentialInv,
         \/ Local \/ Acquire \/ Retry \/ StartShellServer \/ Serve \/ RunReturns \/ Close
         \/ Answered \/ ScriptsDone \/ ServersReady
  PROVE  CredentialInv'
<1>1. CASE Local \/ Acquire \/ StartShellServer \/ Answered \/ ScriptsDone \/ ServersReady
  <2>1. /\ doing = "booting" /\ todo # <<>> /\ doing' = doing /\ todo' = Tail(todo)
        /\ UNCHANGED <<environment, authVars>>
        /\ Head(todo) \in Writes \union Acquires \union Calls \union
                           {"shells", "resolve", "scripts", "mcpServers"}
    BY <1>1 DEF Local, Acquire, StartShellServer, Answered, ScriptsDone, ServersReady, At, Advance
  <2>2. Head(todo) \notin AuthSteps
    BY <2>1 DEF Writes, Acquires, Calls, AuthSteps
  <2>3. AuthOver /\ AuthOver'
    BY <2>1, <2>2, AuthComesFirst DEF AuthOver
  <2>4. QED
    BY <2>1, <2>3, PastAuthKeeps
<1>2. CASE Retry
  <2>1. AuthOver /\ doing = "booting" /\ UNCHANGED <<environment, doing, todo, authVars>>
    BY <1>2 DEF Retry, CredentialInv
  <2>2. AuthOver'
    BY <2>1 DEF AuthOver
  <2>3. QED
    BY <2>1, <2>2, PastAuthKeeps
<1>3. CASE Serve
  <2>1. AuthOver /\ AuthOver'
    BY <1>3, NoSteps DEF Serve, AuthOver
  <2>2. QED
    BY <1>3, <2>1, PastAuthKeeps DEF Serve
<1>4. CASE RunReturns
  <2>1. AuthOver
    BY <1>4 DEF RunReturns, CredentialInv
  <2>2. AuthOver'
    BY <1>4 DEF RunReturns, AuthOver, AuthSteps, CloseOrder, Range
  <2>3. QED
    BY <1>4, <2>1, <2>2, PastAuthKeeps DEF RunReturns
<1>5. CASE Close
  <2>1. doing = "closing" /\ AuthOver /\ UNCHANGED <<environment, authVars>>
    BY <1>5 DEF Close, CredentialInv
  <2>2. AuthOver'
    <3>1. CASE todo = <<>>
      BY <1>5, <2>1, <3>1 DEF Close, AuthOver
    <3>2. CASE todo # <<>>
      <4>1. todo' = Tail(todo) /\ todo \in Seq(Range(CloseOrder))
        BY <1>5, <2>1, <3>2 DEF Close, BootInv, Closing
      <4>2. todo' \in Seq(Range(CloseOrder))
        BY <3>2, <4>1
      <4>3. Range(CloseOrder) \intersect AuthSteps = {}
        BY DEF CloseOrder, AuthSteps, Range
      <4>4. Range(todo)' \subseteq Range(CloseOrder)
        BY <4>2 DEF Range
      <4>5. QED
        BY <4>3, <4>4 DEF AuthOver
    <3>3. QED
      BY <3>1, <3>2
  <2>3. QED
    BY <2>1, <2>2, PastAuthKeeps
<1>6. QED
  BY <1>1, <1>2, <1>3, <1>4, <1>5

LEMMA QuietStepsKeepCredential ==
  ASSUME BootInv, CredentialInv,
         \/ StartScript \/ ScriptKilled \/ ScriptEnds
         \/ (\E reply \in Replies : ProbeMCPService(reply)) \/ Terminate \/ UNCHANGED bootVars
  PROVE  CredentialInv'
<1>1. UNCHANGED <<environment, doing, todo, backoff, built, auth, loggedIn, torn, raced>>
  BY DEF StartScript, ScriptKilled, ScriptEnds, Ran, ProbeMCPService, Terminate, bootVars, authVars
<1>2. cfg' = cfg /\ (AuthOver' <=> AuthOver)
  BY <1>1 DEF cfg, AuthOver
<1>3. QED
  BY <1>1, <1>2 DEF CredentialInv

LEMMA EndingsKeepCredential ==
  ASSUME BootInv, CredentialInv, StopsConnecting \/ TurnFails \/ Kill
  PROVE  CredentialInv'
<1>1. doing' = "ended" /\ UNCHANGED <<auth, loggedIn, raced>>
  BY DEF StopsConnecting, TurnFails, Kill, Ends, authVars
<1>2. CASE StopsConnecting \/ TurnFails
  <2>1. torn' = torn /\ (doing = "booting" /\ todo # <<>> => backoff \/ Head(todo) = "dial")
    BY <1>2 DEF StopsConnecting, TurnFails, At, authVars
  <2>2. doing = "booting" /\ todo # <<>> => Head(todo) # "authWrite"
    BY <2>1, AuthComesFirst DEF CredentialInv, AuthOver, AuthSteps
  <2>3. ~torn' /\ ~loggedIn => auth \in {"none", "placeholder"}
    BY <2>1, <2>2, CutNowhere
  <2>4. QED
    BY <1>1, <2>3, EndKeepsCredential
<1>3. CASE Kill
  <2>1. torn' = (torn \/ At({"authWrite"}))
    BY <1>3 DEF Kill
  <2>2. ~torn' => ~torn /\ ~At({"authWrite"})
    BY <2>1, Zenon
  <2>3. doing = "booting" /\ todo # <<>> /\ backoff => Head(todo) # "authWrite"
    BY AuthComesFirst DEF CredentialInv, AuthOver, AuthSteps
  <2>4. ~At({"authWrite"}) => (doing = "booting" /\ todo # <<>> => Head(todo) # "authWrite")
    BY <2>3 DEF At
  <2>5. ~torn' /\ ~loggedIn => auth \in {"none", "placeholder"}
    BY <2>2, <2>4, CutNowhere
  <2>6. QED
    BY <1>1, <2>5, EndKeepsCredential
<1>4. QED
  BY <1>2, <1>3

LEMMA CredentialStepKeeps == BootInv /\ CredentialInv /\ [BootNext]_bootVars => CredentialInv'
<1> SUFFICES ASSUME BootInv, CredentialInv, [BootNext]_bootVars PROVE CredentialInv'
  OBVIOUS
<1>1. CASE Own
  BY <1>1, FailingStepsKeepCredential, AuthStepsKeepCredential, OtherStepsKeepCredential,
     QuietStepsKeepCredential, EndingsKeepCredential DEF Own
<1>2. CASE Outside
  BY <1>2, StartKeepsCredential, LoginKeepsCredential, FailingStepsKeepCredential,
     OtherStepsKeepCredential, QuietStepsKeepCredential, EndingsKeepCredential DEF Outside
<1>3. CASE UNCHANGED bootVars
  BY <1>3, QuietStepsKeepCredential
<1>4. QED
  BY <1>1, <1>2, <1>3 DEF BootNext

\* What a native codex finds as its credential is the login somebody made, if one was, and
\* otherwise the whole placeholder, unless a write of it was cut short or raced with the
\* login (writeCodexAuth leaves a file that exists alone, whatever it holds).
THEOREM BootCredentialStands == BootSpec => []CredentialStands
<1>1. BootInit => BootInv /\ CredentialInv
  <2>1. BootInit => CredentialInv
    BY DEF BootInit, CredentialInv
  <2>2. QED
    BY <2>1, BootInitInv
<1>2. BootInv /\ CredentialInv /\ [BootNext]_bootVars => BootInv' /\ CredentialInv'
  BY BootStepKeeps, CredentialStepKeeps
<1>3. CredentialInv => CredentialStands
  BY DEF CredentialInv, CredentialStands, AuthOver
<1>4. QED
  BY <1>1, <1>2, <1>3, PTL DEF BootSpec

-----------------------------------------------------------------------------
(* The init scripts of a scope, in order. *)

Of(scope) == {s \in Scripts : s.scope = scope}
Before(scope, s) == {t \in Of(scope) : Earlier(t, s)}

LEMMA EarlierOrders ==
  /\ \A s \in Scripts : ~Earlier(s, s)
  /\ \A s, t, u \in Scripts : Earlier(s, t) /\ Earlier(t, u) => Earlier(s, u)
  /\ \A s, t \in Scripts : s # t => Earlier(s, t) \/ Earlier(t, s)
<1>1. \A s \in Scripts : s.created \in Int /\ s.id \in Int
  BY BootConstants
<1>2. \A s, t \in Scripts : s.id = t.id => s = t
  BY BootConstants
<1>3. QED
  BY <1>1, <1>2 DEF Earlier

LEMMA BeforeCounts ==
  ASSUME NEW scope, NEW s \in Of(scope)
  PROVE  /\ IsFiniteSet(Of(scope)) /\ Cardinality(Of(scope)) \in Nat
         /\ Cardinality(Before(scope, s)) \in 0..(Cardinality(Of(scope)) - 1)
         /\ \A t \in Of(scope) :
              Earlier(s, t) => Cardinality(Before(scope, s)) < Cardinality(Before(scope, t))
<1>1. IsFiniteSet(Of(scope))
  <2>1. Of(scope) \in SUBSET Scripts
    BY DEF Of
  <2>2. QED
    BY <2>1, BootConstants, FS_Subset
<1>2. ASSUME NEW T \in SUBSET Of(scope), NEW U \in SUBSET Of(scope),
             T \subseteq U, T # U
      PROVE  /\ Cardinality(T) \in Nat /\ Cardinality(U) \in Nat
             /\ Cardinality(T) < Cardinality(U)
  <2>1. IsFiniteSet(U)
    BY <1>1, FS_Subset
  <2>2. T \in SUBSET U
    BY <1>2
  <2>3. IsFiniteSet(T) /\ Cardinality(T) <= Cardinality(U) /\ Cardinality(T) # Cardinality(U)
    BY <1>2, <2>1, <2>2, FS_Subset
  <2>4. Cardinality(T) \in Nat /\ Cardinality(U) \in Nat
    BY <2>1, <2>3, FS_CardinalityType
  <2>5. QED
    BY <2>3, <2>4
<1>3. /\ Before(scope, s) \in SUBSET Of(scope) /\ s \notin Before(scope, s)
      /\ \A t \in Of(scope) : Before(scope, t) \in SUBSET Of(scope)
  BY EarlierOrders DEF Before, Of
<1>4. Before(scope, s) # Of(scope)
  BY <1>3
<1>5. /\ Cardinality(Before(scope, s)) \in Nat /\ Cardinality(Of(scope)) \in Nat
      /\ Cardinality(Before(scope, s)) < Cardinality(Of(scope))
  BY <1>2, <1>3, <1>4
<1>6. ASSUME NEW t \in Of(scope), Earlier(s, t)
      PROVE  Cardinality(Before(scope, s)) < Cardinality(Before(scope, t))
  <2>1. s \in Before(scope, t)
    BY <1>6 DEF Before
  <2>2. Before(scope, s) \subseteq Before(scope, t)
    BY <1>6, EarlierOrders DEF Before, Of
  <2>3. Before(scope, s) # Before(scope, t)
    BY <1>3, <2>1
  <2>4. QED
    BY <1>2, <1>3, <2>2, <2>3
<1>7. QED
  BY <1>1, <1>5, <1>6

\* Sorted, the scripts of a scope are each there once, in creation order.
LEMMA ListedInOrder ==
  ASSUME NEW scope
  PROVE  /\ Listed(scope) \in Seq(Scripts) /\ Range(Listed(scope)) = Of(scope)
         /\ \A i, j \in DOMAIN Listed(scope) :
              i < j => Earlier(Listed(scope)[i], Listed(scope)[j])
<1> DEFINE n == Cardinality(Of(scope))
           place == [s \in Of(scope) |-> Cardinality(Before(scope, s)) + 1]
           sorted == Listed(scope)
<1>1. IsFiniteSet(Of(scope)) /\ n \in Nat
  <2>1. Of(scope) \in SUBSET Scripts
    BY DEF Of
  <2>2. IsFiniteSet(Of(scope))
    BY <2>1, BootConstants, FS_Subset
  <2>3. QED
    BY <2>2, FS_CardinalityType
<1>2. place \in [Of(scope) -> 1..n]
  <2>1. ASSUME NEW s \in Of(scope) PROVE Cardinality(Before(scope, s)) + 1 \in 1..n
    <3>1. Cardinality(Before(scope, s)) \in 0..(n - 1)
      BY BeforeCounts
    <3>2. QED
      BY <1>1, <3>1
  <2>2. QED
    BY <2>1
<1>3. \A s, t \in Of(scope) : Earlier(s, t) => place[s] < place[t]
  <2>1. ASSUME NEW s \in Of(scope), NEW t \in Of(scope), Earlier(s, t)
        PROVE  place[s] < place[t]
    <3>1. /\ Cardinality(Before(scope, s)) \in 0..(n - 1)
          /\ Cardinality(Before(scope, t)) \in 0..(n - 1)
          /\ Cardinality(Before(scope, s)) < Cardinality(Before(scope, t))
      BY <2>1, BeforeCounts
    <3>2. QED
      BY <1>1, <3>1
  <2>2. QED
    BY <2>1
<1>4. \A s, t \in Of(scope) : s # t => place[s] # place[t]
  <2>1. \A s, t \in Of(scope) : s # t => Earlier(s, t) \/ Earlier(t, s)
    BY EarlierOrders DEF Of
  <2>2. \A s \in Of(scope) : place[s] \in Int
    BY <1>2
  <2>3. QED
    BY <1>3, <2>1, <2>2
<1>5. \A i \in 1..n : \E s \in Of(scope) : place[s] = i
  <2>1. place \in Injection(Of(scope), 1..n)
    BY <1>2, <1>4 DEF Injection, IsInjective
  <2>2. IsFiniteSet(1..n) /\ Cardinality(1..n) = n
    <3>1. 1 \in Int /\ n \in Int
      BY <1>1
    <3>2. IsFiniteSet(1..n) /\ Cardinality(1..n) = IF 1 > n THEN 0 ELSE n - 1 + 1
      BY <3>1, FS_Interval
    <3>3. QED
      BY <1>1, <3>2
  <2>3. place \in Surjection(Of(scope), 1..n)
    BY <2>1, <2>2, FS_Injection
  <2>4. QED
    BY <2>3 DEF Surjection
<1>6. /\ DOMAIN sorted = 1..n
      /\ \A i \in 1..n : sorted[i] = CHOOSE s \in Of(scope) : Cardinality(Before(scope, s)) = i - 1
  BY DEF Listed, Of, Before
<1>7. ASSUME NEW i \in 1..n PROVE sorted[i] \in Of(scope) /\ place[sorted[i]] = i
  <2>1. PICK s \in Of(scope) : place[s] = i
    BY <1>5
  <2>2. Cardinality(Before(scope, s)) \in Nat
    <3>1. Cardinality(Before(scope, s)) \in 0..(n - 1)
      BY BeforeCounts
    <3>2. QED
      BY <3>1
  <2>3. Cardinality(Before(scope, s)) = i - 1
    BY <1>1, <2>1, <2>2
  <2>4. sorted[i] \in Of(scope) /\ Cardinality(Before(scope, sorted[i])) = i - 1
    BY <1>6, <2>3
  <2>5. QED
    BY <1>1, <2>4
<1>8. sorted \in Seq(Scripts)
  <2>1. \A i \in 1..n : sorted[i] \in Scripts
    BY <1>7 DEF Of
  <2>2. sorted = [i \in 1..n |->
                    CHOOSE s \in Of(scope) : Cardinality(Before(scope, s)) = i - 1]
    BY DEF Listed, Of, Before
  <2> HIDE DEF sorted, n
  <2>3. sorted \in [1..n -> Scripts]
    BY <2>1, <2>2
  <2>4. QED
    BY <1>1, <2>3
<1>9. Range(sorted) = Of(scope)
  <2>1. Range(sorted) \subseteq Of(scope)
    BY <1>6, <1>7 DEF Range
  <2>2. ASSUME NEW s \in Of(scope) PROVE s \in Range(sorted)
    <3>1. place[s] \in 1..n
      BY <1>2
    <3>2. sorted[place[s]] \in Of(scope) /\ place[sorted[place[s]]] = place[s]
      BY <1>7, <3>1
    <3>3. sorted[place[s]] = s
      BY <1>4, <3>2
    <3>4. QED
      BY <1>6, <3>1, <3>3 DEF Range
  <2>3. QED
    BY <2>1, <2>2
<1>10. ASSUME NEW i \in 1..n, NEW j \in 1..n, i < j PROVE Earlier(sorted[i], sorted[j])
  <2>1. /\ sorted[i] \in Of(scope) /\ place[sorted[i]] = i
        /\ sorted[j] \in Of(scope) /\ place[sorted[j]] = j
    BY <1>7
  <2>2. sorted[i] # sorted[j]
    BY <1>1, <1>10, <2>1
  <2>3. ~Earlier(sorted[j], sorted[i])
    <3>1. Earlier(sorted[j], sorted[i]) => j < i
      BY <1>3, <2>1
    <3>2. QED
      BY <1>10, <3>1
  <2>4. sorted[i] \in Scripts /\ sorted[j] \in Scripts
    BY <2>1 DEF Of
  <2>5. QED
    BY <2>2, <2>3, <2>4, EarlierOrders
<1>11. QED
  BY <1>6, <1>8, <1>9, <1>10

-----------------------------------------------------------------------------
(* What a boot goes through of what a CLI finds prepared. *)

Rest(c) == Construct(c) \o Run(c)

LEMMA RunChores ==
  ASSUME NEW c
  PROVE  /\ Run(c) \in Seq(Steps)
         /\ Range(Run(c)) \intersect Chores = IF Holder(c) THEN Chosen(c) ELSE {}
<1> DEFINE A == <<"shells">>
           B == <<"chdir">>
           C == When(c.named, RunInitScripts(c))
           t == When(c.mode = "holder", B \o C)
<1>1. "shells" \in Steps /\ "chdir" \in Steps
  BY DEF Steps
<1>2. /\ A \in Seq(Steps) /\ Range(A) = {"shells"}
      /\ B \in Seq(Steps) /\ Range(B) = {"chdir"}
  BY <1>1, OneStep DEF Part
<1>3. C \in Seq(Steps) /\ Range(C) = IF c.named THEN ScriptChores(c) ELSE {}
  <2>1. CASE c.named
    BY <2>1, ScriptsRange DEF When
  <2>2. CASE ~c.named
    <3>1. C = <<>>
      BY <2>2 DEF When
    <3>2. QED
      BY <2>2, <3>1, NoSteps DEF Part
  <2>3. QED
    BY <2>1, <2>2
<1>4. Run(c) = A \o t
  BY DEF Run
<1>5. t = IF Holder(c) THEN B \o C ELSE <<>>
  BY DEF When, Holder
<1> HIDE DEF A, B, C, t
<1>6. B \o C \in Seq(Steps) /\ Range(B \o C) = Range(B) \union Range(C)
  BY <1>2, <1>3, ConcatRange
<1>7. t \in Seq(Steps) /\ Range(t) = IF Holder(c) THEN Range(B) \union Range(C) ELSE {}
  <2>1. CASE Holder(c)
    BY <1>5, <1>6, <2>1
  <2>2. CASE ~Holder(c)
    BY <1>5, <2>2, NoSteps DEF Part
  <2>3. QED
    BY <2>1, <2>2
<1>8. Run(c) \in Seq(Steps) /\ Range(Run(c)) = Range(A) \union Range(t)
  BY <1>2, <1>4, <1>7, ConcatRange
<1>9. CASE Holder(c)
  BY <1>2, <1>3, <1>7, <1>8, <1>9 DEF Chosen, ScriptChores, Chores
<1>10. CASE ~Holder(c)
  BY <1>2, <1>7, <1>8, <1>10 DEF Chores
<1>11. QED
  BY <1>9, <1>10

LEMMA RestChores ==
  \A c : /\ Rest(c) \in Seq(Steps)
         /\ Range(Rest(c)) = Range(Construct(c)) \union Range(Run(c))
         /\ Range(Rest(c)) \intersect Chores = Chosen(c)
         /\ \A x \in Range(Rest(c)) : Rank(c, x) >= 10
<1> SUFFICES ASSUME NEW c
             PROVE  /\ Rest(c) \in Seq(Steps)
                    /\ Range(Rest(c)) = Range(Construct(c)) \union Range(Run(c))
                    /\ Range(Rest(c)) \intersect Chores = Chosen(c)
                    /\ \A x \in Range(Rest(c)) : Rank(c, x) >= 10
  OBVIOUS
<1>1. /\ Construct(c) \in Seq(Steps)
      /\ Range(Construct(c)) \intersect Chores = IF Holder(c) THEN {} ELSE Chosen(c)
  BY NewConstructs DEF Constructs, Part
<1>2. /\ Run(c) \in Seq(Steps)
      /\ Range(Run(c)) \intersect Chores = IF Holder(c) THEN Chosen(c) ELSE {}
  BY RunChores
<1>3. /\ Rest(c) \in Seq(Steps)
      /\ Range(Rest(c)) = Range(Construct(c)) \union Range(Run(c))
  BY <1>1, <1>2, ConcatRange DEF Rest
<1>4. QED
  BY <1>1, <1>2, <1>3, NewPlan DEF Rest

LEMMA BootChores ==
  \A c : LET s == PrepareAgentCLI(c) \o Construct(c) \o Run(c) IN
         /\ Range(Rest(c)) \subseteq Range(s)
         /\ Range(s) \intersect Chores = Chosen(c)
<1> SUFFICES ASSUME NEW c
             PROVE  LET s == PrepareAgentCLI(c) \o Construct(c) \o Run(c) IN
                    /\ Range(Rest(c)) \subseteq Range(s)
                    /\ Range(s) \intersect Chores = Chosen(c)
  OBVIOUS
<1> DEFINE P == PrepareAgentCLI(c)
           A == Construct(c)
           B == Run(c)
           PA == P \o A
<1>1. P \in Seq(Steps) /\ Range(P) \intersect Chores = {}
  BY PreparePart DEF Part, Chores
<1>2. A \in Seq(Steps) /\ B \in Seq(Steps)
  BY NewConstructs, RunChores DEF Constructs, Part
<1>3. Range(Rest(c)) = Range(A) \union Range(B) /\ Range(Rest(c)) \intersect Chores = Chosen(c)
  BY RestChores
<1> HIDE DEF P, A, B
<1>4. PA \in Seq(Steps) /\ Range(PA) = Range(P) \union Range(A)
  BY <1>1, <1>2, ConcatRange
<1> HIDE DEF PA
<1>5. Range(PA \o B) = Range(PA) \union Range(B)
  BY <1>2, <1>4, ConcatRange
<1>6. /\ Range(Rest(c)) \subseteq Range(PA \o B)
      /\ Range(PA \o B) \intersect Chores = Chosen(c)
  BY <1>1, <1>3, <1>4, <1>5
<1>7. QED
  BY <1>6 DEF P, A, B, PA

\* Nothing is left out between a step that is left and the end of the plan.
Upward(c, s) ==
  \A x \in Range(s), y \in Range(Rest(c)) : Rank(c, x) < Rank(c, y) => y \in Range(s)

LEMMA UpwardTail ==
  ASSUME NEW c, NEW s, Plan(c, s), s # <<>>, Upward(c, s)
  PROVE  Upward(c, Tail(s))
<1>1. /\ Range(s) = {Head(s)} \union Range(Tail(s))
      /\ \A x \in Range(Tail(s)) : Rank(c, Head(s)) < Rank(c, x)
  BY PlanTail
<1>2. ASSUME NEW x \in Range(Tail(s)), NEW y \in Range(Rest(c)), Rank(c, x) < Rank(c, y)
      PROVE  y \in Range(Tail(s))
  <2>1. Rank(c, Head(s)) < Rank(c, x)
    BY <1>1
  <2>2. y # Head(s)
    BY <1>2, <2>1, RanksAreNumbers
  <2>3. y \in Range(s)
    BY <1>1, <1>2 DEF Upward
  <2>4. QED
    BY <1>1, <2>2, <2>3
<1>3. QED
  BY <1>2 DEF Upward

LEMMA UpwardAuth ==
  ASSUME NEW c, NEW s, Plan(c, s), s # <<>>, Head(s) = "auth", Upward(c, s)
  PROVE  Upward(c, <<"authCreate", "authWrite">> \o Tail(s))
<1> DEFINE t == <<"authCreate", "authWrite">> \o Tail(s)
<1>1. Range(t) = {"authCreate", "authWrite"} \union Range(Tail(s))
  BY AuthPlan
<1>2. Range(s) = {"auth"} \union Range(Tail(s))
  BY PlanTail
<1>3. /\ Rank(c, "auth") = 1
      /\ \A y \in Range(Rest(c)) : Rank(c, y) >= 10
  BY RestChores DEF Rank
<1>4. \A y \in Range(Rest(c)) : y \in Range(s)
  BY <1>2, <1>3, RanksAreNumbers DEF Upward
<1>5. \A y \in Range(Rest(c)) : y \in Range(Tail(s))
  BY <1>2, <1>3, <1>4
<1> HIDE DEF t
<1>6. Upward(c, t)
  BY <1>1, <1>5 DEF Upward
<1>7. QED
  BY <1>6 DEF t

\* x is a step of this boot, and behind it.
Past(x) == x \in Chosen(cfg) /\ x \notin Range(todo)

Collected ==
  When(Past("listEnvironment"), Listed("environment")) \o When(Past("listAgent"), Listed("agent"))

\* What was listed is what the steps behind the boot list, all of it ran once its step is
\* behind, and every server was probed once that step is.
Preparing ==
  /\ cfg.mode \in {"agent", "holder"}
  /\ Upward(cfg, todo)
  /\ Range(todo) \intersect Chores \subseteq Chosen(cfg)
  /\ ~Past("unsupported")
  /\ listed = Collected
  /\ Past("scripts") => Len(ran) = Len(listed)
  /\ Past("mcpServers") => Len(probed) = Len(cfg.servers)

\* The scripts that ran are the first of those listed, and only one that was killed has
\* not ended by itself.
Lists ==
  /\ listed \in Seq(Scripts)
  /\ ran \in Seq([script : Scripts, how : {"ended", "killed"}]) /\ Len(ran) <= Len(listed)
  /\ running => Len(ran) < Len(listed)
  /\ \A i \in DOMAIN ran : ran[i].script = listed[i] /\ (ran[i].how = "killed" => cancelled)
  /\ probed \in Seq({TRUE}) /\ Len(probed) <= Len(cfg.servers)

-----------------------------------------------------------------------------
(* The lists through the steps. *)

LEMMA ListsHold ==
  ASSUME Lists, UNCHANGED <<environment, scriptVars, probed>>, cancelled => cancelled'
  PROVE  Lists'
<1>1. UNCHANGED <<listed, running, ran, probed>> /\ cfg' = cfg
  BY DEF scriptVars, cfg
<1>2. /\ listed' \in Seq(Scripts)
      /\ ran' \in Seq([script : Scripts, how : {"ended", "killed"}]) /\ Len(ran') <= Len(listed')
      /\ probed' \in Seq({TRUE}) /\ Len(probed') <= Len(cfg'.servers)
  BY <1>1 DEF Lists
<1>3. running' => Len(ran') < Len(listed')
  <2>1. running' => running
    BY <1>1, Zenon
  <2>2. QED
    BY <1>1, <2>1 DEF Lists
<1>4. \A i \in DOMAIN ran' : ran'[i].script = listed'[i] /\ (ran'[i].how = "killed" => cancelled')
  BY <1>1 DEF Lists
<1>5. QED
  BY <1>2, <1>3, <1>4 DEF Lists

LEMMA AnsweredLists ==
  ASSUME Lists, Answered
  PROVE  Lists' /\ (Head(todo) \in {"getAgent", "listSkills"} => listed' = listed)
<1> DEFINE new == CASE At({"listEnvironment"}) -> Listed("environment")
                    [] At({"listAgent"}) -> Listed("agent")
                    [] OTHER -> <<>>
<1>1. /\ listed' = listed \o new
      /\ UNCHANGED <<environment, running, ran, probed, cancelled>>
  BY DEF Answered
<1>2. new \in {<<>>, Listed("environment"), Listed("agent")}
  OBVIOUS
<1>3. Head(todo) \in {"getAgent", "listSkills"} => new = <<>>
  BY DEF At
<1> HIDE DEF new
<1>4. listed \in Seq(Scripts) /\ new \in Seq(Scripts) /\ cfg' = cfg
  <2>1. <<>> \in Seq(Scripts)
    OBVIOUS
  <2>2. QED
    BY <1>1, <1>2, <2>1, ListedInOrder DEF Lists, cfg
<1>5. /\ listed' \in Seq(Scripts) /\ Len(listed) <= Len(listed')
      /\ Len(listed) \in Nat /\ Len(listed') \in Nat
      /\ \A i \in 1..Len(listed) : listed'[i] = listed[i]
  BY <1>1, <1>4
<1>6. /\ ran' = ran /\ ran \in Seq([script : Scripts, how : {"ended", "killed"}])
      /\ Len(ran) \in Nat /\ DOMAIN ran = 1..Len(ran) /\ Len(ran) <= Len(listed)
  BY <1>1 DEF Lists
<1>7. running' => Len(ran') < Len(listed')
  <2>1. running' => running
    BY <1>1, Zenon
  <2>2. QED
    BY <1>5, <1>6, <2>1 DEF Lists
<1>8. \A i \in DOMAIN ran' : ran'[i].script = listed'[i] /\ (ran'[i].how = "killed" => cancelled')
  <2>1. \A i \in DOMAIN ran : i \in 1..Len(listed)
    BY <1>5, <1>6
  <2>2. cancelled => cancelled'
    BY <1>1, Zenon
  <2>3. QED
    BY <1>5, <1>6, <2>1, <2>2 DEF Lists
<1>9. probed' \in Seq({TRUE}) /\ Len(probed') <= Len(cfg'.servers)
  BY <1>1, <1>4 DEF Lists
<1>10. Len(ran') <= Len(listed')
  BY <1>5, <1>6
<1>11. Head(todo) \in {"getAgent", "listSkills"} => listed' = listed
  BY <1>1, <1>3, <1>4
<1>12. QED
  BY <1>5, <1>6, <1>7, <1>8, <1>9, <1>10, <1>11 DEF Lists

LEMMA RanLists ==
  ASSUME Lists, running, NEW how \in {"ended", "killed"}, Ran(how), how = "killed" => cancelled
  PROVE  Lists'
<1> DEFINE one == [script |-> listed[Len(ran) + 1], how |-> how]
           R == [script : Scripts, how : {"ended", "killed"}]
<1>1. /\ running' = FALSE /\ ran' = Append(ran, one)
      /\ UNCHANGED <<environment, listed, probed, cancelled>> /\ cfg' = cfg
  BY DEF Ran, cfg
<1>2. /\ listed \in Seq(Scripts) /\ ran \in Seq(R) /\ Len(ran) < Len(listed)
      /\ Len(ran) \in Nat /\ Len(listed) \in Nat
  BY DEF Lists
<1>3. Len(ran) + 1 \in 1..Len(listed) /\ listed[Len(ran) + 1] \in Scripts
  BY <1>2
<1>4. one \in R
  BY <1>3
<1>5. one.script = listed[Len(ran) + 1] /\ one.how = how
  OBVIOUS
<1> HIDE DEF one, R
<1>6. /\ ran' \in Seq(R) /\ Len(ran') = Len(ran) + 1 /\ DOMAIN ran' = 1..(Len(ran) + 1)
      /\ ran'[Len(ran) + 1] = one
      /\ \A i \in 1..Len(ran) : ran'[i] = ran[i]
      /\ DOMAIN ran = 1..Len(ran)
  BY <1>1, <1>2, <1>4
<1>7. cancelled => cancelled'
  BY <1>1, Zenon
<1>8. ASSUME NEW i \in DOMAIN ran'
      PROVE  ran'[i].script = listed'[i] /\ (ran'[i].how = "killed" => cancelled')
  <2>1. CASE i = Len(ran) + 1
    BY <1>1, <1>5, <1>6, <1>7, <2>1
  <2>2. CASE i # Len(ran) + 1
    <3>1. i \in 1..Len(ran)
      BY <1>2, <1>6, <2>2
    <3>2. ran[i].script = listed[i] /\ (ran[i].how = "killed" => cancelled)
      BY <1>6, <3>1 DEF Lists
    <3>3. QED
      BY <1>1, <1>6, <1>7, <3>1, <3>2
  <2>3. QED
    BY <2>1, <2>2
<1>9. Len(ran') <= Len(listed')
  BY <1>1, <1>2, <1>6
<1>10. probed' \in Seq({TRUE}) /\ Len(probed') <= Len(cfg'.servers) /\ listed' \in Seq(Scripts)
  BY <1>1 DEF Lists
<1>11. QED
  BY <1>1, <1>6, <1>8, <1>9, <1>10 DEF Lists, R

LEMMA ProbedLists ==
  ASSUME Lists, NEW reply, ProbeMCPService(reply), Len(cfg.servers) \in Nat
  PROVE  Lists'
<1>1. /\ UNCHANGED <<environment, listed, running, ran, cancelled>> /\ cfg' = cfg
      /\ Len(probed) < Len(cfg.servers) /\ Accepts(reply)
      /\ probed' = Append(probed, "result" \in Range(reply.payloads))
  BY DEF ProbeMCPService, cfg, scriptVars
<1>2. "result" \in Range(reply.payloads)
  <2>1. CASE reply.stream
    BY <1>1, <2>1 DEF Accepts
  <2>2. CASE ~reply.stream
    <3>1. reply.payloads = <<"result">>
      BY <1>1, <2>2 DEF Accepts
    <3>2. 1 \in DOMAIN <<"result">> /\ <<"result">>[1] = "result"
      OBVIOUS
    <3>3. QED
      BY <3>1, <3>2 DEF Range
  <2>3. QED
    BY <2>1, <2>2
<1>3. ("result" \in Range(reply.payloads)) = TRUE
  BY <1>2
<1>4. probed' = Append(probed, TRUE)
  BY <1>1, <1>3
<1>5. probed \in Seq({TRUE})
  BY DEF Lists
<1>6. probed' \in Seq({TRUE}) /\ Len(probed') = Len(probed) + 1 /\ Len(probed) \in Nat
  BY <1>4, <1>5
<1>7. Len(probed') <= Len(cfg'.servers)
  BY <1>1, <1>6
<1>8. /\ listed' \in Seq(Scripts)
      /\ ran' \in Seq([script : Scripts, how : {"ended", "killed"}]) /\ Len(ran') <= Len(listed')
  BY <1>1 DEF Lists
<1>9. running' => Len(ran') < Len(listed')
  <2>1. running' => running
    BY <1>1, Zenon
  <2>2. QED
    BY <1>1, <2>1 DEF Lists
<1>10. \A i \in DOMAIN ran' : ran'[i].script = listed'[i] /\ (ran'[i].how = "killed" => cancelled')
  BY <1>1 DEF Lists
<1>11. QED
  BY <1>6, <1>7, <1>8, <1>9, <1>10 DEF Lists

LEMMA ServersAreCounted ==
  ASSUME environment \in Environments
  PROVE  Len(cfg.servers) \in Nat
<1>1. cfg.servers = environment.servers
  BY DEF cfg, FromEnv
<1>2. Len(environment.servers) \in Nat
  BY BootConstants
<1>3. QED
  BY <1>1, <1>2

LEMMA NoLists ==
  ASSUME environment' \in Environments,
         listed' = <<>>, ran' = <<>>, running' = FALSE, probed' = <<>>
  PROVE  Lists'
<1>1. cfg'.servers = environment'.servers
  BY DEF cfg, FromEnv
<1>2. Len(cfg'.servers) \in Nat
  BY <1>1, BootConstants
<1>3. \A S : <<>> \in Seq(S) /\ Len(<<>>) = 0 /\ DOMAIN <<>> = {}
  OBVIOUS
<1>4. QED
  BY <1>2, <1>3 DEF Lists

LEMMA ListsStepKeeps ==
  ASSUME environment \in Environments, Lists, [BootNext]_bootVars
  PROVE  Lists'
<1>1. CASE Start
  <2>1. /\ environment' \in Environments
        /\ listed' = <<>> /\ ran' = <<>> /\ running' = FALSE /\ probed' = <<>>
    BY <1>1 DEF Start, Boots
  <2>2. QED
    BY <2>1, NoLists
<1>2. CASE Answered
  BY <1>2, AnsweredLists
<1>3. CASE StartScript
  <2>1. running' = TRUE /\ Len(ran) < Len(listed)
        /\ UNCHANGED <<environment, listed, ran, probed, cancelled>> /\ cfg' = cfg
    BY <1>3 DEF StartScript, cfg
  <2>2. QED
    BY <2>1 DEF Lists
<1>4. CASE ScriptEnds
  BY <1>4, RanLists DEF ScriptEnds
<1>5. CASE ScriptKilled
  BY <1>5, RanLists DEF ScriptKilled
<1>6. CASE \E reply \in Replies : ProbeMCPService(reply)
  BY <1>6, ProbedLists, ServersAreCounted
<1>7. CASE Terminate
  <2>1. UNCHANGED <<environment, scriptVars, probed>> /\ cancelled'
    BY <1>7 DEF Terminate
  <2>2. QED
    BY <2>1, ListsHold
<1>8. CASE \/ Local \/ Acquire \/ StepFails \/ Retry \/ StopsConnecting
           \/ StartShellServer \/ Serve \/ RunReturns \/ Close
           \/ Abandoned \/ ScriptStartFails \/ ScriptCut
           \/ ScriptsDone \/ WaitEnds \/ ServersReady
           \/ StatCodexAuth \/ WriteCodexAuth \/ WriteCodexAuthFails
           \/ TurnFails \/ Refused \/ Login \/ Kill \/ UNCHANGED bootVars
  <2>1. UNCHANGED <<environment, scriptVars, probed, cancelled>>
    BY <1>8 DEF Local, Acquire, StepFails, Retry, StopsConnecting, StartShellServer, Serve,
                RunReturns, Close, Abandoned, ScriptStartFails, ScriptCut, ScriptsDone, WaitEnds,
                ServersReady, StatCodexAuth, WriteCodexAuth, WriteCodexAuthFails, TurnFails,
                Refused, Login, Kill, bootVars, scriptVars
  <2>2. cancelled => cancelled'
    BY <2>1, Zenon
  <2>3. QED
    BY <2>1, <2>2, ListsHold
<1>9. QED
  BY <1>1, <1>2, <1>3, <1>4, <1>5, <1>6, <1>7, <1>8 DEF BootNext, Own, Outside

-----------------------------------------------------------------------------
(* A boot prepares what it has behind it. *)

LEMMA ChoresRank ==
  ASSUME NEW c
  PROVE  /\ Chosen(c) \subseteq Chores
         /\ \A x \in Chores \ {"unsupported"} : Rank(c, x) >= 20
         /\ Rank(c, "listEnvironment") < Rank(c, "listAgent")
              \/ "listAgent" \notin Chosen(c)
         /\ Rank(c, "listEnvironment") < Rank(c, "scripts")
         /\ "listAgent" \in Chosen(c) => Rank(c, "listAgent") < Rank(c, "scripts")
BY DEF Chosen, Chores, ScriptChores, Rank, Holder

\* Nothing the boot has of the five steps has changed sides, nor any list.
LEMMA PreparingHolds ==
  ASSUME Preparing, UNCHANGED <<environment, listed, ran, probed>>,
         Upward(cfg, todo'), Range(todo') \intersect Chores = Range(todo) \intersect Chores
  PROVE  Preparing'
<1>1. cfg' = cfg
  BY DEF cfg
<1>2. \A x \in Chores : Past(x)' <=> Past(x)
  BY <1>1 DEF Past
<1>3. /\ "listEnvironment" \in Chores /\ "listAgent" \in Chores /\ "scripts" \in Chores
      /\ "mcpServers" \in Chores /\ "unsupported" \in Chores
  BY DEF Chores
<1>4. Collected' = Collected
  <2>1. (Past("listEnvironment")' <=> Past("listEnvironment"))
        /\ (Past("listAgent")' <=> Past("listAgent"))
    BY <1>2, <1>3
  <2>2. QED
    BY <2>1 DEF Collected, When
<1>5. Upward(cfg', todo') /\ Range(todo') \intersect Chores \subseteq Chosen(cfg')
  BY <1>1 DEF Preparing
<1>6. QED
  BY <1>1, <1>2, <1>3, <1>4, <1>5 DEF Preparing

LEMMA AdvancePrepares ==
  ASSUME BootInv, Preparing, doing = "booting", todo # <<>>, todo' = Tail(todo),
         Head(todo) \notin Chores, UNCHANGED <<environment, listed, ran, probed>>
  PROVE  Preparing'
<1>1. Plan(cfg, todo) /\ Upward(cfg, todo)
  BY DEF BootInv, Booting, Preparing
<1>2. Upward(cfg, todo')
  BY <1>1, UpwardTail
<1>3. Range(todo) = {Head(todo)} \union Range(Tail(todo))
  BY HeadIsInPlan
<1>4. Range(todo') \intersect Chores = Range(todo) \intersect Chores
  BY <1>3
<1>5. QED
  BY <1>2, <1>4, PreparingHolds

LEMMA StatPrepares ==
  ASSUME BootInv, Preparing, StatCodexAuth
  PROVE  Preparing'
<1>1. /\ doing = "booting" /\ todo # <<>> /\ Head(todo) = "auth"
      /\ UNCHANGED <<environment, listed, ran, probed>>
      /\ todo' = (IF auth = "none" THEN <<"authCreate", "authWrite">> ELSE <<>>) \o Tail(todo)
  BY DEF StatCodexAuth, At, scriptVars
<1>2. CASE auth = "none"
  <2>1. todo' = <<"authCreate", "authWrite">> \o Tail(todo)
    BY <1>1, <1>2
  <2>2. Plan(cfg, todo) /\ Upward(cfg, todo)
    BY <1>1 DEF BootInv, Booting, Preparing
  <2>3. Upward(cfg, todo')
    BY <1>1, <2>1, <2>2, UpwardAuth
  <2>4. Range(todo') = {"authCreate", "authWrite"} \union Range(Tail(todo))
    BY <1>1, <2>1, <2>2, AuthPlan
  <2>5. Range(todo) = {"auth"} \union Range(Tail(todo))
    BY <1>1, HeadIsInPlan
  <2>6. Range(todo') \intersect Chores = Range(todo) \intersect Chores
    BY <2>4, <2>5 DEF Chores
  <2>7. QED
    BY <1>1, <2>3, <2>6, PreparingHolds
<1>3. CASE auth # "none"
  <2>1. Tail(todo) \in Seq(Steps)
    BY <1>1, HeadIsInPlan DEF Plan
  <2>2. todo' = Tail(todo)
    BY <1>1, <1>3, <2>1
  <2>3. Head(todo) \notin Chores
    BY <1>1 DEF Chores
  <2>4. QED
    BY <1>1, <2>2, <2>3, AdvancePrepares
<1>4. QED
  BY <1>2, <1>3

\* At a step of the connection, the boot has all of its chores ahead, and again when the
\* platform is tried again.
LEMMA RetryPrepares ==
  ASSUME BootInv, Preparing, doing = "booting", todo # <<>>,
         Head(todo) \in Range(ConnectPlatform), todo' = Rest(cfg),
         UNCHANGED <<environment, listed, ran, probed>>
  PROVE  Preparing'
<1>1. Head(todo) \in Range(todo) /\ Rank(cfg, Head(todo)) <= 13
  BY HeadIsInPlan, ConnectPart DEF Part
<1>2. /\ Range(Rest(cfg)) \intersect Chores = Chosen(cfg)
  BY RestChores
<1>3. ASSUME NEW x \in Chosen(cfg) PROVE x \in Range(todo)
  <2>1. CASE x = "unsupported"
    BY <2>1, <1>3 DEF Preparing, Past
  <2>2. CASE x # "unsupported"
    <3>1. Rank(cfg, x) >= 20
      BY <1>3, <2>2, ChoresRank
    <3>2. Rank(cfg, Head(todo)) < Rank(cfg, x)
      BY <1>1, <3>1, RanksAreNumbers
    <3>3. QED
      BY <1>1, <1>2, <1>3, <3>2 DEF Preparing, Upward
  <2>3. QED
    BY <2>1, <2>2
<1>4. Range(todo') \intersect Chores = Range(todo) \intersect Chores
  BY <1>2, <1>3, ChoresRank DEF Preparing
<1>5. Upward(cfg, todo')
  BY DEF Upward
<1>6. QED
  BY <1>4, <1>5, PreparingHolds

\* One of the five is done.
LEMMA ChoreDone ==
  ASSUME BootInv, Preparing, doing = "booting", todo # <<>>, todo' = Tail(todo),
         NEW h \in Chores, Head(todo) = h, UNCHANGED environment
  PROVE  /\ cfg' = cfg /\ h \in Chosen(cfg)
         /\ ~Past(h) /\ Past(h)'
         /\ \A x \in Chores \ {h} : Past(x)' <=> Past(x)
         /\ \A x \in Chosen(cfg) : Rank(cfg, h) < Rank(cfg, x) => ~Past(x) /\ ~Past(x)'
         /\ Upward(cfg', todo') /\ Range(todo') \intersect Chores \subseteq Chosen(cfg')
<1>1. /\ Range(todo) = {Head(todo)} \union Range(Tail(todo)) /\ Head(todo) \notin Range(Tail(todo))
      /\ \A x \in Range(Tail(todo)) : Rank(cfg, Head(todo)) < Rank(cfg, x)
  BY HeadIsInPlan
<1>2. Plan(cfg, todo) /\ Upward(cfg, todo) /\ Range(todo) \intersect Chores \subseteq Chosen(cfg)
  BY DEF BootInv, Booting, Preparing
<1>3. cfg' = cfg /\ Upward(cfg, todo')
  BY <1>2, UpwardTail DEF cfg
<1>4. Head(todo) \in Chosen(cfg)
  BY <1>1, <1>2
<1>5. ASSUME NEW x \in Chosen(cfg), Rank(cfg, h) < Rank(cfg, x)
      PROVE  x \in Range(todo) /\ x \in Range(todo')
  <2>1. x \in Range(Rest(cfg))
    BY RestChores
  <2>2. x \in Range(todo)
    BY <1>1, <1>2, <1>5, <2>1 DEF Upward
  <2>3. x # Head(todo)
    BY <1>5, RanksAreNumbers
  <2>4. QED
    BY <1>1, <2>2, <2>3
<1>6. QED
  BY <1>1, <1>2, <1>3, <1>4, <1>5 DEF Past

LEMMA AnsweredPrepares ==
  ASSUME BootInv, Lists, Preparing, Answered, Head(todo) \in {"listEnvironment", "listAgent"}
  PROVE  Preparing'
<1>1. /\ doing = "booting" /\ todo # <<>> /\ todo' = Tail(todo)
      /\ UNCHANGED <<environment, ran, probed>>
  BY DEF Answered, At, Advance
<1>2. /\ "listEnvironment" \in Chores /\ "listAgent" \in Chores /\ "scripts" \in Chores
      /\ "mcpServers" \in Chores /\ "unsupported" \in Chores
  BY DEF Chores
<1> PICK h \in Chores : h = Head(todo)
  BY <1>2
<1>3. /\ cfg' = cfg /\ h \in Chosen(cfg)
      /\ ~Past(h) /\ Past(h)'
      /\ \A x \in Chores \ {h} : Past(x)' <=> Past(x)
      /\ \A x \in Chosen(cfg) : Rank(cfg, h) < Rank(cfg, x) => ~Past(x) /\ ~Past(x)'
      /\ Upward(cfg', todo') /\ Range(todo') \intersect Chores \subseteq Chosen(cfg')
  BY <1>1, <1>2, ChoreDone
<1>4. listed' = listed \o IF Head(todo) = "listEnvironment" THEN Listed("environment")
                          ELSE Listed("agent")
  BY DEF Answered, At
<1>5. listed = Collected /\ cfg'.mode \in {"agent", "holder"} /\ ~Past("unsupported")'
      /\ (Past("mcpServers")' => Len(probed') = Len(cfg'.servers))
  BY <1>1, <1>2, <1>3 DEF Preparing
<1>6. Listed("environment") \in Seq(Scripts) /\ Listed("agent") \in Seq(Scripts)
  BY ListedInOrder
<1>7. ~Past("scripts")'
  <2>1. "scripts" \in Chosen(cfg) => Rank(cfg, h) < Rank(cfg, "scripts")
    BY <1>3, ChoresRank
  <2>2. CASE "scripts" \in Chosen(cfg)
    BY <1>3, <2>1, <2>2
  <2>3. CASE "scripts" \notin Chosen(cfg)
    BY <1>3, <2>3 DEF Past
  <2>4. QED
    BY <2>2, <2>3
<1>8. listed' = Collected'
  <2>1. CASE Head(todo) = "listEnvironment"
    <3>1. ~Past("listAgent") /\ ~Past("listAgent")'
      <4>1. CASE "listAgent" \in Chosen(cfg)
        BY <1>3, <2>1, <4>1, ChoresRank
      <4>2. CASE "listAgent" \notin Chosen(cfg)
        BY <1>3, <4>2 DEF Past
      <4>3. QED
        BY <4>1, <4>2
    <3>2. ~Past("listEnvironment") /\ Past("listEnvironment")'
      BY <1>3, <2>1
    <3>3. Collected = <<>> \o <<>>
      BY <3>1, <3>2 DEF Collected, When
    <3>4. Collected' = Listed("environment") \o <<>>
      BY <3>1, <3>2 DEF Collected, When
    <3>5. QED
      BY <1>4, <1>5, <1>6, <2>1, <3>3, <3>4
  <2>2. CASE Head(todo) = "listAgent"
    <3>1. Past("listEnvironment")' <=> Past("listEnvironment")
      BY <1>2, <1>3, <2>2
    <3>2. ~Past("listAgent") /\ Past("listAgent")'
      BY <1>3, <2>2
    <3>3. PICK E : E = When(Past("listEnvironment"), Listed("environment"))
      OBVIOUS
    <3>4. E \in Seq(Scripts)
      <4>1. E \in {<<>>, Listed("environment")}
        BY <3>3 DEF When
      <4>2. <<>> \in Seq(Scripts)
        OBVIOUS
      <4>3. QED
        BY <1>6, <4>1, <4>2
    <3>5. Collected = E \o <<>> /\ Collected' = E \o Listed("agent")
      BY <3>1, <3>2, <3>3 DEF Collected, When
    <3>6. listed = E
      BY <1>5, <3>4, <3>5
    <3>7. QED
      BY <1>4, <2>2, <3>5, <3>6
  <2>3. QED
    BY <2>1, <2>2
<1>9. QED
  BY <1>3, <1>5, <1>7, <1>8 DEF Preparing

LEMMA DonePrepares ==
  ASSUME BootInv, Preparing, ScriptsDone \/ ServersReady
  PROVE  Preparing'
<1>1. /\ doing = "booting" /\ todo # <<>> /\ todo' = Tail(todo)
      /\ UNCHANGED <<environment, listed, ran, probed>>
      /\ Head(todo) \in {"scripts", "mcpServers"}
      /\ Head(todo) = "scripts" => Len(ran) = Len(listed)
      /\ Head(todo) = "mcpServers" => Len(probed) = Len(cfg.servers)
  BY DEF ScriptsDone, ServersReady, At, Advance, scriptVars
<1>2. /\ "listEnvironment" \in Chores /\ "listAgent" \in Chores /\ "scripts" \in Chores
      /\ "mcpServers" \in Chores /\ "unsupported" \in Chores
  BY DEF Chores
<1> PICK h \in Chores : h = Head(todo)
  BY <1>1, <1>2
<1>3. /\ cfg' = cfg
      /\ \A x \in Chores \ {h} : Past(x)' <=> Past(x)
      /\ Upward(cfg', todo') /\ Range(todo') \intersect Chores \subseteq Chosen(cfg')
  BY <1>1, <1>2, ChoreDone
<1>4. /\ Past("listEnvironment")' <=> Past("listEnvironment")
      /\ Past("listAgent")' <=> Past("listAgent")
      /\ Past("unsupported")' <=> Past("unsupported")
  BY <1>1, <1>2, <1>3
<1>5. Collected' = Collected
  BY <1>4 DEF Collected, When
<1>6. Past("scripts")' => Len(ran') = Len(listed')
  BY <1>1, <1>2, <1>3 DEF Preparing
<1>7. Past("mcpServers")' => Len(probed') = Len(cfg'.servers)
  BY <1>1, <1>2, <1>3 DEF Preparing
<1>8. QED
  BY <1>1, <1>3, <1>4, <1>5, <1>6, <1>7 DEF Preparing

\* A script that runs, or a server that is probed, has its step at the head.
LEMMA WorkPrepares ==
  ASSUME BootInv, Preparing,
         StartScript \/ ScriptEnds \/ ScriptKilled
           \/ \E reply \in Replies : ProbeMCPService(reply)
  PROVE  Preparing'
<1>1. /\ doing = "booting" /\ todo # <<>> /\ UNCHANGED <<environment, todo, listed>>
      /\ Head(todo) \in {"scripts", "mcpServers"}
      /\ Head(todo) = "scripts" => probed' = probed
      /\ Head(todo) = "mcpServers" => ran' = ran
  BY DEF StartScript, ScriptEnds, ScriptKilled, ProbeMCPService, Ran, At, scriptVars
<1>2. cfg' = cfg /\ Head(todo) \in Range(todo)
  BY <1>1, HeadIsInPlan DEF cfg
<1>3. \A x : Past(x)' <=> Past(x)
  BY <1>1, <1>2 DEF Past
<1>4. ~Past(Head(todo)) /\ Collected' = Collected
  BY <1>2, <1>3 DEF Past, Collected, When
<1>5. Past("scripts")' => Len(ran') = Len(listed')
  BY <1>1, <1>3, <1>4 DEF Preparing
<1>6. Past("mcpServers")' => Len(probed') = Len(cfg'.servers)
  BY <1>1, <1>2, <1>3, <1>4 DEF Preparing
<1>7. Upward(cfg', todo') /\ Range(todo') \intersect Chores \subseteq Chosen(cfg')
  BY <1>1, <1>2 DEF Preparing
<1>8. QED
  BY <1>1, <1>2, <1>3, <1>4, <1>5, <1>6, <1>7 DEF Preparing

LEMMA StartPrepares ==
  ASSUME Start, doing' = "booting"
  PROVE  Preparing'
<1>1. ~Rejects(environment) /\ environment' = environment /\ cfg' = cfg
      /\ todo' = PrepareAgentCLI(cfg) \o Construct(cfg) \o Run(cfg)
      /\ listed' = <<>> /\ ran' = <<>> /\ probed' = <<>>
  BY DEF Start, Boots, cfg
<1>2. cfg.mode \in {"agent", "holder"}
  BY <1>1 DEF Rejects, cfg, FromEnv
<1>3. Range(Rest(cfg)) \subseteq Range(todo') /\ Range(todo') \intersect Chores = Chosen(cfg)
  BY <1>1, BootChores
<1>4. Upward(cfg, todo')
  BY <1>3 DEF Upward
<1>5. \A x : ~Past(x)'
  BY <1>1, <1>3 DEF Past
<1>6. Collected' = <<>>
  BY <1>5 DEF Collected, When
<1>7. QED
  BY <1>1, <1>2, <1>3, <1>4, <1>5, <1>6 DEF Preparing

\* The environment's scripts come before the agent's, and each scope's are in order.
LEMMA ScopesInOrder ==
  ASSUME NEW E \in {<<>>, Listed("environment")}, NEW A \in {<<>>, Listed("agent")},
         NEW s, s = E \o A
  PROVE  /\ s \in Seq(Scripts) /\ Range(s) = Range(E) \union Range(A)
         /\ \A i, j \in DOMAIN s : i < j => RunsBefore(s[i], s[j])
<1>1. /\ E \in Seq(Scripts) /\ Range(E) \subseteq Of("environment")
      /\ \A i, j \in DOMAIN E : i < j => Earlier(E[i], E[j])
  <2>1. CASE E = <<>>
    BY <2>1, NoSteps
  <2>2. CASE E = Listed("environment")
    BY <2>2, ListedInOrder
  <2>3. QED
    BY <2>1, <2>2
<1>2. /\ A \in Seq(Scripts) /\ Range(A) \subseteq Of("agent")
      /\ \A i, j \in DOMAIN A : i < j => Earlier(A[i], A[j])
  <2>1. CASE A = <<>>
    BY <2>1, NoSteps
  <2>2. CASE A = Listed("agent")
    BY <2>2, ListedInOrder
  <2>3. QED
    BY <2>1, <2>2
<1> DEFINE m == Len(E)
           n == Len(A)
<1>3. /\ m \in Nat /\ n \in Nat /\ DOMAIN E = 1..m /\ DOMAIN A = 1..n
      /\ DOMAIN s = 1..(m + n)
      /\ \A i \in 1..m : s[i] = E[i]
      /\ \A i \in (m + 1)..(m + n) : s[i] = A[i - m]
  BY <1>1, <1>2
<1>4. s \in Seq(Scripts) /\ Range(s) = Range(E) \union Range(A)
  BY <1>1, <1>2, ConcatRange
<1> HIDE DEF m, n
<1>5. ASSUME NEW i \in 1..(m + n)
      PROVE  \/ i \in 1..m /\ s[i] = E[i] /\ s[i].scope = "environment"
             \/ i \in (m + 1)..(m + n) /\ i - m \in 1..n /\ s[i] = A[i - m] /\ s[i].scope = "agent"
  <2>1. CASE i \in 1..m
    <3>1. s[i] = E[i] /\ E[i] \in Range(E)
      BY <1>3, <2>1 DEF Range
    <3>2. QED
      BY <1>1, <2>1, <3>1 DEF Of
  <2>2. CASE i \notin 1..m
    <3>1. i \in (m + 1)..(m + n) /\ i - m \in 1..n
      BY <1>3, <2>2
    <3>2. s[i] = A[i - m] /\ A[i - m] \in Range(A)
      BY <1>3, <3>1 DEF Range
    <3>3. QED
      BY <1>2, <3>1, <3>2 DEF Of
  <2>3. QED
    BY <2>1, <2>2
<1>6. ASSUME NEW i \in 1..(m + n), NEW j \in 1..(m + n), i < j
      PROVE  RunsBefore(s[i], s[j])
  <2>1. CASE i \in 1..m /\ j \in 1..m
    <3>1. Earlier(E[i], E[j]) /\ s[i] = E[i] /\ s[j] = E[j]
      BY <1>1, <1>3, <1>6, <2>1
    <3>2. s[i].scope = "environment" /\ s[j].scope = "environment"
      <4>1. E[i] \in Range(E) /\ E[j] \in Range(E)
        BY <1>3, <2>1 DEF Range
      <4>2. QED
        BY <1>1, <3>1, <4>1 DEF Of
    <3>3. QED
      BY <3>1, <3>2 DEF RunsBefore
  <2>2. CASE i \in 1..m /\ j \notin 1..m
    <3>1. s[j].scope = "agent"
      BY <1>5, <2>2
    <3>2. s[i].scope = "environment"
      <4>1. s[i] = E[i] /\ E[i] \in Range(E)
        BY <1>3, <2>2 DEF Range
      <4>2. QED
        BY <1>1, <4>1 DEF Of
    <3>3. QED
      BY <3>1, <3>2 DEF RunsBefore
  <2>3. CASE i \notin 1..m
    <3>1. i \in (m + 1)..(m + n) /\ i - m \in 1..n /\ s[i] = A[i - m] /\ s[i].scope = "agent"
      BY <1>5, <2>3
    <3>2. j \notin 1..m
      BY <1>3, <1>6, <2>3
    <3>3. j \in (m + 1)..(m + n) /\ j - m \in 1..n /\ s[j] = A[j - m] /\ s[j].scope = "agent"
      BY <1>5, <3>2
    <3>4. i - m < j - m
      BY <1>3, <1>6
    <3>5. Earlier(A[i - m], A[j - m])
      BY <1>2, <1>3, <3>1, <3>3, <3>4
    <3>6. QED
      BY <3>1, <3>3, <3>5 DEF RunsBefore
  <2>4. QED
    BY <2>1, <2>2, <2>3
<1>7. \A i, j \in DOMAIN s : i < j => RunsBefore(s[i], s[j])
  BY <1>3, <1>6
<1>8. QED
  BY <1>4, <1>7

\* When the CLI runs, or nothing is left, all of the boot's chores are behind it.
LEMMA ChoresAreDone ==
  ASSUME BootInv, Preparing, doing = "booting", held["cli"] = 1 \/ todo = <<>>
  PROVE  "unsupported" \notin Chosen(cfg) /\ \A x \in Chosen(cfg) : Past(x)
<1>1. CASE todo = <<>>
  <2>1. Range(todo) = {}
    BY <1>1, NoSteps
  <2>2. QED
    BY <2>1 DEF Preparing, Past
<1>2. CASE held["cli"] = 1
  <2>1. "cli" \in AcquiresFor(cfg) /\ "cli" \notin Range(todo)
    <3>1. "cli" \in Acquires /\ Opens("cli") = "cli"
      BY DEF Acquires, Opens
    <3>2. QED
      BY <1>2, <3>1 DEF BootInv, Booting
  <2>2. ~Holder(cfg) /\ (IsCodex(cfg) \/ IsClaude(cfg) \/ IsAgn(cfg))
    BY <2>1 DEF AcquiresFor
  <2>3. \A x \in Chosen(cfg) : x # "unsupported" /\ Rank(cfg, x) < Rank(cfg, "cli")
    BY <2>2 DEF Chosen, ScriptChores, Rank
  <2>4. "cli" \in Range(Rest(cfg))
    BY <2>1, NewPlan DEF Rest
  <2>5. \A x \in Chosen(cfg) : x \notin Range(todo)
    BY <2>1, <2>3, <2>4 DEF Preparing, Upward
  <2>6. QED
    BY <2>3, <2>5 DEF Past
<1>3. QED
  BY <1>1, <1>2

LEMMA ListedAll ==
  ASSUME Preparing, Lists,
         "unsupported" \notin Chosen(cfg), \A x \in Chosen(cfg) : Past(x)
  PROVE  /\ \E E \in {<<>>, Listed("environment")}, A \in {<<>>, Listed("agent")} :
              /\ listed = E \o A
              /\ Range(E) = {s \in Scripts : s.scope = "environment" /\ cfg.named}
              /\ Range(A) = {s \in Scripts : s.scope = "agent" /\ cfg.mode = "agent"}
         /\ Len(ran) = Len(listed)
         /\ cfg.sdk = "agn" /\ cfg.mode = "agent" => Len(probed) = Len(cfg.servers)
<1>1. cfg.mode \in {"agent", "holder"} /\ listed = Collected
  BY DEF Preparing
<1>2. /\ Past("listEnvironment") <=> cfg.named
      /\ Past("listAgent") <=> cfg.mode = "agent"
      /\ Past("scripts") <=> cfg.named \/ cfg.mode = "agent"
      /\ cfg.sdk = "agn" /\ cfg.mode = "agent" => Past("mcpServers")
  <2>1. /\ "listEnvironment" \in Chosen(cfg) <=> cfg.named
        /\ "listAgent" \in Chosen(cfg) <=> cfg.mode = "agent"
        /\ "scripts" \in Chosen(cfg) <=> cfg.named \/ cfg.mode = "agent"
        /\ cfg.sdk = "agn" /\ cfg.mode = "agent" => "mcpServers" \in Chosen(cfg)
    BY <1>1 DEF Chosen, ScriptChores, Holder, IsCodex, IsClaude, IsAgn
  <2>2. QED
    BY <2>1 DEF Past
<1> DEFINE E == When(Past("listEnvironment"), Listed("environment"))
           A == When(Past("listAgent"), Listed("agent"))
<1>3. E = IF cfg.named THEN Listed("environment") ELSE <<>>
  BY <1>2 DEF When
<1>4. A = IF cfg.mode = "agent" THEN Listed("agent") ELSE <<>>
  BY <1>2 DEF When
<1>5. listed = E \o A
  BY <1>1 DEF Collected
<1> HIDE DEF E, A
<1>6. E \in {<<>>, Listed("environment")} /\ A \in {<<>>, Listed("agent")}
  BY <1>3, <1>4
<1>7. Range(E) = {s \in Scripts : s.scope = "environment" /\ cfg.named}
  <2>1. CASE cfg.named
    BY <1>3, <2>1, ListedInOrder DEF Of
  <2>2. CASE ~cfg.named
    BY <1>3, <2>2, NoSteps
  <2>3. QED
    BY <2>1, <2>2
<1>8. Range(A) = {s \in Scripts : s.scope = "agent" /\ cfg.mode = "agent"}
  <2>1. CASE cfg.mode = "agent"
    BY <1>4, <2>1, ListedInOrder DEF Of
  <2>2. CASE cfg.mode # "agent"
    BY <1>4, <2>2, NoSteps
  <2>3. QED
    BY <2>1, <2>2
<1>9. Len(ran) = Len(listed)
  <2>1. CASE cfg.named \/ cfg.mode = "agent"
    BY <1>2, <2>1 DEF Preparing
  <2>2. CASE ~(cfg.named \/ cfg.mode = "agent")
    <3>1. E = <<>> /\ A = <<>>
      BY <1>3, <1>4, <2>2
    <3>2. Len(listed) = 0
      BY <1>5, <3>1
    <3>3. Len(ran) \in Nat /\ Len(ran) <= Len(listed)
      BY DEF Lists
    <3>4. QED
      BY <3>2, <3>3
  <2>3. QED
    BY <2>1, <2>2
<1>10. cfg.sdk = "agn" /\ cfg.mode = "agent" => Len(probed) = Len(cfg.servers)
  BY <1>2 DEF Preparing
<1>11. QED
  BY <1>5, <1>6, <1>7, <1>8, <1>9, <1>10

LEMMA ElementsAreIn ==
  ASSUME NEW S, NEW s \in Seq(S)
  PROVE  \A i \in DOMAIN s : s[i] \in S
<1>1. DOMAIN s = 1..Len(s)
  OBVIOUS
<1>2. \A i \in 1..Len(s) : s[i] \in S
  OBVIOUS
<1>3. QED
  BY <1>1, <1>2

LEMMA PreparedAtLast ==
  ASSUME BootInv, Lists, Preparing, doing = "booting", ~cancelled,
         held["cli"] = 1 \/ todo = <<>>
  PROVE  Prepared
<1>1. "unsupported" \notin Chosen(cfg) /\ \A x \in Chosen(cfg) : Past(x)
  BY ChoresAreDone
<1>2. PICK E \in {<<>>, Listed("environment")}, A \in {<<>>, Listed("agent")} :
        /\ listed = E \o A
        /\ Range(E) = {s \in Scripts : s.scope = "environment" /\ cfg.named}
        /\ Range(A) = {s \in Scripts : s.scope = "agent" /\ cfg.mode = "agent"}
  BY <1>1, ListedAll
<1>3. Len(ran) = Len(listed)
      /\ (cfg.sdk = "agn" /\ cfg.mode = "agent" => Len(probed) = Len(cfg.servers))
  BY <1>1, ListedAll
<1>4. /\ listed \in Seq(Scripts) /\ Range(listed) = Range(E) \union Range(A)
      /\ \A i, j \in DOMAIN listed : i < j => RunsBefore(listed[i], listed[j])
  BY <1>2, ScopesInOrder
<1>5. /\ ran \in Seq([script : Scripts, how : {"ended", "killed"}])
      /\ \A i \in DOMAIN ran : ran[i].script = listed[i] /\ ran[i].how # "killed"
  BY DEF Lists
<1>6. DOMAIN ran = DOMAIN listed
  <2>1. DOMAIN ran = 1..Len(ran) /\ DOMAIN listed = 1..Len(listed)
    BY <1>4, <1>5
  <2>2. QED
    BY <1>3, <2>1
<1>7. {ran[i].script : i \in DOMAIN ran} = {s \in Scripts : s.scope \in Scopes(cfg)}
  <2>1. {ran[i].script : i \in DOMAIN ran} = Range(listed)
    BY <1>5, <1>6 DEF Range
  <2>2. Range(listed) = {s \in Scripts : s.scope \in Scopes(cfg)}
    BY <1>2, <1>4 DEF Scopes
  <2>3. QED
    BY <2>1, <2>2
<1>8. \A i, j \in DOMAIN ran : i < j => RunsBefore(ran[i].script, ran[j].script)
  BY <1>4, <1>5, <1>6
<1>9. \A i \in DOMAIN ran : ran[i].how = "ended"
  <2>1. \A i \in DOMAIN ran : ran[i] \in [script : Scripts, how : {"ended", "killed"}]
    BY <1>5, ElementsAreIn
  <2>2. \A r \in [script : Scripts, how : {"ended", "killed"}] : r.how \in {"ended", "killed"}
    OBVIOUS
  <2>3. QED
    BY <1>5, <2>1, <2>2
<1>10. FALSE \notin Range(probed)
  <2>1. probed \in Seq({TRUE})
    BY DEF Lists
  <2>2. \A i \in DOMAIN probed : probed[i] \in {TRUE}
    BY <2>1, ElementsAreIn
  <2>3. Range(probed) \subseteq {TRUE}
    BY <2>2 DEF Range
  <2>4. QED
    BY <2>3
<1>11. QED
  BY <1>3, <1>7, <1>8, <1>9, <1>10 DEF Prepared

-----------------------------------------------------------------------------
(* Prepared before serving. *)

\* A boot prepares; a process that closes was told to; and past the boot, where the plan
\* that says what was done is gone, what was prepared stays so.
PrepInv ==
  /\ environment \in Environments
  /\ Lists
  /\ doing = "booting" => Preparing
  /\ doing = "closing" => cancelled
  /\ doing # "booting" => PreparedBeforeServing

LEMMA PreparedNow ==
  ASSUME BootInv, PrepInv
  PROVE  PreparedBeforeServing
<1>1. CASE doing = "booting"
  <2>1. ASSUME held["cli"] = 1 \/ doing = "serving", ~cancelled PROVE Prepared
    BY <1>1, <2>1, PreparedAtLast DEF PrepInv
  <2>2. QED
    BY <2>1 DEF PreparedBeforeServing
<1>2. CASE doing # "booting"
  BY <1>2 DEF PrepInv
<1>3. QED
  BY <1>1, <1>2

LEMMA PreparedStays ==
  ASSUME PreparedBeforeServing, UNCHANGED <<environment, ran, probed>>, cancelled => cancelled',
         held'["cli"] = 1 => held["cli"] = 1, doing' = "serving" => doing = "serving"
  PROVE  PreparedBeforeServing'
<1>1. cfg' = cfg
  BY DEF cfg
<1>2. Prepared => Prepared'
  BY <1>1 DEF Prepared
<1>3. QED
  BY <1>2 DEF PreparedBeforeServing

LEMMA WithoutTakes ==
  ASSUME held \in [Resources -> 0..1], NEW rs
  PROVE  Without(rs)["cli"] = 1 => held["cli"] = 1
<1>1. "cli" \in Resources
  BY DEF Resources
<1>2. held["cli"] \in 0..1
  BY <1>1
<1>3. Without(rs)["cli"] = IF "cli" \in rs /\ held["cli"] > 0 THEN held["cli"] - 1 ELSE held["cli"]
  BY <1>1 DEF Without
<1>4. QED
  BY <1>2, <1>3

LEMMA EndStaysPrepared ==
  ASSUME BootInv, PrepInv, Lists', doing' \in {"closing", "ended"},
         UNCHANGED <<environment, ran, probed>>, cancelled => cancelled',
         held' = held \/ \E rs : held' = Without(rs),
         doing' = "closing" => cancelled
  PROVE  PrepInv'
<1>1. held'["cli"] = 1 => held["cli"] = 1
  BY WithoutTakes DEF BootInv
<1>2. PreparedBeforeServing
  BY PreparedNow
<1>3. PreparedBeforeServing'
  BY <1>1, <1>2, PreparedStays
<1>4. QED
  BY <1>3 DEF PrepInv

LEMMA StartKeepsPrepared ==
  ASSUME PrepInv, Lists', Start
  PROVE  PrepInv'
<1>1. environment' = environment /\ held' = NothingHeld /\ doing' \in {"booting", "ended"}
  BY DEF Start, Boots
<1>2. held'["cli"] = 0
  BY <1>1 DEF NothingHeld, Resources
<1>3. doing' # "booting" => PreparedBeforeServing'
  BY <1>1, <1>2 DEF PreparedBeforeServing
<1>4. doing' = "booting" => Preparing'
  BY StartPrepares
<1>5. QED
  BY <1>1, <1>3, <1>4 DEF PrepInv

LEMMA AdvancingStepsPrepare ==
  ASSUME BootInv, PrepInv, Lists',
         Local \/ Acquire \/ StartShellServer \/ Answered \/ ScriptsDone \/ ServersReady
           \/ WriteCodexAuth \/ StatCodexAuth
           \/ StartScript \/ ScriptEnds \/ ScriptKilled
           \/ \E reply \in Replies : ProbeMCPService(reply)
  PROVE  PrepInv'
<1>1. doing = "booting" /\ todo # <<>> /\ doing' = "booting" /\ environment' = environment
  BY DEF Local, Acquire, StartShellServer, Answered, ScriptsDone, ServersReady, WriteCodexAuth,
         StatCodexAuth, StartScript, ScriptEnds, ScriptKilled, Ran, ProbeMCPService, At, Advance
<1>2. Preparing /\ Lists
  BY <1>1 DEF PrepInv
<1>3. CASE Local \/ Acquire \/ StartShellServer \/ WriteCodexAuth
  <2>1. todo' = Tail(todo) /\ UNCHANGED <<listed, ran, probed>>
    BY <1>3 DEF Local, Acquire, StartShellServer, WriteCodexAuth, Advance, scriptVars
  <2>2. Head(todo) \in Writes \union Acquires \union {"resolve", "shells", "authCreate", "authWrite"}
    BY <1>3 DEF Local, Acquire, StartShellServer, WriteCodexAuth, At
  <2>3. Head(todo) \notin Chores
    BY <2>2 DEF Writes, Acquires, Chores
  <2>4. QED
    BY <1>1, <1>2, <2>1, <2>3, AdvancePrepares DEF PrepInv
<1>4. CASE Answered
  <2>1. Head(todo) \in Calls /\ todo' = Tail(todo) /\ UNCHANGED <<ran, probed>>
    BY <1>4 DEF Answered, At, Advance
  <2>2. CASE Head(todo) \in {"getAgent", "listSkills"}
    <3>1. listed' = listed /\ Head(todo) \notin Chores
      BY <1>2, <1>4, <2>2, AnsweredLists DEF Chores
    <3>2. QED
      BY <1>1, <1>2, <2>1, <3>1, AdvancePrepares DEF PrepInv
  <2>3. CASE Head(todo) \in {"listEnvironment", "listAgent"}
    BY <1>1, <1>2, <1>4, <2>3, AnsweredPrepares DEF PrepInv
  <2>4. QED
    BY <2>1, <2>2, <2>3 DEF Calls
<1>5. CASE ScriptsDone \/ ServersReady
  BY <1>1, <1>2, <1>5, DonePrepares DEF PrepInv
<1>6. CASE StatCodexAuth
  BY <1>1, <1>2, <1>6, StatPrepares DEF PrepInv
<1>7. CASE StartScript \/ ScriptEnds \/ ScriptKilled
           \/ \E reply \in Replies : ProbeMCPService(reply)
  BY <1>1, <1>2, <1>7, WorkPrepares DEF PrepInv
<1>8. QED
  BY <1>3, <1>4, <1>5, <1>6, <1>7

LEMMA FailingStepsPrepare ==
  ASSUME BootInv, PrepInv, Lists',
         StepFails \/ Refused \/ Abandoned \/ ScriptStartFails \/ ScriptCut \/ WaitEnds
           \/ WriteCodexAuthFails
  PROVE  PrepInv'
<1>1. /\ doing = "booting" /\ todo # <<>> /\ UNCHANGED <<environment, scriptVars, probed, cancelled>>
      /\ \E canceled \in {TRUE, FALSE, cancelled} : Fails(canceled) /\ (canceled => cancelled)
  BY DEF StepFails, Refused, Abandoned, ScriptStartFails, ScriptCut, WaitEnds,
         WriteCodexAuthFails, At
<1>2. UNCHANGED <<listed, ran, probed>> /\ (cancelled => cancelled')
  <2>1. UNCHANGED <<listed, ran, probed>>
    BY <1>1 DEF scriptVars
  <2>2. cancelled => cancelled'
    BY <1>1, Zenon
  <2>3. QED
    BY <2>1, <2>2
<1>3. PICK canceled : Fails(canceled) /\ (canceled => cancelled)
  BY <1>1
<1>4. Preparing /\ environment' \in Environments
  BY <1>1 DEF PrepInv
<1>5. CASE Head(todo) \in Range(ConnectPlatform)
  <2>1. /\ todo' = Rest(cfg) /\ held' = Without(Releases(cfg, Head(todo)))
        /\ doing' = "ended" \/ doing' = doing
    BY <1>3, <1>5 DEF Fails, Ends, Rest
  <2>2. CASE doing' = "ended"
    BY <1>1, <1>2, <2>1, <2>2, EndStaysPrepared
  <2>3. CASE doing' = doing
    <3>1. Preparing'
      BY <1>1, <1>2, <1>4, <1>5, <2>1, RetryPrepares
    <3>2. QED
      BY <1>1, <1>4, <2>3, <3>1 DEF PrepInv
  <2>4. QED
    BY <2>1, <2>2, <2>3
<1>6. CASE Head(todo) \notin Range(ConnectPlatform)
  <2>1. /\ held' = held \/ held' = Without(Releases(cfg, Head(todo)))
        /\ doing' = "ended" \/ (doing' = "closing" /\ canceled)
    BY <1>3, <1>6 DEF Fails, Ends
  <2>2. doing' \in {"closing", "ended"} /\ (doing' = "closing" => cancelled)
        /\ (held' = held \/ \E rs : held' = Without(rs))
    BY <1>3, <2>1
  <2>3. QED
    BY <1>1, <1>2, <2>2, EndStaysPrepared
<1>7. QED
  BY <1>5, <1>6

LEMMA OtherStepsPrepare ==
  ASSUME BootInv, PrepInv, Lists',
         \/ Retry \/ StopsConnecting \/ Serve \/ RunReturns \/ Close \/ TurnFails
         \/ Login \/ Terminate \/ Kill \/ UNCHANGED bootVars
  PROVE  PrepInv'
<1>1. CASE Retry \/ Login \/ Terminate \/ UNCHANGED bootVars
  <2>1. /\ UNCHANGED <<environment, doing, todo, held, listed, ran, probed>>
        /\ (cancelled' \/ UNCHANGED cancelled)
    BY <1>1 DEF Retry, Login, Terminate, bootVars, scriptVars
  <2>2. cancelled => cancelled'
    BY <2>1, Zenon
  <2>3. CASE doing = "booting"
    <3>1. Preparing /\ Upward(cfg, todo')
      BY <2>1, <2>3 DEF PrepInv, Preparing
    <3>2. Preparing'
      BY <2>1, <3>1, PreparingHolds
    <3>3. QED
      BY <2>1, <2>3, <3>2 DEF PrepInv
  <2>4. CASE doing # "booting"
    <3>1. PreparedBeforeServing'
      BY <2>1, <2>2, <2>4, PreparedStays DEF PrepInv
    <3>2. QED
      BY <2>1, <2>2, <2>4, <3>1 DEF PrepInv
  <2>5. QED
    BY <2>3, <2>4
<1>2. CASE StopsConnecting \/ RunReturns \/ TurnFails \/ Kill
  <2>1. /\ UNCHANGED <<environment, held, ran, probed, cancelled>>
        /\ doing' \in {"closing", "ended"} /\ (doing' = "closing" => cancelled)
    BY <1>2 DEF StopsConnecting, RunReturns, TurnFails, Kill, Ends, scriptVars
  <2>2. cancelled => cancelled'
    BY <2>1, Zenon
  <2>3. QED
    BY <2>1, <2>2, EndStaysPrepared
<1>3. CASE Close
  <2>1. /\ doing = "closing" /\ UNCHANGED <<environment, ran, probed, cancelled>>
        /\ doing' \in {"closing", "ended"}
        /\ held' = held \/ held' = Without(Closes(Head(todo)))
    BY <1>3 DEF Close, Ends, scriptVars
  <2>2. (cancelled => cancelled') /\ cancelled
    <3>1. cancelled => cancelled'
      BY <2>1, Zenon
    <3>2. QED
      BY <2>1, <3>1 DEF PrepInv
  <2>3. QED
    BY <2>1, <2>2, EndStaysPrepared
<1>4. CASE Serve
  <2>1. /\ doing = "booting" /\ todo = <<>> /\ doing' = "serving"
        /\ UNCHANGED <<environment, held, ran, probed, cancelled>>
    BY <1>4 DEF Serve, scriptVars
  <2>2. cfg' = cfg
    BY <2>1 DEF cfg
  <2>3. ASSUME ~cancelled PROVE Prepared
    BY <2>1, <2>3, PreparedAtLast DEF PrepInv
  <2>4. ~cancelled' => ~cancelled
    BY <2>1, Zenon
  <2>5. Prepared => Prepared'
    BY <2>1, <2>2 DEF Prepared
  <2>6. PreparedBeforeServing'
    BY <2>3, <2>4, <2>5 DEF PreparedBeforeServing
  <2>7. QED
    BY <2>1, <2>6 DEF PrepInv
<1>5. QED
  BY <1>1, <1>2, <1>3, <1>4

LEMMA PrepStepKeeps == BootInv /\ PrepInv /\ [BootNext]_bootVars => PrepInv'
<1> SUFFICES ASSUME BootInv, PrepInv, [BootNext]_bootVars PROVE PrepInv'
  OBVIOUS
<1>1. Lists'
  BY ListsStepKeeps DEF PrepInv
<1>2. CASE Own
  BY <1>1, <1>2, AdvancingStepsPrepare, FailingStepsPrepare, OtherStepsPrepare DEF Own
<1>3. CASE Outside
  BY <1>1, <1>3, StartKeepsPrepared, AdvancingStepsPrepare, FailingStepsPrepare,
     OtherStepsPrepare DEF Outside
<1>4. CASE UNCHANGED bootVars
  BY <1>1, <1>4, OtherStepsPrepare
<1>5. QED
  BY <1>2, <1>3, <1>4 DEF BootNext

LEMMA PrepInitInv == BootInit => PrepInv
<1> SUFFICES ASSUME BootInit PROVE PrepInv
  OBVIOUS
<1>1. /\ environment \in Environments /\ doing = "ended" /\ held = NothingHeld
      /\ listed = <<>> /\ ran = <<>> /\ probed = <<>> /\ running = FALSE
  BY DEF BootInit
<1>2. Len(cfg.servers) \in Nat
  BY <1>1, ServersAreCounted
<1>3. \A S : <<>> \in Seq(S) /\ Len(<<>>) = 0 /\ DOMAIN <<>> = {}
  OBVIOUS
<1>4. Lists
  BY <1>1, <1>2, <1>3 DEF Lists
<1>5. held["cli"] = 0
  BY <1>1 DEF NothingHeld, Resources
<1>6. QED
  BY <1>1, <1>4, <1>5 DEF PrepInv, PreparedBeforeServing

\* A CLI that runs, or a holder that holds, without having been told to stop, finds every
\* init script of its workload's scopes run to an end of its own, in order, and agn every
\* MCP server ready, for any scripts, servers, retries, faults and starts (New, Run).
THEOREM BootPreparesBeforeServing == BootSpec => []PreparedBeforeServing
<1>1. BootInit => BootInv /\ PrepInv
  BY BootInitInv, PrepInitInv
<1>2. BootInv /\ PrepInv /\ [BootNext]_bootVars => BootInv' /\ PrepInv'
  BY BootStepKeeps, PrepStepKeeps
<1>3. BootInv /\ PrepInv => PreparedBeforeServing
  BY PreparedNow
<1>4. QED
  BY <1>1, <1>2, <1>3, PTL DEF BootSpec

-----------------------------------------------------------------------------
(* Types. *)

BootTypes ==
  /\ doing \in {"booting", "serving", "closing", "ended"}
  /\ fate \in {"none", "fatal", "stopped", "killed"}
  /\ tries \in 0..ConnectTries /\ (doing = "booting" => tries < ConnectTries)
  /\ running \in BOOLEAN /\ cancelled \in BOOLEAN
  /\ auth \in {"none", "empty", "placeholder", "login"}
  /\ loggedIn \in BOOLEAN /\ torn \in BOOLEAN /\ raced \in BOOLEAN
  /\ faults \in 0..MaxFaults /\ starts \in 0..MaxStarts

LEMMA FailsKeepsTypes ==
  ASSUME BootTypes, doing = "booting", NEW canceled, Fails(canceled)
  PROVE  /\ doing' \in {"booting", "closing", "ended"}
         /\ fate' \in {"none", "fatal", "stopped", "killed"}
         /\ tries' \in 0..ConnectTries /\ (doing' = "booting" => tries' < ConnectTries)
<1>1. tries \in 0..ConnectTries /\ tries < ConnectTries /\ ConnectTries \in Nat
      /\ fate \in {"none", "fatal", "stopped", "killed"}
  BY BootConstants DEF BootTypes
<1>2. CASE Head(todo) \in Range(ConnectPlatform)
  <2>1. tries' = tries + 1 /\ IF LastTry THEN Ends("fatal") ELSE UNCHANGED <<doing, fate>>
    BY <1>2 DEF Fails
  <2>2. CASE LastTry
    BY <1>1, <2>1, <2>2 DEF Ends
  <2>3. CASE ~LastTry
    BY <1>1, <2>1, <2>3 DEF LastTry
  <2>4. QED
    BY <2>2, <2>3
<1>3. CASE Head(todo) \notin Range(ConnectPlatform)
  <2>1. tries' = tries /\ doing' \in {"closing", "ended"} /\ fate' \in {fate, "fatal"}
    BY <1>3 DEF Fails, Ends
  <2>2. QED
    BY <1>1, <2>1
<1>4. QED
  BY <1>2, <1>3

LEMMA FaultCounts ==
  ASSUME BootTypes, Fault \/ UNCHANGED faults
  PROVE  faults' \in 0..MaxFaults
BY BootConstants DEF BootTypes, Fault

LEMMA TypesStepKeeps == BootTypes /\ [BootNext]_bootVars => BootTypes'
<1> SUFFICES ASSUME BootTypes, [BootNext]_bootVars PROVE BootTypes'
  OBVIOUS
<1>0. \A steps : At(steps) \in BOOLEAN
  BY DEF At
<1>1. CASE Start
  <2>1. /\ starts' = starts + 1 /\ starts < MaxStarts /\ tries' = 0 /\ running' = FALSE
        /\ UNCHANGED <<cancelled, auth, loggedIn, torn, raced, faults>>
    BY <1>1 DEF Start, Boots, authVars
  <2>2. doing' \in {"booting", "ended"} /\ fate' \in {"none", "fatal"}
    BY <1>1 DEF Start, Boots
  <2>3. 0 \in 0..ConnectTries /\ 0 < ConnectTries
    BY BootConstants
  <2>4. starts' \in 0..MaxStarts
    BY <2>1, BootConstants DEF BootTypes
  <2>5. QED
    BY <2>1, <2>2, <2>3, <2>4 DEF BootTypes
<1>2. CASE Local \/ Acquire \/ StartShellServer \/ Answered \/ ScriptsDone \/ ServersReady
           \/ Retry \/ Serve \/ StatCodexAuth \/ UNCHANGED bootVars
           \/ \E reply \in Replies : ProbeMCPService(reply)
  <2>1. /\ doing' \in {doing, "serving"} /\ fate' = fate /\ tries' \in {tries, 0}
        /\ UNCHANGED <<running, cancelled, auth, loggedIn, torn, raced, faults, starts>>
    BY <1>2 DEF Local, Acquire, StartShellServer, Answered, ScriptsDone, ServersReady, Retry,
                Serve, StatCodexAuth, ProbeMCPService, Advance, scriptVars, authVars, bootVars
  <2>2. 0 \in 0..ConnectTries /\ 0 < ConnectTries
    BY BootConstants
  <2>3. QED
    BY <2>1, <2>2 DEF BootTypes
<1>3. CASE StepFails \/ Refused \/ Abandoned \/ ScriptStartFails \/ ScriptCut \/ WaitEnds
  <2>1. /\ doing = "booting" /\ \E canceled \in {TRUE, FALSE, cancelled} : Fails(canceled)
        /\ UNCHANGED <<scriptVars, cancelled, authVars, starts>>
        /\ Fault \/ UNCHANGED faults
    BY <1>3 DEF StepFails, Refused, Abandoned, ScriptStartFails, ScriptCut, WaitEnds, At
  <2>2. /\ doing' \in {"booting", "closing", "ended"}
        /\ fate' \in {"none", "fatal", "stopped", "killed"}
        /\ tries' \in 0..ConnectTries /\ (doing' = "booting" => tries' < ConnectTries)
        /\ faults' \in 0..MaxFaults
    BY <2>1, FailsKeepsTypes, FaultCounts
  <2>3. QED
    BY <2>1, <2>2 DEF BootTypes, scriptVars, authVars
<1>4. CASE WriteCodexAuthFails
  <2>1. /\ doing = "booting" /\ Fails(FALSE) /\ Fault
        /\ UNCHANGED <<scriptVars, cancelled, auth, loggedIn, raced, starts>>
        /\ torn' = (torn \/ At({"authWrite"}))
    BY <1>4 DEF WriteCodexAuthFails, At
  <2>2. /\ doing' \in {"booting", "closing", "ended"}
        /\ fate' \in {"none", "fatal", "stopped", "killed"}
        /\ tries' \in 0..ConnectTries /\ (doing' = "booting" => tries' < ConnectTries)
        /\ faults' \in 0..MaxFaults
    BY <2>1, FailsKeepsTypes, FaultCounts
  <2>3. torn' \in BOOLEAN
    BY <2>1
  <2>4. QED
    BY <2>1, <2>2, <2>3 DEF BootTypes, scriptVars
<1>5. CASE WriteCodexAuth
  BY <1>5 DEF WriteCodexAuth, Advance, BootTypes, scriptVars
<1>6. CASE StartScript \/ ScriptEnds \/ ScriptKilled
  BY <1>6 DEF StartScript, ScriptEnds, ScriptKilled, Ran, BootTypes, authVars
<1>7. CASE StopsConnecting \/ RunReturns \/ Close
  BY <1>7 DEF StopsConnecting, RunReturns, Close, Ends, BootTypes, scriptVars, authVars
<1>8. CASE TurnFails
  <2>1. faults' \in 0..MaxFaults
    BY <1>8, FaultCounts DEF TurnFails
  <2>2. QED
    BY <1>8, <2>1 DEF TurnFails, Ends, BootTypes, scriptVars, authVars
<1>9. CASE Login
  <2>1. raced' \in BOOLEAN
    BY <1>0, <1>9 DEF Login
  <2>2. QED
    BY <1>9, <2>1 DEF Login, BootTypes, scriptVars
<1>10. CASE Terminate
  BY <1>10 DEF Terminate, BootTypes, scriptVars, authVars
<1>11. CASE Kill
  <2>1. torn' \in BOOLEAN
    BY <1>11 DEF Kill
  <2>2. QED
    BY <1>11, <2>1 DEF Kill, Ends, BootTypes, scriptVars
<1>12. QED
  BY <1>1, <1>2, <1>3, <1>4, <1>5, <1>6, <1>7, <1>8, <1>9, <1>10, <1>11
     DEF BootNext, Own, Outside

LEMMA TypesInit == BootInit => BootTypes
<1> SUFFICES ASSUME BootInit PROVE BootTypes
  OBVIOUS
<1>1. 0 \in 0..ConnectTries /\ 0 \in 0..MaxFaults /\ 0 \in 0..MaxStarts
  BY BootConstants
<1>2. QED
  BY <1>1 DEF BootInit, BootTypes

\* The boot's type invariant: among its bounds, no resource is opened twice, the platform
\* is not tried more often than there are delays and one, no script runs that was not
\* listed and no server is probed twice.
THEOREM BootIsTyped == BootSpec => []BootTypeOK
<1>1. BootInit => BootInv /\ PrepInv /\ BootTypes
  BY BootInitInv, PrepInitInv, TypesInit
<1>2. BootInv /\ PrepInv /\ BootTypes /\ [BootNext]_bootVars => BootInv' /\ PrepInv' /\ BootTypes'
  BY BootStepKeeps, PrepStepKeeps, TypesStepKeeps
<1>3. BootInv /\ PrepInv /\ BootTypes => BootTypeOK
  <2> SUFFICES ASSUME BootInv, PrepInv, BootTypes PROVE BootTypeOK
    OBVIOUS
  <2>1. Range(listed) \subseteq Scripts
    <3>1. listed \in Seq(Scripts)
      BY DEF PrepInv, Lists
    <3>2. QED
      BY <3>1, ElementsAreIn DEF Range
  <2>2. Len(ran) <= Len(listed) /\ Len(probed) <= Len(cfg.servers) /\ environment \in Environments
    BY DEF PrepInv, Lists
  <2>3. held \in [Resources -> 0..1] /\ built \in BOOLEAN /\ backoff \in BOOLEAN
    BY DEF BootInv
  <2>4. QED
    BY <2>1, <2>2, <2>3 DEF BootTypes, BootTypeOK
<1>4. QED
  BY <1>1, <1>2, <1>3, PTL DEF BootSpec

-----------------------------------------------------------------------------
(* The process, as the boot and the proxy in it see it. *)

LEMMA FollowingIsAStep ==
  ASSUME ProxyFollows
  PROVE  [ProxyNext]_proxyVars
BY DEF ProxyFollows, ProxyNext

LEMMA ProcessStepsTheProxy ==
  ASSUME [Next]_vars
  PROVE  [ProxyNext]_proxyVars
<1>1. CASE OwnStep
  <2>1. CASE ProxyCloses
    BY <2>1 DEF ProxyCloses, ProxyNext
  <2>2. QED
    BY <1>1, <2>1, FollowingIsAStep DEF OwnStep
<1>2. CASE OutsideStep
  BY <1>2, FollowingIsAStep DEF OutsideStep
<1>3. CASE Traffic
  BY <1>3 DEF Traffic, ProxyNext
<1>4. CASE UNCHANGED vars
  BY <1>4 DEF vars
<1>5. QED
  BY <1>1, <1>2, <1>3, <1>4 DEF Next

\* The process runs the proxy as the proxy is specified: it starts and closes it in order,
\* and nothing else it does reaches into the proxy's state.
THEOREM ProcessRunsTheProxy == Spec => ProxySpec
<1>1. Init => ProxyInit
  BY DEF Init
<1>2. [Next]_vars => [ProxyNext]_proxyVars
  BY ProcessStepsTheProxy
<1>3. QED
  BY <1>1, <1>2, PTL DEF Spec, ProxySpec

\* Every call the proxy of a process makes hangs off the last message of its own
\* conversation and gets the counts of one event, the one that follows it.
THEOREM ProcessCallsKeepTheirPlace == Spec => []CallsKeepTheirPlace
BY ProcessRunsTheProxy, ProxyCallsKeepTheirPlace, PTL

\* In a process too, once the requests of a client that gave none up are handled and none
\* of their exports failed, the service holds every message, call and span it told of, and
\* each call with the counts that followed it, the proxy's end and its drains included.
THEOREM ProcessRowsAreComplete == Spec => []RowsAreComplete
BY ProcessRunsTheProxy, ProxyRowsAreComplete, PTL

LEMMA ProcessStepsTheBoot ==
  ASSUME [Next]_vars
  PROVE  [BootNext]_bootVars
<1>1. CASE OwnStep
  BY <1>1 DEF OwnStep, ProxyCloses, BootNext
<1>2. CASE OutsideStep
  BY <1>2 DEF OutsideStep, BootNext
<1>3. CASE Traffic
  BY <1>3 DEF Traffic
<1>4. CASE UNCHANGED vars
  BY <1>4 DEF vars
<1>5. QED
  BY <1>1, <1>2, <1>3, <1>4 DEF Next

\* The process boots, serves and closes as Bootstrap specifies: to wait for the proxy's
\* drains delays a step of Close and changes none.
THEOREM ProcessRunsTheBoot == Spec => BootSpec
<1>1. Init => BootInit
  BY DEF Init
<1>2. [Next]_vars => [BootNext]_bootVars
  BY ProcessStepsTheBoot
<1>3. QED
  BY <1>1, <1>2, PTL DEF Spec, BootSpec

\* In a process that runs a proxy too, a CLI that runs without having been told to stop
\* finds every init script run to its end, in order, and agn every MCP server ready.
THEOREM ProcessPreparesBeforeServing == Spec => []PreparedBeforeServing
BY ProcessRunsTheBoot, BootPreparesBeforeServing, PTL

\* The state of the process and of its proxy has its type in every life.
THEOREM ProcessIsTyped == Spec => []TypeOK
<1>1. Spec => []BootTypeOK
  BY ProcessRunsTheBoot, BootIsTyped, PTL
<1>2. Spec => []ProxyTypeOK
  BY ProcessRunsTheProxy, ProxyIsTyped, PTL
<1>3. BootTypeOK /\ ProxyTypeOK => TypeOK
  BY DEF TypeOK
<1>4. QED
  BY <1>1, <1>2, <1>3, PTL

\* Between two attempts at the platform, when New has failed at any step, and after Close,
\* nothing is left of what the process acquired, the proxy it ran included.
THEOREM ProcessLeavesNothing == Spec => []NothingLeft
BY ProcessRunsTheBoot, BootLeavesNothing, PTL

\* Over any number of starts of a process, what a native codex finds as its credential is
\* the login somebody made, if one was, and otherwise the whole placeholder.
THEOREM ProcessCredentialStands == Spec => []CredentialStands
BY ProcessRunsTheBoot, BootCredentialStands, PTL

-----------------------------------------------------------------------------
(* The proxy and the CLI it is for. *)

\* agn's CLI starts after the proxy listens, and the proxy after it has its connection.
LEMMA AcquiredBefore ==
  ASSUME BootInv, doing = "booting", todo # <<>>
  PROVE  /\ Head(todo) = "proxyHTTP" => held["proxyConn"] = 1
         /\ Head(todo) = "cli" /\ cfg.sdk = "agn" => held["proxyHTTP"] = 1
<1>1. /\ Head(todo) \in Range(todo) /\ Plan(cfg, todo)
      /\ Range(todo) = {Head(todo)} \union Range(Tail(todo))
      /\ \A x \in Range(Tail(todo)) : Rank(cfg, Head(todo)) < Rank(cfg, x)
      /\ \A a \in Acquires : held[Opens(a)] = 1 <=> a \in AcquiresFor(cfg) /\ a \notin Range(todo)
  BY HeadIsInPlan DEF BootInv, Booting
<1>2. Head(todo) \in PrepareSteps \union StepsOfNew(cfg) \/ Rank(cfg, Head(todo)) >= 50
  BY <1>1 DEF Plan
<1>3. ASSUME Head(todo) = "proxyHTTP" PROVE held["proxyConn"] = 1
  <2>1. Rank(cfg, "proxyHTTP") = 34 /\ Rank(cfg, "proxyConn") = 32
    BY DEF Rank
  <2>2. "proxyConn" \notin Range(todo)
    BY <1>1, <1>3, <2>1
  <2>3. "proxyHTTP" \in StepsOfNew(cfg)
    BY <1>2, <1>3, <2>1 DEF PrepareSteps
  <2>4. "proxyConn" \in AcquiresFor(cfg)
    BY <2>3 DEF StepsOfNew, AcquiresFor, CommonSteps, IsAgn, IsCodex, IsClaude
  <2>5. QED
    BY <1>1, <2>2, <2>4 DEF Acquires, Opens
<1>4. ASSUME Head(todo) = "cli", cfg.sdk = "agn" PROVE held["proxyHTTP"] = 1
  <2>1. Rank(cfg, "cli") = 40 /\ Rank(cfg, "proxyHTTP") = 34
    BY DEF Rank
  <2>2. "proxyHTTP" \notin Range(todo)
    BY <1>1, <1>4, <2>1
  <2>3. "cli" \in StepsOfNew(cfg)
    BY <1>2, <1>4, <2>1 DEF PrepareSteps
  <2>4. "proxyHTTP" \in AcquiresFor(cfg)
    BY <1>4, <2>3 DEF StepsOfNew, AcquiresFor, CommonSteps, IsAgn, IsCodex, IsClaude
  <2>5. QED
    BY <1>1, <2>2, <2>4 DEF Acquires, Opens
<1>5. QED
  BY <1>3, <1>4

\* What a step of a process that goes on changes of what it holds.
HoldsOn ==
  /\ held' = held
  /\ \/ doing' = doing /\ (doing = "closing" => todo' = todo)
     \/ doing = "booting" /\ doing' = "serving"
     \/ doing # "closing" /\ doing' = "closing" /\ todo' = CloseOrder

TakesOne ==
  /\ doing = "booting" /\ doing' = "booting" /\ todo # <<>> /\ Head(todo) \in Acquires
  /\ held' = [held EXCEPT ![Opens(Head(todo))] = @ + 1]

GivesGatewayBack ==
  /\ doing = "booting" /\ doing' = "booting"
  /\ \A r \in Resources \ {"gateway"} : held'[r] = held[r]

ClosesOne ==
  /\ doing = "closing" /\ doing' = "closing" /\ todo # <<>>
  /\ held' = Without(Closes(Head(todo))) /\ todo' = Tail(todo)

LEMMA FailureMoves ==
  ASSUME BootInv, NEW canceled, doing = "booting", Fails(canceled), doing' # "ended"
  PROVE  HoldsOn \/ GivesGatewayBack
<1> DEFINE h == Head(todo)
<1>1. CASE h \in Range(ConnectPlatform)
  <2>1. doing' = "booting" /\ held' = Without(Releases(cfg, h))
    BY <1>1 DEF Fails, Ends
  <2>2. h \in {"dial", "getAgent", "listSkills", "resolve"}
    BY <1>1 DEF ConnectPlatform, Range
  <2>3. Releases(cfg, h) \subseteq {"gateway"}
    BY <2>2 DEF Releases
  <2>4. QED
    BY <2>1, <2>3 DEF GivesGatewayBack, Without
<1>2. CASE h \notin Range(ConnectPlatform)
  BY <1>2 DEF Fails, Ends, HoldsOn
<1>3. QED
  BY <1>1, <1>2

LEMMA ProcessMoves ==
  ASSUME BootInv, Own \/ Outside, doing # "ended", doing' # "ended"
  PROVE  /\ environment' = environment
         /\ HoldsOn \/ TakesOne \/ GivesGatewayBack \/ ClosesOne
         /\ Outside => HoldsOn \/ GivesGatewayBack
<1>1. ASSUME \E canceled \in {TRUE, FALSE, cancelled} :
               doing = "booting" /\ Fails(canceled) /\ environment' = environment
      PROVE  environment' = environment /\ (HoldsOn \/ GivesGatewayBack)
  BY <1>1, FailureMoves
<1>2. ASSUME Acquire PROVE environment' = environment /\ TakesOne
  BY <1>2 DEF Acquire, At, Advance, TakesOne
<1>3. ASSUME Close PROVE environment' = environment /\ ClosesOne
  BY <1>3 DEF Close, Ends, ClosesOne
<1>4. ASSUME Local \/ Retry \/ StartShellServer \/ Serve \/ RunReturns \/ StartScript
               \/ ScriptKilled \/ ScriptsDone \/ ServersReady \/ StatCodexAuth
               \/ WriteCodexAuth
      PROVE  environment' = environment /\ HoldsOn
  BY <1>4 DEF Local, Retry, StartShellServer, Serve, RunReturns, StartScript, ScriptKilled, Ran,
              ScriptsDone, ServersReady, StatCodexAuth, WriteCodexAuth, At, Advance, HoldsOn
<1>5. ASSUME Answered \/ ScriptEnds \/ (\E reply \in Replies : ProbeMCPService(reply))
               \/ Login \/ Terminate
      PROVE  environment' = environment /\ HoldsOn
  BY <1>5 DEF Answered, ScriptEnds, Ran, ProbeMCPService, Login, Terminate, At, Advance, HoldsOn
<1>6. ASSUME StepFails \/ Abandoned \/ ScriptStartFails \/ ScriptCut \/ WaitEnds
               \/ WriteCodexAuthFails \/ Refused
      PROVE  \E canceled \in {TRUE, FALSE, cancelled} :
               doing = "booting" /\ Fails(canceled) /\ environment' = environment
  BY <1>6 DEF StepFails, Abandoned, ScriptStartFails, ScriptCut, WaitEnds, WriteCodexAuthFails,
              Refused, At
<1>7. ~StopsConnecting /\ ~TurnFails /\ ~Kill /\ ~Start
  BY DEF StopsConnecting, TurnFails, Kill, Start, Ends
<1>8. ASSUME Outside PROVE environment' = environment /\ (HoldsOn \/ GivesGatewayBack)
  BY <1>1, <1>5, <1>6, <1>7, <1>8 DEF Outside
<1>9. ASSUME Own
      PROVE  environment' = environment /\ (HoldsOn \/ TakesOne \/ GivesGatewayBack \/ ClosesOne)
  BY <1>1, <1>2, <1>3, <1>4, <1>6, <1>7, <1>9 DEF Own
<1>10. QED
  BY <1>8, <1>9

\* The proxy listens from when its second listener is acquired until Close reaches it, and
\* Close reaches the CLI first.
ProxyServesCLI ==
  /\ doing = "ended" => listening = "off" /\ ~clientsUp
  /\ listening # "off" => held["proxyConn"] = 1
  /\ doing \in {"booting", "serving"} /\ held["proxyHTTP"] = 1 => listening = "up"
  /\ clientsUp =>
       /\ listening = "up" /\ held["cli"] = 1 /\ cfg.sdk = "agn"
       /\ doing = "closing" => todo = CloseOrder

LEMMA ProcessStepKeeps ==
  ASSUME BootInv, BootInv', ProxyServesCLI, Own \/ Outside,
         Outside \/ (ClosesProxy => listening = "off"), ProxyFollows
  PROVE  ProxyServesCLI'
<1>1. held \in [Resources -> 0..1] /\ held' \in [Resources -> 0..1]
      /\ {"cli", "proxyConn", "proxyHTTP", "exporter", "gateway"} \subseteq Resources
  BY DEF BootInv, Resources
<1>2. CASE doing = "ended"
  <2>1. UNCHANGED proxyVars /\ listening = "off" /\ ~clientsUp
    BY <1>2 DEF ProxyFollows, ProxyServesCLI
  <2>2. listening' = "off" /\ ~clientsUp'
    BY <2>1 DEF proxyVars, clientVars
  <2>3. doing' = "ended" \/ held' = NothingHeld
    BY <1>2 DEF Own, Outside, Local, Acquire, StepFails, Retry, StopsConnecting, StartShellServer,
                Serve, RunReturns, Close, Abandoned, StartScript, ScriptStartFails, ScriptKilled,
                ScriptCut, ScriptsDone, WaitEnds, ServersReady, StatCodexAuth, WriteCodexAuth,
                WriteCodexAuthFails, TurnFails, Answered, Refused, ScriptEnds, ProbeMCPService,
                Login, Terminate, Kill, At, Start, Boots
  <2>4. QED
    BY <1>1, <2>2, <2>3 DEF ProxyServesCLI, NothingHeld
<1>3. CASE doing # "ended" /\ doing' = "ended"
  <2>1. listening' = "off" /\ ~clientsUp'
    BY <1>3 DEF ProxyFollows, ProxyVanish
  <2>2. QED
    BY <1>3, <2>1 DEF ProxyServesCLI
<1>4. CASE doing # "ended" /\ doing' # "ended"
  <2>1. environment' = environment /\ cfg' = cfg
    BY <1>4, ProcessMoves DEF cfg
  <2>2. CASE HoldsOn
    <3>1. held' = held /\ listening' = listening /\ clientsUp' = clientsUp
      BY <1>1, <1>4, <2>2 DEF HoldsOn, ProxyFollows, proxyVars, clientVars
    <3>2. QED
      BY <1>4, <2>1, <2>2, <3>1 DEF HoldsOn, ProxyServesCLI
  <2>3. CASE GivesGatewayBack
    <3>1. /\ held'["cli"] = held["cli"] /\ held'["proxyHTTP"] = held["proxyHTTP"]
          /\ held'["proxyConn"] = held["proxyConn"]
      BY <1>1, <2>3 DEF GivesGatewayBack
    <3>2. listening' = listening /\ clientsUp' = clientsUp
      BY <1>1, <1>4, <3>1 DEF ProxyFollows, proxyVars, clientVars
    <3>3. QED
      BY <2>1, <2>3, <3>1, <3>2 DEF GivesGatewayBack, ProxyServesCLI
  <2>4. CASE TakesOne
    <3>1. doing = "booting" /\ doing' = "booting" /\ todo # <<>> /\ Head(todo) \in Acquires
      BY <2>4 DEF TakesOne
    <3>2. \A r \in Resources : held'[r] = IF r = Opens(Head(todo)) THEN held[r] + 1 ELSE held[r]
      BY <1>1, <2>4 DEF TakesOne
    <3>3. CASE Head(todo) = "proxyHTTP"
      <4>1. /\ held'["proxyHTTP"] > held["proxyHTTP"] /\ held["proxyConn"] = 1
            /\ held'["proxyConn"] = 1 /\ held'["cli"] = held["cli"]
        BY <1>1, <3>1, <3>2, <3>3, AcquiredBefore DEF Opens
      <4>2. listening' = "up" /\ clientsUp' = clientsUp
        BY <1>4, <4>1 DEF ProxyFollows, ProxyStart, clientVars
      <4>3. QED
        BY <2>1, <3>1, <4>1, <4>2 DEF ProxyServesCLI
    <3>4. CASE Head(todo) = "cli"
      <4>1. /\ held'["proxyHTTP"] = held["proxyHTTP"] /\ held'["proxyConn"] = held["proxyConn"]
            /\ held'["cli"] > held["cli"] /\ held'["cli"] = 1
        BY <1>1, <3>2, <3>4 DEF Opens
      <4>2. CASE cfg.sdk = "agn"
        <5>1. held["proxyHTTP"] = 1
          BY <3>1, <3>4, <4>2, AcquiredBefore
        <5>2. listening = "up"
          BY <3>1, <5>1 DEF ProxyServesCLI
        <5>3. listening' = listening
          BY <1>1, <1>4, <4>1, <4>2 DEF ProxyFollows, ClientsStart
        <5>4. QED
          BY <2>1, <3>1, <4>1, <4>2, <5>2, <5>3 DEF ProxyServesCLI
      <4>3. CASE cfg.sdk # "agn"
        <5>1. listening' = listening /\ clientsUp' = clientsUp
          BY <1>1, <1>4, <4>1, <4>3 DEF ProxyFollows, proxyVars, clientVars
        <5>2. QED
          BY <2>1, <3>1, <4>1, <4>3, <5>1 DEF ProxyServesCLI
      <4>4. QED
        BY <4>2, <4>3
    <3>5. CASE Head(todo) \notin {"proxyHTTP", "cli"}
      <4>1. /\ held'["proxyHTTP"] = held["proxyHTTP"] /\ held'["cli"] = held["cli"]
            /\ held["proxyConn"] = 1 => held'["proxyConn"] = 1
        BY <1>1, <3>1, <3>2, <3>5 DEF Opens, Acquires
      <4>2. listening' = listening /\ clientsUp' = clientsUp
        BY <1>1, <1>4, <4>1 DEF ProxyFollows, proxyVars, clientVars
      <4>3. QED
        BY <2>1, <3>1, <4>1, <4>2 DEF ProxyServesCLI
    <3>6. QED
      BY <3>3, <3>4, <3>5
  <2>5. CASE ClosesOne /\ ~Outside
    <3>1. doing = "closing" /\ doing' = "closing" /\ todo # <<>> /\ todo' = Tail(todo)
      BY <2>5 DEF ClosesOne
    <3>2. \A r \in Resources :
            held'[r] = IF r \in Closes(Head(todo)) /\ held[r] > 0 THEN held[r] - 1 ELSE held[r]
      BY <2>5 DEF ClosesOne, Without
    <3>3. ~(held'["proxyHTTP"] > held["proxyHTTP"]) /\ ~(held'["cli"] > held["cli"])
      BY <1>1, <3>2
    <3>4. listening' = listening
      BY <1>4, <3>3 DEF ProxyFollows, ClientsEnd, proxyVars, clientVars
    <3>5. listening # "off" => held'["proxyConn"] = 1
      <4>1. listening # "off" => Head(todo) # "proxy" /\ held["proxyConn"] = 1
        BY <2>5, <3>1 DEF ClosesProxy, ProxyServesCLI
      <4>2. Head(todo) # "proxy" => "proxyConn" \notin Closes(Head(todo))
        <5>1. Head(todo) \in {"cli", "exporter", "proxy", "gateway"}
          <6>1. Closing
            BY <3>1 DEF BootInv
          <6>2. Range(CloseOrder) \subseteq {"cli", "exporter", "proxy", "gateway"}
            BY DEF CloseOrder, Range
          <6>3. QED
            BY <3>1, <6>1, <6>2 DEF Closing
        <5>2. QED
          BY <5>1 DEF Closes
      <4>3. QED
        BY <1>1, <3>2, <4>1, <4>2
    <3>6. ~clientsUp'
      <4>1. CASE clientsUp
        <5>1. todo = CloseOrder /\ held["cli"] = 1 /\ cfg.sdk = "agn"
          BY <3>1, <4>1 DEF ProxyServesCLI
        <5>2. Head(todo) = "cli"
          BY <5>1 DEF CloseOrder
        <5>3. held'["cli"] < held["cli"]
          BY <1>1, <3>2, <5>1, <5>2 DEF Closes
        <5>4. QED
          BY <1>4, <3>3, <5>1, <5>3 DEF ProxyFollows, ClientsEnd
      <4>2. CASE ~clientsUp
        BY <1>4, <3>3, <4>2 DEF ProxyFollows, ClientsEnd, proxyVars, clientVars
      <4>3. QED
        BY <4>1, <4>2
    <3>7. QED
      BY <3>1, <3>4, <3>5, <3>6 DEF ProxyServesCLI
  <2>6. QED
    BY <1>4, <2>2, <2>3, <2>4, <2>5, ProcessMoves
<1>5. QED
  BY <1>2, <1>3, <1>4

LEMMA DrainsKeep ==
  ASSUME ProxyServesCLI, ProxyCloses
  PROVE  ProxyServesCLI'
<1>1. /\ doing = "closing" /\ todo # <<>> /\ Head(todo) = "proxy"
      /\ UNCHANGED <<environment, doing, todo, held>>
  BY DEF ProxyCloses, ClosesProxy, bootVars
<1>2. ~clientsUp
  <2>1. todo # CloseOrder
    BY <1>1 DEF CloseOrder
  <2>2. QED
    BY <1>1, <2>1 DEF ProxyServesCLI
<1>3. listening # "off" /\ clientsUp' = clientsUp
  BY DEF ProxyCloses, ProxyClose, StopGRPC, ShutdownHTTP, clientVars
<1>4. QED
  BY <1>1, <1>2, <1>3 DEF ProxyServesCLI

LEMMA StillsKeep ==
  ASSUME ProxyServesCLI, UNCHANGED <<listening, clientsUp>>, UNCHANGED bootVars
  PROVE  ProxyServesCLI'
BY DEF ProxyServesCLI, bootVars, cfg

LEMMA RepliesKeepListening ==
  ASSUME NEW h, NEW spans, Handled(h, spans) \/ Replied(h)
  PROVE  UNCHANGED clientsUp
BY DEF Handled, Replied, clientVars

LEMMA TrafficKeepsListening ==
  ASSUME ProxyServe
  PROVE  UNCHANGED <<listening, clientsUp>>
<1>1. ASSUME NEW c \in Clients, GiveUp(c) PROVE UNCHANGED <<listening, clientsUp>>
  BY <1>1 DEF GiveUp
<1>2. ASSUME NEW c \in Clients, NEW n \in 1..MaxBatch, Send(c, n)
      PROVE  UNCHANGED <<listening, clientsUp>>
  BY <1>2 DEF Send
<1>3. ASSUME NEW h \in handlers, HandlerStep(h) PROVE UNCHANGED <<listening, clientsUp>>
  <2>1. listening' = listening
    BY <1>3 DEF HandlerStep, Unread, MessageSpan, LlmCallSpan, RememberLLMCall, TakeLLMCall,
                LlmCallUsageSpan, SpanForRecord, PassSpan, SizeExport, WriteExport, WriteFails,
                ExportLands, ExportFails
  <2>2. UNCHANGED clientVars \/ Replied(h) \/ \E spans : Handled(h, spans)
    BY <1>3 DEF HandlerStep, Unread, MessageSpan, LlmCallSpan, RememberLLMCall, TakeLLMCall,
                LlmCallUsageSpan, SpanForRecord, PassSpan, SizeExport, WriteExport, WriteFails,
                ExportLands, ExportFails
  <2>3. QED
    BY <2>1, <2>2, RepliesKeepListening DEF clientVars
<1>4. ASSUME LateExportLands PROVE UNCHANGED <<listening, clientsUp>>
  BY <1>4 DEF LateExportLands, clientVars
<1>5. QED
  BY <1>1, <1>2, <1>3, <1>4 DEF ProxyServe

LEMMA ProxyStaysUp ==
  ASSUME BootInv, ProxyServesCLI, [Next]_vars
  PROVE  BootInv' /\ ProxyServesCLI'
<1>1. BootInv'
  BY ProcessStepsTheBoot, BootStepKeeps
<1>2. CASE OwnStep
  <2>1. CASE ProxyCloses
    BY <1>1, <2>1, DrainsKeep
  <2>2. QED
    BY <1>1, <1>2, <2>1, ProcessStepKeeps DEF OwnStep
<1>3. CASE OutsideStep
  BY <1>1, <1>3, ProcessStepKeeps DEF OutsideStep
<1>4. CASE Traffic
  BY <1>1, <1>4, TrafficKeepsListening, StillsKeep DEF Traffic
<1>5. CASE UNCHANGED vars
  BY <1>1, <1>5, StillsKeep DEF vars, proxyVars, clientVars
<1>6. QED
  BY <1>1, <1>2, <1>3, <1>4, <1>5 DEF Next

\* For as long as agn runs there is a proxy that listens, and for as long as the proxy
\* handles what it took, the connection it exports over is open: New acquires them before
\* the CLI, in this order, and Close ends the CLI before it reaches the proxy.
THEOREM ProcessKeepsTheProxyUp == Spec => []ProxyOutlivesCLI
<1>1. Init => BootInv /\ ProxyServesCLI
  <2>1. BootInit => BootInv
    BY BootInitInv
  <2>2. Init => ProxyServesCLI
    BY DEF Init, BootInit, ProxyInit, ProxyServesCLI
  <2>3. QED
    BY <2>1, <2>2 DEF Init
<1>2. BootInv /\ ProxyServesCLI /\ [Next]_vars => (BootInv /\ ProxyServesCLI)'
  BY ProxyStaysUp
<1>3. BootInv /\ ProxyServesCLI => ProxyOutlivesCLI
  BY DEF ProxyServesCLI, ProxyOutlivesCLI
<1>4. QED
  BY <1>1, <1>2, <1>3, PTL DEF Spec

=============================================================================
