---------------------------- MODULE ThreadMapping ----------------------------
(***************************************************************************)
(* ensureCodexThread: which codex thread the agent instance talks in.  The *)
(* handler looks in memory, then on disk, and starts a thread when neither *)
(* knows of one; every turn saves the record again, with the time of use.  *)
(* Save writes a temporary file, syncs it, renames it over the record and  *)
(* sets its mode; any of that may fail, the process may be killed between  *)
(* two steps, the machine may lose its power, and the wall clock the       *)
(* record is stamped with may be set back.                                 *)
(***************************************************************************)
EXTENDS Integers

CONSTANTS
  MaxThreads,   \* bound: threads the app-server starts
  MaxClock,     \* bound: the latest time
  MaxSetBacks,  \* bound: times the wall clock is set back
  MaxFaults,    \* bound: calls that fail
  MaxKills,     \* bound: kills of the process
  MaxLosses     \* bound: losses of power

ASSUME MaxThreadsAssumption == MaxThreads \in Nat
ASSUME MaxClockAssumption == MaxClock \in Nat \ {0}
ASSUME BoundsAssumption ==
  /\ MaxSetBacks \in Nat /\ MaxFaults \in Nat
  /\ MaxKills \in Nat /\ MaxLosses \in Nat

Times == 1..MaxClock

(* ThreadMappingRecord.  Thread 0 is no thread: NoRecord stands for a record  *)
(* that is not there, Torn for a file of which part is missing.              *)
Records == [thread : 0..MaxThreads, created : 0..MaxClock, used : 0..MaxClock]
NoRecord == [thread |-> 0, created |-> 0, used |-> 0]
Torn == [thread |-> 0, created |-> 1, used |-> 0]

Valid(r) == r.thread > 0 /\ r.created > 0 /\ r.used > 0 /\ r.used >= r.created

VARIABLES
  pc,       \* where ensureCodexThread is; "turn" when it has returned a thread,
            \* "idle" between two messages, "down" when there is no process
  memory,   \* the mapping's record of the instance
  file,     \* the record on disk, as a process reads it
  entries,  \* what the file may turn out to be after a loss of power
  synced,   \* the temporary file's data are on disk
  temps,    \* temporary files in the directory
  started,  \* threads started, 1..started
  clock,    \* the wall clock
  setBacks, faults, kills, losses,
  (* history *)
  turned,   \* threads in which a turn has run
  undone    \* a loss of power took back the rename that made the record

worldVars == <<clock, setBacks>>
boundVars == <<faults, kills, losses>>
diskVars  == <<file, entries, temps>>
pastVars  == <<turned, undone>>
vars == <<pc, memory, diskVars, synced, started, worldVars, boundVars, pastVars>>

Fault == faults < MaxFaults /\ faults' = faults + 1 /\ UNCHANGED <<kills, losses>>

Init ==
  /\ pc = "idle" /\ memory = NoRecord
  /\ file = NoRecord /\ entries = {NoRecord} /\ synced = FALSE /\ temps = 0
  /\ started = 0
  /\ clock = 1 /\ setBacks = 0
  /\ faults = 0 /\ kills = 0 /\ losses = 0
  /\ turned = {} /\ undone = FALSE

-----------------------------------------------------------------------------
(* Finding the thread. *)

\* SetRecord, with the record used now; Save is next.
Remember(r) == memory' = [r EXCEPT !.used = clock] /\ pc' = "check"

EnsureCached ==
  /\ pc = "idle" /\ memory # NoRecord
  /\ Remember(memory)
  /\ UNCHANGED <<diskVars, synced, started, worldVars, boundVars, pastVars>>

\* Load: no file, a record, or a file that does not parse or validate, which
\* fails the message.
EnsureLoads ==
  /\ pc = "idle" /\ memory = NoRecord
  /\ \/ file = NoRecord /\ pc' = "start"
     \/ file # NoRecord /\ Valid(file) /\ pc' = "resume"
     \/ file # NoRecord /\ ~Valid(file) /\ UNCHANGED pc
  /\ UNCHANGED <<memory, diskVars, synced, started, worldVars, boundVars, pastVars>>

Resumes ==
  /\ pc = "resume"
  /\ Remember(file)
  /\ UNCHANGED <<diskVars, synced, started, worldVars, boundVars, pastVars>>

NewRecord == [thread |-> started + 1, created |-> clock, used |-> clock]

Starts ==
  /\ pc = "start"
  /\ started < MaxThreads
  /\ started' = started + 1
  /\ Remember(NewRecord)
  /\ UNCHANGED <<diskVars, synced, worldVars, boundVars, pastVars>>

\* ResumeThread or StartThread fails; StartThread may have started a thread all
\* the same.  (A file that cannot be read fails the message and changes nothing.)
EnsureFails ==
  /\ pc \in {"resume", "start"}
  /\ Fault
  /\ pc' = "idle"
  /\ \/ UNCHANGED started
     \/ pc = "start" /\ started < MaxThreads /\ started' = started + 1
  /\ UNCHANGED <<memory, diskVars, synced, worldVars, pastVars>>

-----------------------------------------------------------------------------
(* ThreadMappingStore.Save of the record in memory. *)

\* MUTANT: the record is not validated before it is saved.
ChecksUnvalidated ==
  /\ pc = "check"
  /\ temps' = temps + 1 /\ pc' = "write"
  /\ synced' = FALSE
  /\ UNCHANGED <<memory, file, entries, started, worldVars, boundVars, pastVars>>

\* An invalid record is refused; for a valid one a temporary file is created.
Checks ==
  /\ pc = "check"
  /\ IF Valid(memory)
     THEN temps' = temps + 1 /\ pc' = "write"
     ELSE UNCHANGED temps /\ pc' = "idle"
  /\ synced' = FALSE
  /\ UNCHANGED <<memory, file, entries, started, worldVars, boundVars, pastVars>>

\* MUTANT: the file is renamed without having been synced.
WritesUnsynced ==
  /\ pc = "write"
  /\ pc' = "rename"
  /\ UNCHANGED <<memory, diskVars, synced, started, worldVars, boundVars, pastVars>>

\* The payload is written, synced and closed.
Writes ==
  /\ pc = "write"
  /\ pc' = "rename" /\ synced' = TRUE
  /\ UNCHANGED <<memory, diskVars, started, worldVars, boundVars, pastVars>>

\* The new entry of the directory is not synced.
Renames ==
  /\ pc = "rename"
  /\ pc' = "chmod"
  /\ file' = memory
  /\ entries' = entries \union {IF synced THEN memory ELSE Torn}
  /\ temps' = temps - 1
  /\ UNCHANGED <<memory, synced, started, worldVars, boundVars, pastVars>>

Chmods ==
  /\ pc = "chmod"
  /\ pc' = "turn"
  /\ UNCHANGED <<memory, diskVars, synced, started, worldVars, boundVars, pastVars>>

\* MUTANT: the temporary file is left when a step fails.
CleansUpNothing == UNCHANGED temps

\* MUTANT: the temporary file is removed also where there is none.
CleansUpAlways == temps' = temps - 1

\* cleanup: the temporary file, if it was made and not renamed, is removed.
CleansUp == temps' = IF pc \in {"write", "rename"} THEN temps - 1 ELSE temps

\* MUTANT: a record that could not be saved does not keep the turn from running.
SaveFailsLogged ==
  /\ pc \in {"check", "write", "rename", "chmod"}
  /\ Fault
  /\ CleansUp
  /\ pc' = "turn"
  /\ UNCHANGED <<memory, file, entries, synced, started, worldVars, pastVars>>

\* Any step of Save fails, and with it the message.  The record stays in memory.
SaveFails ==
  /\ pc \in {"check", "write", "rename", "chmod"}
  /\ Fault
  /\ CleansUp
  /\ pc' = "idle"
  /\ UNCHANGED <<memory, file, entries, synced, started, worldVars, pastVars>>

\* The turn runs in the thread that was returned.
Turns ==
  /\ pc = "turn"
  /\ turned' = turned \union {memory.thread}
  /\ pc' = "idle"
  /\ UNCHANGED <<memory, diskVars, synced, started, worldVars, boundVars, undone>>

-----------------------------------------------------------------------------
(* The world. *)

Tick ==
  /\ clock < MaxClock
  /\ clock' = clock + 1
  /\ UNCHANGED <<pc, memory, diskVars, synced, started, setBacks, boundVars, pastVars>>

SetBack ==
  /\ setBacks < MaxSetBacks /\ setBacks' = setBacks + 1
  /\ clock' \in 1..(clock - 1)
  /\ UNCHANGED <<pc, memory, diskVars, synced, started, boundVars, pastVars>>

\* The file system writes the directory back in its own time.
WriteBack ==
  /\ entries # {file}
  /\ entries' = {file}
  /\ UNCHANGED <<pc, memory, file, temps, synced, started, worldVars, boundVars, pastVars>>

Kill ==
  /\ pc # "down"
  /\ kills < MaxKills /\ kills' = kills + 1
  /\ pc' = "down" /\ memory' = NoRecord
  /\ UNCHANGED <<diskVars, synced, started, worldVars, faults, losses, pastVars>>

PowerLoss ==
  /\ pc # "down"
  /\ losses < MaxLosses /\ losses' = losses + 1
  /\ pc' = "down" /\ memory' = NoRecord
  /\ file' \in entries
  /\ entries' = {file'}
  /\ undone' = (undone \/ (file # NoRecord /\ file' = NoRecord))
  /\ UNCHANGED <<temps, synced, started, worldVars, faults, kills, turned>>

Boot ==
  /\ pc = "down"
  /\ pc' = "idle"
  /\ UNCHANGED <<memory, diskVars, synced, started, worldVars, boundVars, pastVars>>

-----------------------------------------------------------------------------

Ensure == EnsureCached \/ EnsureLoads \/ Resumes \/ Starts \/ EnsureFails
Save == Checks \/ Writes \/ Renames \/ Chmods \/ SaveFails

Next ==
  \/ Ensure \/ Save \/ Turns
  \/ Tick \/ SetBack \/ WriteBack
  \/ Kill \/ PowerLoss \/ Boot

Spec == Init /\ [][Next]_vars

\* Messages keep coming, or are retried; the process is restarted; and the
\* clock goes on.
FairSpec ==
  /\ Spec
  /\ WF_vars(Ensure \/ Save \/ Turns) /\ WF_vars(Boot) /\ WF_vars(Tick)

-----------------------------------------------------------------------------
(* Properties. *)

RecordsOK ==
  /\ memory \in Records /\ file \in Records
  /\ entries \subseteq Records
  /\ started \in 0..MaxThreads
  /\ clock \in Times

CountersOK ==
  /\ pc \in {"idle", "resume", "start", "check", "write", "rename", "chmod", "turn", "down"}
  /\ temps \in Nat /\ (pc \in {"write", "rename"} => temps > 0)
  /\ setBacks \in 0..MaxSetBacks /\ faults \in 0..MaxFaults
  /\ kills \in 0..MaxKills /\ losses \in 0..MaxLosses
  /\ turned \subseteq 0..MaxThreads

FlagsOK == synced \in BOOLEAN /\ undone \in BOOLEAN

\* The type invariant.
TypeOK == RecordsOK /\ CountersOK /\ FlagsOK

\* The file is always one that Load accepts, or not there: a kill or a loss of
\* power in the middle of Save leaves the old record or the new one (sync before
\* rename), and a clock set back never gets a record on disk that would be
\* refused for ever after (validate before save).
AlwaysLoads == file = NoRecord \/ Valid(file)

\* When a turn runs, a process started after it would resume the thread it runs
\* in: no turn runs in a thread that only memory knows of.
TurnsAreRecorded == pc = "turn" => file.thread = memory.thread

\* All turns of the instance run in one thread, across failures, kills and
\* restarts; unless a loss of power took back the directory entry of the first
\* record, which is not synced.
OneConversation == undone \/ \A t, u \in turned : t = u

\* Save leaves its temporary file behind only when it is cut off.
NoLitter == temps <= kills + losses + (IF pc \in {"write", "rename"} THEN 1 ELSE 0)

\* The instance never loses the ability to talk: whatever failed, was killed or
\* was set back, a turn runs in the end.
TalksAgain == []<>(pc = "turn")

\* What the properties above rest on.  Every record on disk, or that a loss of
\* power may bring back, is valid and of one thread.
DiskOK ==
  /\ file \in entries
  /\ \A e \in entries : e # NoRecord => Valid(e) /\ e.thread = file.thread

\* Memory holds a record of the same thread, saved by the time a turn runs, and
\* a thread is resumed or started only when there is none in memory.
MemoryOK ==
  /\ memory # NoRecord => memory.thread > 0 /\ memory.created > 0 /\ memory.used > 0
  /\ memory # NoRecord /\ file # NoRecord => memory.thread = file.thread
  /\ pc \in {"check", "write", "rename", "chmod", "turn"} => memory # NoRecord
  /\ pc \in {"write", "rename"} => Valid(memory)
  /\ pc = "rename" => synced
  /\ pc \in {"chmod", "turn"} => file = memory
  /\ pc \in {"resume", "start", "down"} => memory = NoRecord
  /\ pc = "resume" => file # NoRecord
  /\ pc = "start" => file = NoRecord

\* Turns have run only in the thread that is recorded.
TurnedOK == undone \/ \A t \in turned : file # NoRecord /\ t = file.thread

MappingInv == DiskOK /\ MemoryOK /\ TurnedOK
=============================================================================
