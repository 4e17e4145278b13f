------------------------- MODULE ThreadMappingProofs -------------------------
(***************************************************************************)
(* What TLAPS proves of ThreadMapping, for any number of threads, failing  *)
(* calls, kills and losses of power, and for any clock.                    *)
(***************************************************************************)
EXTENDS ThreadMapping, TLAPS

USE MaxThreadsAssumption, MaxClockAssumption, BoundsAssumption
    DEF MaxThreadsAssumption, MaxClockAssumption, BoundsAssumption
USE DEF Times, worldVars, boundVars, diskVars, pastVars

-----------------------------------------------------------------------------
(* Types. *)

LEMMA MarksAreRecords == NoRecord \in Records /\ Torn \in Records
BY DEF NoRecord, Torn, Records

LEMMA RecordsStep == RecordsOK /\ [Next]_vars => RecordsOK'
<1> SUFFICES ASSUME RecordsOK, [Next]_vars PROVE RecordsOK'
  OBVIOUS
<1> USE MarksAreRecords DEF RecordsOK
<1>1. ASSUME NEW r \in Records, Remember(r) PROVE memory' \in Records
  BY <1>1 DEF Remember, Records
<1>2. CASE EnsureCached \/ Resumes
  BY <1>1, <1>2 DEF EnsureCached, Resumes
<1>3. CASE Starts
  <2>1. NewRecord \in Records
    BY <1>3 DEF Starts, NewRecord, Records
  <2>2. QED
    BY <1>1, <1>3, <2>1 DEF Starts
<1>4. CASE EnsureLoads
  BY <1>4 DEF EnsureLoads
<1>5. CASE EnsureFails
  BY <1>5 DEF EnsureFails
<1>6. CASE Save
  BY <1>6 DEF Save, Checks, Writes, Renames, Chmods, SaveFails
<1>7. CASE Turns
  BY <1>7 DEF Turns
<1>8. CASE Tick \/ SetBack \/ WriteBack
  BY <1>8 DEF Tick, SetBack, WriteBack
<1>9. CASE Kill \/ PowerLoss \/ Boot
  BY <1>9 DEF Kill, PowerLoss, Boot
<1>10. CASE UNCHANGED vars
  BY <1>10 DEF vars
<1>11. QED
  BY <1>2, <1>3, <1>4, <1>5, <1>6, <1>7, <1>8, <1>9, <1>10 DEF Next, Ensure

LEMMA CountersStep == RecordsOK /\ CountersOK /\ [Next]_vars => CountersOK'
<1> SUFFICES ASSUME RecordsOK, CountersOK, [Next]_vars PROVE CountersOK'
  OBVIOUS
<1> USE DEF CountersOK
<1>1. CASE Ensure
  BY <1>1 DEF Ensure, EnsureCached, EnsureLoads, Resumes, Starts, EnsureFails,
              Remember, Fault
<1>2. CASE Save
  <2>1. CASE Checks
    BY <2>1 DEF Checks
  <2>2. CASE Writes
    BY <2>2 DEF Writes
  <2>3. CASE Renames
    BY <2>3 DEF Renames
  <2>4. CASE Chmods
    BY <2>4 DEF Chmods
  <2>5. CASE SaveFails
    BY <2>5 DEF SaveFails, CleansUp, Fault
  <2>6. QED
    BY <1>2, <2>1, <2>2, <2>3, <2>4, <2>5 DEF Save
<1>3. CASE Turns
  BY <1>3 DEF Turns, RecordsOK, Records
<1>4. CASE Tick \/ SetBack \/ WriteBack
  <2>1. UNCHANGED <<pc, temps, boundVars, turned>> /\ setBacks' \in 0..MaxSetBacks
    BY <1>4 DEF Tick, SetBack, WriteBack
  <2>2. QED
    BY <2>1
<1>5. CASE Kill \/ PowerLoss \/ Boot
  <2>1. /\ UNCHANGED <<temps, setBacks, faults, turned>>
        /\ pc' = "down" \/ pc' = "idle"
        /\ kills' \in 0..MaxKills /\ losses' \in 0..MaxLosses
    BY <1>5 DEF Kill, PowerLoss, Boot
  <2>2. QED
    BY <2>1
<1>6. CASE UNCHANGED vars
  BY <1>6 DEF vars
<1>7. QED
  BY <1>1, <1>2, <1>3, <1>4, <1>5, <1>6 DEF Next

LEMMA FlagsStep == FlagsOK /\ [Next]_vars => FlagsOK'
<1> SUFFICES ASSUME FlagsOK, [Next]_vars PROVE FlagsOK'
  OBVIOUS
<1>1. synced' \in {TRUE, FALSE, synced}
  BY DEF Next, Ensure, Save, EnsureCached, EnsureLoads, Resumes, Starts, EnsureFails,
         Checks, Writes, Renames, Chmods, SaveFails, Turns, Tick, SetBack, WriteBack,
         Kill, PowerLoss, Boot, vars
<1>2. UNCHANGED undone \/ PowerLoss
  BY DEF Next, Ensure, Save, EnsureCached, EnsureLoads, Resumes, Starts, EnsureFails,
         Checks, Writes, Renames, Chmods, SaveFails, Turns, Tick, SetBack, WriteBack,
         Kill, Boot, vars
<1>3. PowerLoss => undone' \in BOOLEAN
  <2> SUFFICES ASSUME undone' = (undone \/ (file # NoRecord /\ file' = NoRecord))
               PROVE  undone' \in BOOLEAN
    BY DEF PowerLoss
  <2>1. QED
    BY Zenon
<1>4. QED
  BY <1>1, <1>2, <1>3 DEF FlagsOK

LEMMA Types == Spec => [](RecordsOK /\ CountersOK /\ FlagsOK)
<1>1. Init => RecordsOK
  BY MarksAreRecords DEF Init, RecordsOK
<1>2. Init => CountersOK
  BY DEF Init, CountersOK
<1>3. Init => FlagsOK
  BY DEF Init, FlagsOK
<1>4. QED
  BY <1>1, <1>2, <1>3, RecordsStep, CountersStep, FlagsStep, PTL DEF Spec

\* The variables keep their types.
THEOREM TypeCorrect == Spec => []TypeOK
BY Types, PTL DEF TypeOK

-----------------------------------------------------------------------------
(* The record on disk and the record in memory. *)

LEMMA Marks == ~Valid(NoRecord) /\ NoRecord.thread = 0
BY DEF NoRecord, Valid

LEMMA DiskStep == RecordsOK /\ CountersOK /\ MappingInv /\ [Next]_vars => DiskOK'
<1> SUFFICES ASSUME RecordsOK, CountersOK, MappingInv, [Next]_vars PROVE DiskOK'
  OBVIOUS
<1> USE Marks DEF MappingInv, DiskOK
<1>1. CASE UNCHANGED <<file, entries>>
  BY <1>1
<1>2. CASE Renames
  <2>1. /\ memory # NoRecord /\ Valid(memory) /\ synced
        /\ file' = memory /\ entries' = entries \union {memory}
    BY <1>2 DEF Renames, MemoryOK
  <2>2. \A e \in entries : e # NoRecord => e.thread = memory.thread
    BY <2>1 DEF MemoryOK, Valid
  <2>3. QED
    BY <2>1, <2>2
<1>3. CASE WriteBack
  BY <1>3 DEF WriteBack
<1>4. CASE PowerLoss
  BY <1>4 DEF PowerLoss
<1>5. QED
  BY <1>1, <1>2, <1>3, <1>4
     DEF Next, Ensure, Save, EnsureCached, EnsureLoads, Resumes, Starts, EnsureFails,
         Checks, Writes, Chmods, SaveFails, Turns, Tick, SetBack, Kill, Boot, vars

LEMMA MemoryStep ==
  RecordsOK /\ CountersOK /\ MappingInv /\ [Next]_vars => MemoryOK'
<1> SUFFICES ASSUME RecordsOK, CountersOK, MappingInv, [Next]_vars PROVE MemoryOK'
  OBVIOUS
<1> USE Marks DEF MappingInv
<1>1. ASSUME NEW r \in Records, r.thread > 0, r.created > 0,
             file # NoRecord => r.thread = file.thread,
             Remember(r), UNCHANGED file
      PROVE  MemoryOK'
  <2>1. /\ memory'.thread = r.thread /\ memory'.created = r.created
        /\ memory'.used = clock /\ pc' = "check"
    BY <1>1 DEF Remember, Records
  <2>2. memory' # NoRecord /\ clock > 0
    BY <1>1, <2>1 DEF RecordsOK
  <2>3. QED
    BY <1>1, <2>1, <2>2 DEF MemoryOK
<1>2. CASE EnsureCached
  BY <1>1, <1>2 DEF EnsureCached, MemoryOK, RecordsOK
<1>3. CASE Resumes
  <2>1. file # NoRecord /\ Valid(file)
    BY <1>3 DEF Resumes, MemoryOK, DiskOK
  <2>2. QED
    BY <1>1, <1>3, <2>1 DEF Resumes, RecordsOK, Valid
<1>4. CASE Starts
  <2>1. /\ NewRecord \in Records /\ NewRecord.thread > 0 /\ NewRecord.created > 0
    BY <1>4 DEF Starts, NewRecord, Records, RecordsOK
  <2>2. file = NoRecord /\ UNCHANGED file
    BY <1>4 DEF Starts, MemoryOK
  <2>3. QED
    BY <1>1, <1>4, <2>1, <2>2 DEF Starts
<1>5. CASE EnsureLoads
  BY <1>5 DEF EnsureLoads, MemoryOK
<1>6. CASE EnsureFails
  BY <1>6 DEF EnsureFails, MemoryOK
<1>7. CASE Checks
  BY <1>7 DEF Checks, MemoryOK
<1>8. CASE Writes
  BY <1>8 DEF Writes, MemoryOK
<1>9. CASE Renames
  BY <1>9 DEF Renames, MemoryOK
<1>10. CASE Chmods \/ SaveFails \/ Turns
  BY <1>10 DEF Chmods, SaveFails, Turns, MemoryOK
<1>11. CASE Tick \/ SetBack \/ WriteBack
  BY <1>11 DEF Tick, SetBack, WriteBack, MemoryOK
<1>12. CASE Kill \/ PowerLoss \/ Boot
  BY <1>12 DEF Kill, PowerLoss, Boot, MemoryOK
<1>13. CASE UNCHANGED vars
  BY <1>13 DEF vars, MemoryOK
<1>14. QED
  BY <1>2, <1>3, <1>4, <1>5, <1>6, <1>7, <1>8, <1>9, <1>10, <1>11, <1>12, <1>13
     DEF Next, Ensure, Save

LEMMA TurnedStep ==
  RecordsOK /\ CountersOK /\ MappingInv /\ [Next]_vars => TurnedOK'
<1> SUFFICES ASSUME RecordsOK, CountersOK, MappingInv, [Next]_vars PROVE TurnedOK'
  OBVIOUS
<1> USE Marks DEF MappingInv
<1>1. CASE UNCHANGED <<file, turned, undone>>
  BY <1>1 DEF TurnedOK
<1>2. CASE Renames
  <2>1. memory # NoRecord /\ file' = memory /\ UNCHANGED <<turned, undone>>
    BY <1>2 DEF Renames, MemoryOK
  <2>2. QED
    BY <2>1 DEF TurnedOK, MemoryOK
<1>3. CASE Turns
  <2>1. memory # NoRecord /\ file = memory /\ turned' = turned \union {memory.thread}
        /\ UNCHANGED <<file, undone>>
    BY <1>3 DEF Turns, MemoryOK
  <2>2. QED
    BY <2>1 DEF TurnedOK
<1>4. CASE PowerLoss
  <2>1. file' \in entries /\ UNCHANGED turned
    BY <1>4 DEF PowerLoss
  <2>2. undone' <=> (undone \/ (file # NoRecord /\ file' = NoRecord))
    BY <1>4 DEF PowerLoss
  <2>3. file' # NoRecord => file'.thread = file.thread
    BY <2>1 DEF DiskOK
  <2>4. QED
    BY <2>1, <2>2, <2>3 DEF TurnedOK
<1>5. QED
  BY <1>1, <1>2, <1>3, <1>4
     DEF Next, Ensure, Save, EnsureCached, EnsureLoads, Resumes, Starts, EnsureFails,
         Checks, Writes, Chmods, SaveFails, Tick, SetBack, WriteBack, Kill, Boot, vars

LEMMA MappingHolds == Spec => []MappingInv
<1>1. Init => MappingInv
  BY DEF Init, MappingInv, DiskOK, MemoryOK, TurnedOK
<1>2. RecordsOK /\ CountersOK /\ MappingInv /\ [Next]_vars => MappingInv'
  BY DiskStep, MemoryStep, TurnedStep DEF MappingInv
<1>3. QED
  BY <1>1, <1>2, Types, PTL DEF Spec

\* Whatever cuts Save off and whatever the clock says, the file is not there or
\* is a record that Load accepts (AlwaysLoads).
THEOREM FileAlwaysLoads == Spec => []AlwaysLoads
<1>1. MappingInv => AlwaysLoads
  BY DEF MappingInv, DiskOK, AlwaysLoads
<1>2. QED
  BY <1>1, MappingHolds, PTL

\* No turn runs in a thread that is not the one on disk (TurnsAreRecorded).
THEOREM RecordedBeforeTurn == Spec => []TurnsAreRecorded
<1>1. MappingInv => TurnsAreRecorded
  BY DEF MappingInv, MemoryOK, TurnsAreRecorded
<1>2. QED
  BY <1>1, MappingHolds, PTL

\* All turns run in one thread, unless a loss of power took back the first
\* rename (OneConversation).
THEOREM ConversationKept == Spec => []OneConversation
<1>1. MappingInv => OneConversation
  BY DEF MappingInv, TurnedOK, OneConversation
<1>2. QED
  BY <1>1, MappingHolds, PTL

-----------------------------------------------------------------------------
(* The temporary files. *)

\* Save owns a temporary file from its creation to its renaming or removal; a
\* process that ends in between leaves it, and its end is counted.
LEMMA LitterStep ==
  ASSUME CountersOK, NoLitter, [Next]_vars
  PROVE  NoLitter'
<1> DEFINE Owned(at) == IF at \in {"write", "rename"} THEN 1 ELSE 0
<1>1. /\ temps \in Nat /\ kills \in Nat /\ losses \in Nat
      /\ temps <= kills + losses + Owned(pc)
  BY DEF CountersOK, NoLitter
<1>2. CASE Checks
  <2>1. Owned(pc) = 0 /\ temps' = temps + Owned(pc') /\ UNCHANGED <<kills, losses>>
    BY <1>1, <1>2 DEF Checks
  <2>2. QED
    BY <1>1, <2>1 DEF NoLitter
<1>3. CASE Renames \/ SaveFails
  <2>1. Owned(pc') = 0 /\ temps' = temps - Owned(pc) /\ UNCHANGED <<kills, losses>>
    BY <1>1, <1>3 DEF Renames, SaveFails, CleansUp, Fault
  <2>2. QED
    BY <1>1, <2>1 DEF NoLitter
<1>4. CASE Kill \/ PowerLoss
  <2>1. Owned(pc') = 0 /\ UNCHANGED temps /\ kills' + losses' = kills + losses + 1
    BY <1>1, <1>4 DEF Kill, PowerLoss
  <2>2. QED
    BY <1>1, <2>1 DEF NoLitter
<1>5. CASE Ensure \/ Writes \/ Chmods \/ Turns \/ Tick \/ SetBack \/ WriteBack \/ Boot
  <2>1. Owned(pc') = Owned(pc) /\ UNCHANGED <<temps, kills, losses>>
    BY <1>5 DEF Ensure, EnsureCached, EnsureLoads, Resumes, Starts, EnsureFails, Remember,
                Fault, Writes, Chmods, Turns, Tick, SetBack, WriteBack, Boot
  <2>2. QED
    BY <1>1, <2>1 DEF NoLitter
<1>6. UNCHANGED vars => NoLitter'
  BY DEF vars, NoLitter
<1>7. QED
  BY <1>2, <1>3, <1>4, <1>5, <1>6 DEF Next, Save

\* Temporary files are left only by kills and losses of power (NoLitter).
THEOREM LitterBounded == Spec => []NoLitter
<1>1. Init => NoLitter
  BY DEF Init, NoLitter
<1>2. QED
  BY <1>1, LitterStep, Types, PTL DEF Spec
=============================================================================
