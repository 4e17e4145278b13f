\* Two calls fail, one kill, one loss of power, one setting back of the clock.
\* Each of the first four may cost a thread, so that there are enough of them.
CONSTANTS
  MaxThreads = 5
  MaxClock = 2
  MaxSetBacks = 1
  MaxFaults = 2
  MaxKills = 1
  MaxLosses = 1
SPECIFICATION FairSpec
INVARIANTS TypeOK AlwaysLoads TurnsAreRecorded OneConversation NoLitter
PROPERTIES TalksAgain
