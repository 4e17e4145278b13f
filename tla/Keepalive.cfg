\* Two hibernations, either signal of each possibly missing, with one half
\* second of clock correction in either direction, anywhere among them.
CONSTANTS
  Floor = 2
  SleepLengths <- MCSleepLengths
  Corrections <- MCCorrections
  MaxDrift = 1
  MaxSleeps = 2
SPECIFICATION FairSpec
INVARIANTS TypeOK SleepShows
PROPERTIES AnswersWakesOnce SleepAnswered
