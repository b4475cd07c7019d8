SPECIFICATION FairSpec
CONSTANTS
  Call = {c1, c2, c3}
  Seated = {c3}
  Sample <- MCSample
  Peak = 3
  Welcome = 1
  None = None
INVARIANTS TypeOK OneWriterPerTrack
PROPERTIES LeaversAreNotMixed NewcomerJoinsMix ParticipantsHearEachOther GoroutinesEnd
CHECK_DEADLOCK FALSE
