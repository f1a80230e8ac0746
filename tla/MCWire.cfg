SPECIFICATION FairSpec
CONSTANTS
  Sender = {s1, s2, s3}
  Nobody = nobody
  DataLen = {60}
  EdgeCount = {0, 1820, 1821, 5461}
  Errors = {"reset"}
  MaxSends = 3
INVARIANTS TypeOK LockedWhileUp RejectsOverlongOnly
PROPERTIES DeliversPackets LockComesFree
\* The senders stop, or the process is killed.
CHECK_DEADLOCK FALSE
