SPECIFICATION FairSpec
CONSTANTS
  n1 = n1
  n2 = n2
  Notifier = {n1, n2}
  Timeout = 1
  MaxPost = 4
INVARIANTS
  LostOnlyIfOvertaken
  SleeperNotified
PROPERTY
  WorkTaken
