SPECIFICATION Spec
CONSTANTS
  Scans = {{"l1"}, {"l1", "l2"}}
  Followers = {"check"}
  Teams = 2
  MaxCommits = 2
  MaxEvents = 2
INVARIANT ReadyFilesHoldTheProfile
CHECK_DEADLOCK FALSE
