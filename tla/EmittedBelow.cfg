SPECIFICATION GitHubSpec
CONSTANTS
 Topics = {1,2,3,4}
 TopicsPage = 1
 Descent = 2
 Rewind = 1
 MaxMarks = 1
 Replication = 0
 Duration = 1
 OthersFollow = FALSE
 MaxBeats = 2
INVARIANTS  EmittedBelow
CHECK_DEADLOCK FALSE
