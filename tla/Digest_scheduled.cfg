SPECIFICATION MCSpec
CONSTANTS
  Nil = Nil
  j1 = j1
  Posting = {j1}
  Wanted = {j1}
  Process = {p1, p2}
  Scheduled = {p1}
  Manual = {p2}
  NumSources = 2
  Lists <- MCShared
  Subscriber = {a, b}
  Loyal = {a}
  Default = d
  MaxTime = 2
  MaxFailures = 1
  Window = 1
  MaxByHand = 1
INVARIANTS MailedOnce
PROPERTIES RowsAreTrue FeedImplemented ReportedEventually
CHECK_DEADLOCK FALSE
