\* A program asks and another one listens while the served value changes.
SPECIFICATION FairSpec
CONSTANTS
  content = content
  setup = setup
  Clients = {content, setup}
  Everyone = Everyone
  RequestMaxAttempts = 2
  MaxCalls <- MCMaxCalls
  MaxChanges = 2
INVARIANTS TypeOK FlagsAgree
PROPERTIES AnswersNeverGoBack BroadcastsNeverGoBack CallReturns BroadcastArrives
\* Once all calls are made and all values announced the system rests.
CHECK_DEADLOCK FALSE
