SPECIFICATION ResumeSpec
CONSTANTS
  Sessions = {1, 2, 3, 4}
  Open = {1, 2}
  Conversations = {1, 2}
  WithId = {}
  ManualStarts = FALSE
  ResumeRequests = {1, 2, 3}
  MaxAgentEvents = 2
INVARIANT NeverTwoAgents
CHECK_DEADLOCK FALSE
