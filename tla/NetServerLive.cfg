SPECIFICATION FairSpec
CONSTANTS
  MaxConn = 1
  MaxSend = 3
  Fds = {3}
  MaxPending = 2
PROPERTIES PausedResumes FramedRequestsLeave ResponsesLeave DroppedIsClosed
