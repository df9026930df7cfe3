SPECIFICATION Spec
CONSTANTS
  SeqSpace = 16
  Iss <- IssOf
  TCP_MSS = 2
  TCP_WND = 4
  TCP_SND_BUF = 5
  TCP_MAXRTX = 3
  TCP_SYNMAXRTX = 2
  TCPWND_MAX = 6
  DupAcks = 1
  Workloads <- All
INVARIANTS SendQueueSound AckedIsReceived WindowSound
PROPERTIES ImplementsStream StreamDelivered
CHECK_DEADLOCK FALSE
