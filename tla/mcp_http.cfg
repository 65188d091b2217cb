SPECIFICATION Spec
CONSTANTS
  Session = {s1, s2}
  Req = {1, 2}
  SharedReq = {1}
  Id = {1}
  Task = {t1}
  Kinds = {"initialize", "initialized", "call", "task", "taskcancel", "listen", "cancel"}
  MaxLive = 1
  MaxObj = 3
  Backends = {TRUE, FALSE}
  Resumable = TRUE
  RingSize = 2
  MaxStreams = 2
  MaxSaid = 2
  NoReq = 0
  NoOwner = 0
CHECK_DEADLOCK FALSE
INVARIANTS StreamExact
PROPERTIES TasksAreOneShot RunnersEnd
