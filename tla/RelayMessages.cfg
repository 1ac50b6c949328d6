\* Two sends to two parties, one acknowledgement at a time.
CONSTANTS
  d1 = d1
  d2 = d2
  u1 = u1
  u2 = u2
  Device = {d1, d2}
  Session = {s1}
  Parties <- MCParties
  Send = {u1, u2}
  From <- MCFrom
  ToLists <- MCToLists
  Ack = {a1}
  By <- MCBy
  TTL = 2
  MaxNow = 2
  MaxDropped = 1
  Flaky = {d2}
  PageLimit = 1
  NoMessage = NoMessage
SPECIFICATION Spec
CHECK_DEADLOCK FALSE
INVARIANTS TypeOK PendingIsQueued AckedNotQueued FifoPerQueue
PROPERTIES ImplementsMailbox
