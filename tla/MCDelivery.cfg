SPECIFICATION DeliverySpec
CONSTANTS
  alpha = alpha
  wild = wild
  topicA = topicA
  topicB = topicB
  m1 = m1
  m2 = m2
  m3 = m3
  Client = {c1, c2}
  Pattern = {alpha, wild}
  Topic = {topicA, topicB}
  Matching <- MCMatching
  Response = {r1, r2}
  Message = {m1, m3}
  NoClient = NoClient
  TopicOf <- MCTopicOf
  BufferSize = 1
  ReloadSizes <- NoSizes
  IOCapacity = 2
  MaxRequests = 1
INVARIANTS NothingUnasked NoLiveMessageMissed RecordMatchesStream NoHistoryLost
SYMMETRY Symmetry
CHECK_DEADLOCK FALSE
