SPECIFICATION DeliverySpec
CONSTANTS
  alpha = alpha
  wild = wild
  topicA = topicA
  topicB = topicB
  m1 = m1
  m2 = m2
  m3 = m3
  Client = {c1}
  Pattern = {wild}
  Topic = {topicA, topicB}
  Matching <- MCMatching
  Response = {r1, r2}
  Message = {m1, m2}
  NoClient = NoClient
  TopicOf <- MCTopicOf
  BufferSize = 1
  ReloadSizes = {2}
  IOCapacity = 2
  MaxRequests = 0
PROPERTIES HistoryArrives ProcessedCompletes
CHECK_DEADLOCK FALSE
