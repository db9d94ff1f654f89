SPECIFICATION Spec
CONSTANTS
  alpha = alpha
  wild = wild
  topicA = topicA
  topicB = topicB
  Client = {c1, c2}
  Pattern = {alpha, wild}
  Topic = {topicA, topicB}
  Matching <- MCMatching
  Response = {r1, r2, r3}
  Message = {m1}
  NoClient = NoClient
PROPERTY EndsOnlyAfterOwnClose
