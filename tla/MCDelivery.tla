----------------------------- MODULE MCDelivery -----------------------------
(* Delivery with m1 and m2 on topicA, m3 on topicB, and a wildcard pattern *)
(* that overlaps a plain one.  The runs take some of each.                 *)
EXTENDS Delivery, TLC

CONSTANTS alpha, wild, topicA, topicB, m1, m2, m3

MCMatching ==
  {<<alpha, topicA>>, <<wild, topicA>>, <<wild, topicB>>} \cap (Pattern \X Topic)

MCTopicOf == [m \in Message |-> IF m = m3 THEN topicB ELSE topicA]

Symmetry == Permutations({m1, m2} \cap Message) \cup Permutations(Response)
            \cup (IF Cardinality(Client) > 1 THEN Permutations(Client) ELSE {})

NoSizes == {}
=============================================================================
