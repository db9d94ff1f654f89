-------------------------------- MODULE MCSSE -------------------------------
(* SSEConnections with a wildcard pattern that overlaps a plain one.       *)
EXTENDS SSEConnections, TLC

CONSTANTS alpha, wild, topicA, topicB

MCMatching == {<<alpha, topicA>>, <<wild, topicA>>, <<wild, topicB>>}

Symmetry == Permutations(Client) \cup Permutations(Response)
=============================================================================
