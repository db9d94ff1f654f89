---------------------------- MODULE MCTopicMatch ----------------------------
(* TopicMatch on all patterns and topics of bounded length.                *)
EXTENDS TopicMatch, SequencesExt

CONSTANT MaxLevels

MCPatterns == BoundedSeq(Level \cup {Plus, Hash}, MaxLevels)
MCTopics == BoundedSeq(Level, MaxLevels)
=============================================================================
