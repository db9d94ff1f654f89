----------------------------- MODULE TopicMatch -----------------------------
(***************************************************************************)
(* TopicManager.matchTopic (src/services/topic-manager.ts), one action per *)
(* way through the body of its loop, against the rules its comment states. *)
(* A pattern and a topic are the sequences of levels that split('/')       *)
(* returns: never empty, but a level may be the empty string.              *)
(***************************************************************************)
EXTENDS Naturals, Sequences

CONSTANTS
  Level,     \* the plain levels
  Plus,      \* the level '+'
  Hash,      \* the level '#'
  Patterns,  \* the patterns considered
  Topics     \* the concrete topics considered

ASSUME MatchAssumption ==
  /\ Plus /= Hash /\ Plus \notin Level /\ Hash \notin Level
  /\ Patterns \subseteq Seq(Level \cup {Plus, Hash})
  /\ Topics \subseteq Seq(Level)

VARIABLES
  pattern, topic,  \* the arguments, split
  patternIdx,      \* the level of the pattern looked at (from 1)
  topicIdx,        \* the level of the topic looked at (from 1)
  result           \* "running", or what was returned

matchVars == <<pattern, topic, patternIdx, topicIdx, result>>

MatchInit ==
  /\ pattern \in Patterns
  /\ topic \in Topics
  /\ patternIdx = 1 /\ topicIdx = 1
  /\ result = "running"

Running == result = "running"
PatternExhausted == patternIdx > Len(pattern)
TopicExhausted == topicIdx > Len(topic)

Return(b) ==
  /\ result' = IF b THEN "true" ELSE "false"
  /\ UNCHANGED <<pattern, topic, patternIdx, topicIdx>>

\* Mutant of MultiLevel: '#' matches wherever it stands.
MultiLevelAnywhere ==
  /\ Running /\ ~ PatternExhausted
  /\ pattern[patternIdx] = Hash
  /\ Return(TRUE)

\* '#' decides: it has to be the last level of the pattern.
MultiLevel ==
  /\ Running /\ ~ PatternExhausted
  /\ pattern[patternIdx] = Hash
  /\ Return(patternIdx = Len(pattern))

\* Levels of the pattern are left, but none of the topic.
OutOfTopic ==
  /\ Running /\ ~ PatternExhausted
  /\ pattern[patternIdx] /= Hash
  /\ TopicExhausted
  /\ Return(FALSE)

\* Mutant of NextLevel: only the pattern moves on after '+'.
NextLevelLags ==
  /\ Running /\ ~ PatternExhausted /\ ~ TopicExhausted
  /\ pattern[patternIdx] \in {Plus, topic[topicIdx]}
  /\ patternIdx' = patternIdx + 1
  /\ topicIdx' = IF pattern[patternIdx] = Plus THEN topicIdx ELSE topicIdx + 1
  /\ UNCHANGED <<pattern, topic, result>>

\* Mutant of NextLevel: '+' moves on in neither.
NextLevelStays ==
  /\ Running /\ ~ PatternExhausted /\ ~ TopicExhausted
  /\ pattern[patternIdx] \in {Plus, topic[topicIdx]}
  /\ patternIdx' = IF pattern[patternIdx] = Plus THEN patternIdx ELSE patternIdx + 1
  /\ topicIdx' = IF pattern[patternIdx] = Plus THEN topicIdx ELSE topicIdx + 1
  /\ UNCHANGED <<pattern, topic, result>>

\* '+', or the same level in both.
NextLevel ==
  /\ Running /\ ~ PatternExhausted /\ ~ TopicExhausted
  /\ pattern[patternIdx] \in {Plus, topic[topicIdx]}
  /\ patternIdx' = patternIdx + 1
  /\ topicIdx' = topicIdx + 1
  /\ UNCHANGED <<pattern, topic, result>>

\* Two different levels.
Mismatch ==
  /\ Running /\ ~ PatternExhausted /\ ~ TopicExhausted
  /\ pattern[patternIdx] \notin {Plus, Hash, topic[topicIdx]}
  /\ Return(FALSE)

\* The loop is over: the topic has to be exhausted as well.
EndOfPattern ==
  /\ Running /\ PatternExhausted
  /\ Return(TopicExhausted)

MatchNext ==
  \/ MultiLevel \/ OutOfTopic \/ NextLevel \/ Mismatch \/ EndOfPattern

MatchSpec == MatchInit /\ [][MatchNext]_matchVars /\ WF_matchVars(MatchNext)

-----------------------------------------------------------------------------
(* Properties.                                                             *)

\* Level by level, '+' stands for any one level.
LevelMatches(p, t, i) == p[i] = Plus \/ p[i] = t[i]

\* "+ matches exactly one topic level; # matches zero or more levels, must be
\* last segment" (topic-manager.ts:147-149): what a pattern means.
Matches(p, t) ==
  LET plain == {i \in 1 .. Len(p) : p[i] /= Hash}
  IN  \/ /\ plain = 1 .. Len(p)
         /\ Len(t) = Len(p)
         /\ \A i \in plain : LevelMatches(p, t, i)
      \/ /\ Len(p) > 0 /\ plain = 1 .. Len(p) - 1
         /\ Len(t) >= Len(p) - 1
         /\ \A i \in plain : LevelMatches(p, t, i)

\* The loop has looked at as many levels of one as of the other, and all of
\* them match without a '#'.
LoopInvariant ==
  /\ pattern \in Patterns /\ topic \in Topics
  /\ patternIdx = topicIdx
  /\ topicIdx \in 1 .. Len(topic) + 1
  /\ patternIdx <= Len(pattern) + 1
  /\ result \in {"running", "true", "false"}
  /\ \A i \in 1 .. patternIdx - 1 :
       pattern[i] /= Hash /\ LevelMatches(pattern, topic, i)

\* Whatever the pattern, '#' in the middle and more levels than the topic
\* included, matchTopic returns what the rules say.
ReturnsMatches ==
  ~ Running => (result = "true" <=> Matches(pattern, topic))

\* The loop ends.
Terminates == <>(~ Running)
=============================================================================
