---------------------------- MODULE TopicManager ----------------------------
(***************************************************************************)
(* The subscription tables of src/services/topic-manager.ts: two maps that *)
(* store the same relation from both ends, and the cache of split          *)
(* patterns.  The methods are actions on the three variables; the module   *)
(* that owns the connections (SSEConnections.tla) calls them.              *)
(*                                                                         *)
(* A JavaScript Map is a function whose domain is the set of its keys, so  *)
(* an entry with an empty set and a missing entry are different states.    *)
(* Which pattern matches which topic is the constant relation Matching;    *)
(* matchTopic itself is the subject of TopicMatch.tla.                     *)
(***************************************************************************)
EXTENDS FiniteSets, Functions

CONSTANTS
  Client,    \* client identifiers
  Pattern,   \* topic patterns
  Topic,     \* concrete topics
  Matching   \* the pairs <<pattern, topic>> that matchTopic accepts

ASSUME MatchingAssumption == Matching \subseteq Pattern \X Topic

VARIABLES
  subscriptions,      \* client -> its patterns
  patternToClients,   \* pattern -> its clients
  splitPatternCache   \* the patterns whose split form is cached

tmVars == <<subscriptions, patternToClients, splitPatternCache>>

\* map.get(k), with a missing entry read as the empty set.
EntryOf(map, k) == IF k \in DOMAIN map THEN map[k] ELSE {}

\* map.set(k, v).
SetEntry(map, k, v) ==
  [j \in DOMAIN map \cup {k} |-> IF j = k THEN v ELSE map[j]]

\* map.set(k, S), or map.delete(k) when nothing is left in the set.
SetOrDelete(map, k, S) ==
  IF S = {} THEN Restrict(map, DOMAIN map \ {k}) ELSE SetEntry(map, k, S)

TMInit ==
  /\ subscriptions = << >>
  /\ patternToClients = << >>
  /\ splitPatternCache = {}

\* subscribe(c, p) for each p of P: handleSubscribe calls it once per topic
\* of the query, without yielding in between.
Subscribe(c, P) ==
  /\ subscriptions' =
       SetOrDelete(subscriptions, c, EntryOf(subscriptions, c) \cup P)
  /\ patternToClients' =
       [p \in DOMAIN patternToClients \cup P |->
          EntryOf(patternToClients, p) \cup (IF p \in P THEN {c} ELSE {})]
  /\ splitPatternCache' = splitPatternCache \cup P

\* Mutant of Unsubscribe: the pattern goes with the first client that leaves it.
UnsubscribeDropsPattern(c, p) ==
  /\ subscriptions' =
       SetOrDelete(subscriptions, c, EntryOf(subscriptions, c) \ {p})
  /\ patternToClients' =
       Restrict(patternToClients, DOMAIN patternToClients \ {p})
  /\ splitPatternCache' = splitPatternCache \ {p}

\* unsubscribe(c, p): the cached split goes with the pattern's last client.
Unsubscribe(c, p) ==
  /\ subscriptions' =
       SetOrDelete(subscriptions, c, EntryOf(subscriptions, c) \ {p})
  /\ patternToClients' =
       SetOrDelete(patternToClients, p, EntryOf(patternToClients, p) \ {c})
  /\ splitPatternCache' =
       IF p \in DOMAIN patternToClients /\ patternToClients[p] \subseteq {c}
       THEN splitPatternCache \ {p} ELSE splitPatternCache

\* The clients of pattern p once those of C have left it; unsubscribeAll
\* visits only the patterns listed under the client.
RemainingClients(p, C) ==
  {c \in patternToClients[p] : c \notin C \/ p \notin EntryOf(subscriptions, c)}

\* Mutant of UnsubscribeAll: patterns are kept with an empty set of clients.
UnsubscribeAllKeepsPatterns(C) ==
  /\ patternToClients' =
       [p \in DOMAIN patternToClients |-> RemainingClients(p, C)]
  /\ subscriptions' = Restrict(subscriptions, DOMAIN subscriptions \ C)
  /\ UNCHANGED splitPatternCache

\* unsubscribeAll(c) for each c of C, keeping the split patterns cached.
UnsubscribeAll(C) ==
  LET keep == {p \in DOMAIN patternToClients :
                 \/ RemainingClients(p, C) /= {}
                 \/ RemainingClients(p, C) = patternToClients[p]}
  IN  /\ patternToClients' = [p \in keep |-> RemainingClients(p, C)]
      /\ subscriptions' = Restrict(subscriptions, DOMAIN subscriptions \ C)
      /\ UNCHANGED splitPatternCache

\* getMatchingSubscribers(t).
MatchingSubscribers(t) ==
  UNION {patternToClients[p] :
           p \in {q \in DOMAIN patternToClients : <<q, t>> \in Matching}}

-----------------------------------------------------------------------------
(* Properties.                                                             *)

TMTypeOK ==
  /\ DOMAIN subscriptions \subseteq Client
  /\ \A c \in DOMAIN subscriptions : subscriptions[c] \subseteq Pattern
  /\ DOMAIN patternToClients \subseteq Pattern
  /\ \A p \in DOMAIN patternToClients : patternToClients[p] \subseteq Client
  /\ splitPatternCache \subseteq Pattern

\* The two maps store one relation: a client is listed under a pattern exactly
\* when the pattern is listed under the client, so a broadcast (which reads
\* patternToClients) and a disconnect (which walks subscriptions) can never
\* disagree about who is subscribed.
MapsAgree ==
  \A c \in Client, p \in Pattern :
    p \in EntryOf(subscriptions, c) <=> c \in EntryOf(patternToClients, p)

\* Neither map keeps an entry for an empty set, and every pattern that can
\* be matched has its split form cached (the matching loop never adds one).
NoEmptyEntries ==
  /\ \A c \in DOMAIN subscriptions : subscriptions[c] /= {}
  /\ \A p \in DOMAIN patternToClients : patternToClients[p] /= {}
  /\ DOMAIN patternToClients \subseteq splitPatternCache

TablesConsistent == MapsAgree /\ NoEmptyEntries
=============================================================================
