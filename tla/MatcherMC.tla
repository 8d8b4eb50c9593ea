------------------------------ MODULE MatcherMC ------------------------------
(***************************************************************************)
(* Checks _topic_matches against the MQTT 3.1.1 topic-filter semantics    *)
(* (section 4.7) over every topic and pattern of at most MaxSegs segments  *)
(* drawn from a few literal segments.  The state is just the input pair;  *)
(* each step picks another pair.                                           *)
(***************************************************************************)
EXTENDS TopicMatch

CONSTANTS Literals,  \* literal segment values, the empty segment included
          MaxSegs    \* the longest topic or pattern checked

ASSUME MatcherAssumption == MaxSegs \in Nat \ {0}

(* Topics never contain a wildcard; a topic has at least one segment      *)
(* ("".split('/') is ['']).                                               *)
TopicSpace == UNION {[1..n -> Literals] : n \in 1..MaxSegs}
PatternSpace == UNION {[1..n -> Literals \cup {PlusSeg, HashSeg}] : n \in 1..MaxSegs}

(* Reference semantics: '+' takes one level, '#' all remaining levels,    *)
(* its parent level included ("a/#" matches "a").                         *)
RECURSIVE RefMatch(_, _)
RefMatch(topic, filter) ==
    IF filter = <<>> THEN topic = <<>>
    ELSE IF Head(filter) = HashSeg THEN TRUE
    ELSE /\ topic # <<>>
         /\ Head(filter) \in {PlusSeg, Head(topic)}
         /\ RefMatch(Tail(topic), Tail(filter))

VARIABLES topic, pattern
vars == <<topic, pattern>>

Init == topic \in TopicSpace /\ pattern \in PatternSpace

Pick == \E t \in TopicSpace, p \in PatternSpace : topic' = t /\ pattern' = p

Spec == Init /\ [][Pick]_vars

(* On every well-formed pattern the client's matcher decides exactly as   *)
(* MQTT does: wildcards '+' and '#', parent-level '#', empty segments.    *)
MatcherAgrees ==
    WellFormed(pattern) => (TopicMatches(topic, pattern) <=> RefMatch(topic, pattern))
=============================================================================
