----------------------------- MODULE TopicMatch -----------------------------
(***************************************************************************)
(* The topic matcher of BigSkiesMQTTClient (mqtt/client.py,                *)
(* _topic_matches).  A topic or a pattern is a string split on '/'; since  *)
(* no segment contains the delimiter, the split is a bijection and a topic *)
(* is modelled by its sequence of segments.  Segments are strings; "+" and *)
(* "#" are the MQTT wildcards.                                              *)
(***************************************************************************)
EXTENDS Naturals, Sequences

PlusSeg == "+"
HashSeg == "#"

(* The elements of a sequence, as a set ('x' in parts). *)
Elems(s) == {s[i] : i \in 1..Len(s)}

(* pattern_parts.index('#'): the first position of a '#' segment. *)
FirstHash(pattern) ==
    CHOOSE i \in 1..Len(pattern) :
        /\ pattern[i] = HashSeg
        /\ \A j \in 1..(i - 1) : pattern[j] # HashSeg

(* The zip loop: the first n segments agree, '+' standing for any one. *)
SegmentsMatch(topic, pattern, n) ==
    \A i \in 1..n : pattern[i] = PlusSeg \/ pattern[i] = topic[i]

(* Mutant: the topic is not cut at the '#' (topic_parts[:hash_idx] left  *)
(* out), so '#' only matches its parent level.                            *)
TopicMatchesUntruncated(topic, pattern) ==
    \/ pattern = topic
    \/ /\ HashSeg \notin Elems(pattern)
       /\ Len(topic) = Len(pattern)
       /\ SegmentsMatch(topic, pattern, Len(pattern))
    \/ /\ HashSeg \in Elems(pattern)
       /\ FirstHash(pattern) = Len(pattern)
       /\ Len(topic) = Len(pattern) - 1
       /\ SegmentsMatch(topic, pattern, Len(pattern) - 1)

(***************************************************************************)
(* _topic_matches(topic, pattern).  The exact-equality fast path; without  *)
(* '#' the lengths must agree; with '#' it must be the last segment, and   *)
(* both lists are cut to the segments before it (topic_parts[:hash_idx]    *)
(* keeps the whole topic when it is shorter, so the length test then asks  *)
(* for at least that many topic segments).                                 *)
(***************************************************************************)
TopicMatches(topic, pattern) ==
    \/ pattern = topic
    \/ /\ HashSeg \notin Elems(pattern)
       /\ Len(topic) = Len(pattern)
       /\ SegmentsMatch(topic, pattern, Len(pattern))
    \/ /\ HashSeg \in Elems(pattern)
       /\ FirstHash(pattern) = Len(pattern)
       /\ Len(topic) >= Len(pattern) - 1
       /\ SegmentsMatch(topic, pattern, Len(pattern) - 1)

(* A well-formed pattern: '#' only as its last segment (spec section 3). *)
WellFormed(pattern) ==
    \A i \in 1..Len(pattern) : pattern[i] = HashSeg => i = Len(pattern)
=============================================================================
