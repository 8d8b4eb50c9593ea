-------------------------- MODULE TopicMatchProofs --------------------------
(***************************************************************************)
(* Facts about _topic_matches (TopicMatch) for every topic and pattern,    *)
(* of any length and over any segment strings.  The run matcher_reference  *)
(* compares the matcher with MQTT's semantics on short inputs only; these  *)
(* theorems carry the laws of spec section 8 to all inputs.                *)
(***************************************************************************)
EXTENDS TopicMatch, TLAPS

(* A pattern without wildcard segments. *)
Literal(p) == PlusSeg \notin Elems(p) /\ HashSeg \notin Elems(p)

(* In a well-formed pattern that contains '#', pattern_parts.index('#')  *)
(* is the last position.                                                   *)
LEMMA FirstHashLast ==
    ASSUME NEW S, NEW p \in Seq(S), WellFormed(p), HashSeg \in Elems(p)
    PROVE  /\ Len(p) >= 1
           /\ p[Len(p)] = HashSeg
           /\ FirstHash(p) = Len(p)
<1>1. PICK k \in 1..Len(p) : p[k] = HashSeg
  BY DEF Elems
<1>2. k = Len(p)
  BY <1>1 DEF WellFormed
<1>3. /\ Len(p) \in 1..Len(p)
      /\ p[Len(p)] = HashSeg
      /\ \A j \in 1..(Len(p) - 1) : p[j] # HashSeg
  BY <1>1, <1>2 DEF WellFormed
<1>4. \A i \in 1..Len(p) :
        (p[i] = HashSeg /\ \A j \in 1..(i - 1) : p[j] # HashSeg) => i = Len(p)
  BY DEF WellFormed
<1>. QED  BY <1>1, <1>2, <1>3, <1>4 DEF FirstHash

(* Spec section 8: a pattern without wildcards matches a topic exactly    *)
(* when the two are equal; the zip loop then compares every segment.      *)
THEOREM LiteralMatchIsEquality ==
    ASSUME NEW t \in Seq(STRING), NEW p \in Seq(STRING), Literal(p)
    PROVE  TopicMatches(t, p) <=> p = t
<1>1. ASSUME Len(t) = Len(p), SegmentsMatch(t, p, Len(p))
      PROVE  p = t
  <2>1. \A i \in 1..Len(p) : p[i] # PlusSeg
    BY DEF Literal, Elems
  <2>2. \A i \in 1..Len(p) : p[i] = t[i]
    BY <1>1, <2>1 DEF SegmentsMatch
  <2>. QED  BY <1>1, <2>2
<1>2. ~(HashSeg \in Elems(p))
  BY DEF Literal
<1>. QED  BY <1>1, <1>2 DEF TopicMatches

(* Spec section 8: the pattern "#" matches every topic (hash_idx is 0,    *)
(* both lists are cut to nothing, and the lengths agree).                 *)
THEOREM HashMatchesAll ==
    ASSUME NEW t \in Seq(STRING)
    PROVE  TopicMatches(t, <<HashSeg>>)
<1>a. <<HashSeg>> \in Seq({HashSeg})
  OBVIOUS
<1>b. WellFormed(<<HashSeg>>)
  BY DEF WellFormed
<1>c. HashSeg \in Elems(<<HashSeg>>)
  <2>1. <<HashSeg>>[1] = HashSeg /\ 1 \in 1..Len(<<HashSeg>>)
    OBVIOUS
  <2>. QED  BY <2>1 DEF Elems
<1>1. /\ <<HashSeg>> \in Seq({HashSeg})
      /\ WellFormed(<<HashSeg>>)
      /\ HashSeg \in Elems(<<HashSeg>>)
  BY <1>a, <1>b, <1>c
<1>2. FirstHash(<<HashSeg>>) = Len(<<HashSeg>>)
  BY <1>1, FirstHashLast
<1>3. Len(t) >= Len(<<HashSeg>>) - 1 /\ SegmentsMatch(t, <<HashSeg>>, 0)
  BY DEF SegmentsMatch
<1>. QED  BY <1>1, <1>2, <1>3 DEF TopicMatches

(* '+' binds exactly one level: a pattern without '#' matches only topics *)
(* of its own number of segments (the len() test of _topic_matches).      *)
THEOREM PlusOneLevel ==
    ASSUME NEW t \in Seq(STRING), NEW p \in Seq(STRING),
           HashSeg \notin Elems(p), TopicMatches(t, p)
    PROVE  Len(t) = Len(p)
BY DEF TopicMatches

(* Spec section 8: a well-formed pattern ending in '#' matches exactly    *)
(* the topics that have at least its levels before the '#' and agree with *)
(* them ('+' standing for any one), whatever follows; this is the cut     *)
(* topic_parts[:hash_idx] followed by the len() test and the zip loop.    *)
THEOREM HashPrefixMatch ==
    ASSUME NEW t \in Seq(STRING), NEW p \in Seq(STRING),
           WellFormed(p), HashSeg \in Elems(p)
    PROVE  TopicMatches(t, p) <=>
             /\ Len(t) >= Len(p) - 1
             /\ SegmentsMatch(t, p, Len(p) - 1)
<1>1. /\ Len(p) >= 1
      /\ p[Len(p)] = HashSeg
      /\ FirstHash(p) = Len(p)
  BY FirstHashLast
<1>2. ASSUME p = t
      PROVE  Len(t) >= Len(p) - 1 /\ SegmentsMatch(t, p, Len(p) - 1)
  BY <1>2 DEF SegmentsMatch
<1>. QED  BY <1>1, <1>2 DEF TopicMatches

(***************************************************************************)
(* MQTT 3.1.1 section 4.7 for a topic name (no wildcard levels) and a      *)
(* well-formed filter, level by level: a filter without a trailing '#'     *)
(* has one level per topic level, each '+' or equal to it; a filter ending *)
(* in '#' asks the same of the levels before the '#', which then stands    *)
(* for the parent level and any number of children, none included.        *)
(***************************************************************************)
TopicName(t) == PlusSeg \notin Elems(t) /\ HashSeg \notin Elems(t)

MQTTFilterMatch(t, f) ==
    \/ /\ Len(t) = Len(f)
       /\ \A i \in 1..Len(f) : f[i] \in {PlusSeg, t[i]}
    \/ /\ Len(f) >= 1 /\ f[Len(f)] = HashSeg
       /\ Len(t) >= Len(f) - 1
       /\ \A i \in 1..(Len(f) - 1) : f[i] \in {PlusSeg, t[i]}

(* _topic_matches decides MQTT topic-filter matching for every topic name *)
(* and every well-formed filter, of any length: its equality fast path,   *)
(* the '#' in / index / cut to topic_parts[:hash_idx] (which keeps a       *)
(* shorter topic whole, so "a/#" matches "a"), the len() test and the zip *)
(* loop together compute exactly section 4.7.  The run matcher compares   *)
(* it with a recursive statement of the same semantics on short inputs.   *)
THEOREM MatcherMeetsMQTT ==
    ASSUME NEW t \in Seq(STRING), NEW f \in Seq(STRING),
           TopicName(t), WellFormed(f)
    PROVE  TopicMatches(t, f) <=> MQTTFilterMatch(t, f)
<1>1. CASE HashSeg \in Elems(f)
  <2>1. /\ Len(f) >= 1
        /\ f[Len(f)] = HashSeg
    BY <1>1, FirstHashLast
  <2>2. TopicMatches(t, f) <=>
          /\ Len(t) >= Len(f) - 1
          /\ SegmentsMatch(t, f, Len(f) - 1)
    BY <1>1, HashPrefixMatch
  <2>3. ~(/\ Len(t) = Len(f)
         /\ \A i \in 1..Len(f) : f[i] \in {PlusSeg, t[i]})
    <3> SUFFICES ASSUME Len(t) = Len(f), f[Len(f)] \in {PlusSeg, t[Len(f)]}
                 PROVE  FALSE
      BY <2>1
    <3>1. t[Len(f)] \in Elems(t)
      BY <2>1 DEF Elems
    <3>. QED  BY <2>1, <3>1 DEF TopicName, PlusSeg, HashSeg
  <2>. QED  BY <2>1, <2>2, <2>3 DEF MQTTFilterMatch, SegmentsMatch
<1>2. CASE HashSeg \notin Elems(f)
  <2>1. ~(Len(f) >= 1 /\ f[Len(f)] = HashSeg)
    BY <1>2 DEF Elems
  <2>2. f = t => Len(t) = Len(f) /\ SegmentsMatch(t, f, Len(f))
    BY DEF SegmentsMatch
  <2>. QED  BY <1>2, <2>1, <2>2 DEF TopicMatches, MQTTFilterMatch, SegmentsMatch
<1>. QED  BY <1>1, <1>2

=============================================================================
