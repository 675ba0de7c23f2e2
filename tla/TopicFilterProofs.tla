--------------------------- MODULE TopicFilterProofs ------------------------
(***************************************************************************)
(* is_match decides the matching relation, for every set of words, every   *)
(* filter and every topic.                                                 *)
(***************************************************************************)
EXTENDS TopicFilter, TLAPS

\* A filter or topic has a level at each index up to its length, at least one.
LEMMA LevelsHaveLength ==
    ASSUME NEW s \in Levels
    PROVE  /\ Len(s) \in Nat /\ Len(s) >= 1
           /\ \A i \in 1 .. Len(s) : s[i] \in Level
  BY DEF Levels

\* The strengthening of LoopDecides: the loop's own invariant.
IInv == LoopInvariant /\ LoopDecides

LEMMA LoopInit == Init => IInv
  BY FiltersAssumption, LevelsHaveLength
  DEF Init, IInv, LoopInvariant, LoopTypeOK, LoopDecides

LEMMA LoopStep == IInv /\ [Next]_vars => IInv'
<1> SUFFICES ASSUME IInv, [Next]_vars
             PROVE  IInv'
  OBVIOUS
<1>1. /\ filter \in Levels /\ topic \in Levels /\ at \in Nat \ {0}
      /\ Len(filter) \in Nat /\ Len(topic) \in Nat /\ Len(filter) >= 1
      /\ at <= Len(filter) + 1 /\ at <= Len(topic) + 1
      /\ \A i \in 1 .. at - 1 : filter[i] # Hash /\ LevelMatches(filter[i], topic[i])
  BY LevelsHaveLength DEF IInv, LoopInvariant, LoopTypeOK
<1>2. ASSUME NEW matches \in BOOLEAN, Return(matches),
             matches <=> Matches(filter, topic)
      PROVE  IInv'
  BY <1>1, <1>2 DEF Return, IInv, LoopInvariant, LoopTypeOK, LoopDecides
<1>3. ASSUME Running, More, at <= Len(topic), Advance,
             filter[at] # Hash, LevelMatches(filter[at], topic[at])
      PROVE  IInv'
  <2>1. \A i \in 1 .. at : filter[i] # Hash /\ LevelMatches(filter[i], topic[i])
    BY <1>1, <1>3
  <2>2. at' - 1 = at /\ at' \in Nat \ {0}
    BY <1>1, <1>3 DEF Advance
  <2>. QED
    BY <1>1, <1>3, <2>1, <2>2
    DEF Advance, Running, More, IInv, LoopInvariant, LoopTypeOK, LoopDecides
<1>4. CASE AtHash
  <2>1. CASE at = Len(filter)
    <3>1. Matches(filter, topic)
      BY <1>1, <1>4, <2>1 DEF AtHash, Matches
    <3>. QED
      BY <1>2, <1>4, <2>1, <3>1 DEF AtHash
  <2>2. CASE at # Len(filter)
    <3>1. at \in 1 .. Len(filter) - 1 /\ filter[at] = Hash
      BY <1>1, <1>4, <2>2 DEF AtHash, More
    <3>2. ~Matches(filter, topic)
      BY <1>1, <3>1 DEF Matches
    <3>. QED
      BY <1>2, <1>4, <2>2, <3>2 DEF AtHash
  <2>. QED
    BY <2>1, <2>2
<1>5. CASE AtPlus
  <2>1. CASE at > Len(topic)
    <3>1. filter[at] = Plus /\ at \in 1 .. Len(filter) /\ filter[at] # Hash
      BY <1>1, <1>5 DEF AtPlus, More, Plus, Hash
    <3>2. ~Matches(filter, topic)
      BY <1>1, <2>1, <3>1 DEF Matches
    <3>. QED
      BY <1>2, <1>5, <2>1, <3>2 DEF AtPlus
  <2>2. CASE ~(at > Len(topic))
    BY <1>1, <1>3, <1>5, <2>2 DEF AtPlus, Plus, Hash, LevelMatches
  <2>. QED
    BY <2>1, <2>2
<1>6. CASE AtWord
  <2>1. CASE at <= Len(topic) /\ filter[at] = topic[at]
    BY <1>3, <1>6, <2>1 DEF AtWord, LevelMatches
  <2>2. CASE ~(at <= Len(topic) /\ filter[at] = topic[at])
    <3>1. /\ at \in 1 .. Len(filter)
          /\ filter[at] # Hash /\ filter[at] # Plus
      BY <1>1, <1>6 DEF AtWord, More
    <3>2. ~Matches(filter, topic)
      BY <1>1, <2>2, <3>1 DEF Matches, LevelMatches
    <3>. QED
      BY <1>2, <1>6, <2>2, <3>2 DEF AtWord
  <2>. QED
    BY <2>1, <2>2
<1>7. CASE Exhausted
  <2>1. at = Len(filter) + 1
    BY <1>1, <1>7 DEF Exhausted, More
  <2>2. filter[Len(filter)] # Hash
    BY <1>1, <2>1
  <2>3. (at = Len(topic) + 1) <=> Matches(filter, topic)
    BY <1>1, <2>1, <2>2 DEF Matches
  <2>. QED
    BY <1>2, <1>7, <2>3 DEF Exhausted
<1>8. CASE UNCHANGED vars
  BY <1>8 DEF vars, IInv, LoopInvariant, LoopTypeOK, LoopDecides
<1>. QED
  BY <1>4, <1>5, <1>6, <1>7, <1>8 DEF Next

\* is_match never answers otherwise than Matches: for filters and topics of
\* any length over any words.
THEOREM IsMatchDecides == Spec => []LoopDecides
<1>1. IInv => LoopDecides
  BY DEF IInv
<1>. QED
  BY <1>1, LoopInit, LoopStep, PTL DEF Spec

\* The topic index stays within the topic: the slice access topic_segment[..]
\* cannot panic.
THEOREM IsMatchStaysInBounds == Spec => []LoopInvariant
<1>1. IInv => LoopInvariant
  BY DEF IInv
<1>. QED
  BY <1>1, LoopInit, LoopStep, PTL DEF Spec
=============================================================================
