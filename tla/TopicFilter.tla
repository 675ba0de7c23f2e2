----------------------------- MODULE TopicFilter ----------------------------
(***************************************************************************)
(* The loop of is_match (RetainStore and TopicManager have a copy each):   *)
(* one action per way through its body.  `at` is filter_index and          *)
(* topic_index, which the loop advances together, counted from 1.          *)
(***************************************************************************)
EXTENDS Topics

CONSTANTS Filters, TopicNames

ASSUME FiltersAssumption == Filters \subseteq Levels /\ TopicNames \subseteq Levels

VARIABLES filter, topic, at, verdict

vars == <<filter, topic, at, verdict>>

LoopTypeOK ==
    /\ filter \in Levels
    /\ topic \in Levels
    /\ at \in Nat \ {0}
    /\ verdict \in {"none", "match", "mismatch"}

Init ==
    /\ filter \in Filters
    /\ topic \in TopicNames
    /\ at = 1
    /\ verdict = "none"

Running == verdict = "none"
More == at <= Len(filter)

Return(matches) ==
    /\ verdict' = IF matches THEN "match" ELSE "mismatch"
    /\ UNCHANGED <<filter, topic, at>>

Advance ==
    /\ at' = at + 1
    /\ UNCHANGED <<filter, topic, verdict>>

AtHash ==
    /\ Running /\ More
    /\ filter[at] = Hash
    /\ Return(at = Len(filter))

\* Mutants: + does not ask whether the topic has a level left; + does not
\* advance.
AtPlusUnchecked ==
    /\ Running /\ More
    /\ filter[at] = Plus
    /\ Advance

AtPlusStays ==
    /\ Running /\ More
    /\ filter[at] = Plus
    /\ IF at > Len(topic) THEN Return(FALSE) ELSE UNCHANGED vars

AtPlus ==
    /\ Running /\ More
    /\ filter[at] = Plus
    /\ IF at > Len(topic) THEN Return(FALSE) ELSE Advance

AtWord ==
    /\ Running /\ More
    /\ filter[at] \notin {Hash, Plus}
    /\ IF at <= Len(topic) /\ filter[at] = topic[at] THEN Advance ELSE Return(FALSE)

\* Mutant: a filter that is used up matches whatever follows in the topic.
ExhaustedMatches ==
    /\ Running /\ ~More
    /\ Return(at > Len(filter))

Exhausted ==
    /\ Running /\ ~More
    /\ Return(at = Len(topic) + 1)

Next == AtHash \/ AtPlus \/ AtWord \/ Exhausted

Spec == Init /\ [][Next]_vars
FairSpec == Spec /\ WF_vars(Next)
-----------------------------------------------------------------------------
\* What has been compared so far matched, level by level, and no # was passed;
\* the topic index never runs past the end of the topic.
LoopInvariant ==
    /\ LoopTypeOK
    /\ at <= Len(filter) + 1
    /\ at <= Len(topic) + 1
    /\ \A i \in 1 .. at - 1 : filter[i] # Hash /\ LevelMatches(filter[i], topic[i])

\* is_match answers as Matches says, for every filter and topic: with + and #
\* anywhere, filters longer and shorter than the topic.
LoopDecides ==
    /\ verdict = "match" => Matches(filter, topic)
    /\ verdict = "mismatch" => ~Matches(filter, topic)

\* The loop ends for every filter and topic.
LoopEnds == <>(verdict # "none")
=============================================================================
