------------------------------- MODULE Topics -------------------------------
(***************************************************************************)
(* Topic names and filters, as str::split('/') leaves them: non-empty      *)
(* sequences of levels.  Matches says what is_match computes; the two      *)
(* copies of the loop (broker.rs and retain_store.rs) are modelled by      *)
(* TopicFilter, which is shown to agree with it.                           *)
(***************************************************************************)
EXTENDS Naturals, Sequences

CONSTANT Words      \* the levels that are neither wildcard

Hash == "#"
Plus == "+"

ASSUME WordsAssumption == Words \cap {Hash, Plus} = {}

Level == Words \cup {Hash, Plus}
Levels == Seq(Level) \ {<<>>}

\* One level of a filter against the level of the topic in the same place.
LevelMatches(f, t) == f = Plus \/ f = t

\* A trailing # stands for any number of levels, none included; a # before
\* the end matches nothing.
Matches(filter, topic) ==
    LET last == Len(filter)
        levels == IF filter[last] = Hash THEN last - 1 ELSE last
    IN /\ IF filter[last] = Hash THEN levels <= Len(topic) ELSE levels = Len(topic)
       /\ \A i \in 1 .. levels : filter[i] # Hash /\ LevelMatches(filter[i], topic[i])
=============================================================================
