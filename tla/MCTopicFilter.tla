---------------------------- MODULE MCTopicFilter ---------------------------
(***************************************************************************)
(* Every filter and every topic of up to three levels over two words.  A   *)
(* topic may hold the wildcard characters: PUBLISH is decoded without a    *)
(* look at them.                                                           *)
(***************************************************************************)
EXTENDS TopicFilter

UpTo(n) == UNION {[1 .. k -> Level] : k \in 1 .. n}
AllFilters == UpTo(3)
AllTopics == UpTo(3)
=============================================================================
