----------------------------- MODULE RequestReply ---------------------------
(***************************************************************************)
(* What a connection promises its services and its client, without saying  *)
(* how: requests are taken one at a time; the first is answered by CONNACK *)
(* and nothing else, the others by the list their service returned; the    *)
(* answers of a request are emitted in list order before the next request  *)
(* is taken; an answer may be lost but never reordered, repeated or emitted*)
(* after the connection closed.  Deliveries of other tasks come in between *)
(* at any time, even after the close.                                      *)
(***************************************************************************)
EXTENDS Naturals, SequencesExt

CONSTANT Replies

VARIABLES
    phase,  \* what the connection is doing
    taken,  \* how many requests it has taken
    todo,   \* the rest of the current answer
    out     \* everything emitted

rrVars == <<phase, taken, todo, out>>

RRInit ==
    /\ phase = "reading"
    /\ taken = 0
    /\ todo = <<>>
    /\ out = <<>>

Take ==
    /\ phase = "reading"
    /\ phase' = "calling"
    /\ taken' = taken + 1
    /\ UNCHANGED <<todo, out>>

Respond ==
    /\ phase = "calling"
    /\ phase' = "answering"
    /\ todo' \in (IF taken = 1 THEN {<<"CONNACK">>} ELSE Replies)
    /\ UNCHANGED <<taken, out>>

Emission == [re |-> taken, kind |-> Head(todo), number |-> Len(todo)]

\* The next answer is emitted or lost.
Emit ==
    /\ phase = "answering"
    /\ todo # <<>>
    /\ todo' = Tail(todo)
    /\ out' \in {out} \cup IF Head(todo) \in {"NOOPERATION", "DISCONNECT"} THEN {}
                           ELSE {Append(out, Emission)}
    /\ phase' = "answering" \/ (phase' = "reading" /\ todo' = <<>>)
    /\ UNCHANGED taken

Answered ==
    /\ phase = "answering"
    /\ todo = <<>>
    /\ phase' = "reading"
    /\ UNCHANGED <<taken, todo, out>>

Close ==
    /\ phase # "closed"
    /\ phase' = "closed"
    /\ todo' = <<>>
    /\ UNCHANGED <<taken, out>>

Deliver ==
    /\ taken >= 1
    /\ Len(out') = Len(out) + 1
    /\ Front(out') = out
    /\ Last(out').re = 0
    /\ UNCHANGED <<phase, taken, todo>>

RRNext == Take \/ Respond \/ Emit \/ Answered \/ Close \/ Deliver

Spec == RRInit /\ [][RRNext]_rrVars
=============================================================================
