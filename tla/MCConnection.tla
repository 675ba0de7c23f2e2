---------------------------- MODULE MCConnection ----------------------------
(***************************************************************************)
(* Small instances of Connection for TLC.                                  *)
(***************************************************************************)
EXTENDS Connection

\* A client sends every kind of frame, behind its CONNECT or first.  What the
\* decoder makes of some kinds depends on the frame behind them.
FollowedKinds == {"PUBACK_REASON", "PUBACK_UNHEARD", "PUBREL_CODE", "PUBREL_EATS",
                  "DISCONNECT", "DISCONNECT_CODE", "DISCONNECT_EATS"}
WholeStreams == {Stream(<<"CONNECT", f, "SUBSCRIBE">>) : f \in FollowedKinds}
                \cup {Stream(<<"CONNECT", f>>) : f \in FrameNames \ FollowedKinds}
                \cup {Stream(<<f, "SUBSCRIBE">>) : f \in {"CONNECT_WILL", "PUBLISH"}}

\* Segments cut them inside the header, the variable header or the payload.
CutStreams == {Stream(<<"CONNECT", "PUBLISH_EMPTY", "SUBSCRIBE">>),
               Stream(<<"CONNECT", "PUBACK_UNHEARD", "PUBREL">>),
               Stream(<<"CONNECT", "PUBREL_EATS", "PUBLISH">>)}

ClientStreams == WholeStreams \cup CutStreams

PublishStreams == {Stream(<<"CONNECT", "PUBLISH">>)}
PingStreams == {Stream(<<"CONNECT", "PINGREQ">>)}
MalformedStreams == {Stream(<<"CONNECT", "SUBSCRIBE_FLAGS">>)}
NoStreams == {}

AnyReplies == {<<>>, <<"ACK", "ACK">>, <<"NOOPERATION">>, <<"UNENCODABLE">>,
               <<"ACK", "DISCONNECT">>}
OneAck == {<<"ACK">>}
=============================================================================
