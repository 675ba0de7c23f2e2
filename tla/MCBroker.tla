------------------------------ MODULE MCBroker ------------------------------
(***************************************************************************)
(* Small instances of Broker: what a handful of clients set out to do.     *)
(***************************************************************************)
EXTENDS Broker

TopicA == <<"a">>
TopicB == <<"b">>
TwoTopics == {TopicA, TopicB}
AllLevels == <<Hash>>
OneLevel == <<Plus>>
SomeFilters == {TopicA, AllLevels}

Publish(name, topic, qos, retain, pid) ==
    [kind |-> "PUBLISH",
     msg |-> [name |-> name, topic |-> topic, qos |-> qos, retain |-> retain,
              empty |-> FALSE, pid |-> pid]]
Clear(topic, qos, pid) ==
    [kind |-> "PUBLISH",
     msg |-> [name |-> "none", topic |-> topic, qos |-> qos, retain |-> TRUE,
              empty |-> TRUE, pid |-> pid]]
CONNECT(mid) == [kind |-> "CONNECT", mid |-> mid]
SUBSCRIBE(filters, qos) ==
    [kind |-> "SUBSCRIBE",
     filters |-> [i \in DOMAIN filters |-> [filter |-> filters[i], qos |-> qos]]]
PUBREL(pid) == [kind |-> "PUBREL", pid |-> pid]
Other(kind) == [kind |-> kind]

\* A subscriber and a publisher of retained messages; the subscriber may have
\* no name, come back on a second connection, or leave.
RetainPlans ==
    LET publisher == <<CONNECT("p"), Publish("m1", TopicA, 1, TRUE, 1),
                       Publish("m2", TopicA, 0, TRUE, None)>>
        twoTopics == <<CONNECT("p"), Publish("m1", TopicA, 1, TRUE, 1),
                       Publish("m2", TopicB, 1, TRUE, 2)>>
        clearing == <<CONNECT("p"), Publish("m1", TopicA, 0, TRUE, None),
                      Clear(TopicA, 1, 1), Publish("m2", TopicA, 0, FALSE, None)>>
        subscriber(mid) == <<CONNECT(mid), SUBSCRIBE(<<AllLevels>>, 1)>>
    IN {<<subscriber("s"), publisher, <<>> >>,
        <<subscriber("s"), clearing, <<>> >>,
        <<<<CONNECT("s"), SUBSCRIBE(<<TopicA, AllLevels>>, 0)>>, twoTopics, <<>> >>,
        <<subscriber(NoId) \o <<Other("DISCONNECT")>>, publisher, <<>> >>,
        <<subscriber("s") \o <<Other("DISCONNECT"), CONNECT("s")>>,
          <<CONNECT("p"), Publish("m1", TopicA, 1, TRUE, 1)>>,
          subscriber("s")>>,
        <<<<Other("CONNECT_BAD")>>, <<CONNECT("p"), Other("CONNECT_BAD")>>,
          <<CONNECT("s"), Other("OTHER"), Other("DISCONNECT")>> >>}

\* Two QoS 2 publishers that never use the same packet id, and a subscriber
\* that completes the handshakes; a PUBREL may be repeated.
Qos2Plans ==
    LET p(mid, name, retain, pid) ==
            <<CONNECT(mid), Publish(name, TopicA, 2, retain, pid), PUBREL(pid)>>
        subscriber == <<CONNECT("s"), SUBSCRIBE(<<AllLevels>>, 2)>>
    IN {<<p("p", "m1", FALSE, 1), p("q", "m2", FALSE, 2), subscriber>>,
        <<p("p", "m1", TRUE, 1), subscriber, <<>> >>,
        <<p("p", "m1", FALSE, 1) \o <<PUBREL(1)>>, p("q", "m2", TRUE, 2), subscriber>>,
        <<<<CONNECT("p"), Clear(TopicA, 2, 1), PUBREL(1)>>, p("q", "m2", TRUE, 2), <<>> >>}

SafePlans == RetainPlans \cup Qos2Plans

\* One packet id for more than one exchange: two publishers that both use it,
\* and a publisher that uses it again while a QoS 2 subscriber still owes the
\* end of the delivery.
SharedIdPlans ==
    LET p(mid, name) == <<CONNECT(mid), Publish(name, TopicA, 2, FALSE, 1), PUBREL(1)>>
    IN {<<p("p", "m1"), p("q", "m2")>>,
        <<<<CONNECT("s"), SUBSCRIBE(<<AllLevels>>, 2)>>, p("p", "m1") \o Tail(p("p", "m2"))>>}

ClearPlans ==
    {<<<<CONNECT("s"), SUBSCRIBE(<<AllLevels>>, 1)>>,
       <<CONNECT("p"), Publish("m1", TopicA, 1, TRUE, 1), Clear(TopicA, 1, 1)>> >>}

\* Subscribers that are named first and publishers that come later; a
\* subscriber that comes back under its name.
DeliveryPlans ==
    LET s == <<CONNECT("s"), SUBSCRIBE(<<TopicA>>, 1)>>
        p == <<CONNECT("p"), Publish("m1", TopicA, 0, FALSE, None)>>
    IN {<<s \o <<Other("DISCONNECT")>>, <<CONNECT("t"), SUBSCRIBE(<<AllLevels>>, 1)>>, p>>,
        <<s \o <<Other("DISCONNECT")>>, <<CONNECT("s"), Other("DISCONNECT")>>, p>>,
        <<s, <<CONNECT("s")>>, p>>}
=============================================================================
