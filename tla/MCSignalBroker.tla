---------------------------- MODULE MCSignalBroker ----------------------------
(* Small instances of SignalBroker: two streams of one user and one of      *)
(* another, on two topics, with one publisher.                             *)
EXTENDS SignalBroker, TLC

CONSTANTS s1, s2, s3, a, u, v, x, y

MCStreams == {s1, s2, s3}
MCOnePublisher == {a}
MCUsers == {u, v}
MCTopics == {x, y}
MCUserOf == (s1 :> u) @@ (s2 :> u) @@ (s3 :> v)
MCTopicOf == (s1 :> x) @@ (s2 :> y) @@ (s3 :> x)

=============================================================================
