-------------------------- MODULE MCStreamDelivery --------------------------
(* Instances of StreamDelivery for TLC. *)
EXTENDS StreamDelivery, TLC

CONSTANTS s1, s2, a, b

Texts == {<<a>>, <<b>>, <<a, b>>}
Overlapping == {{<<b>>, <<a, a, b>>}, {<<a, b>>}, {<<a, b, a>>, <<b, b>>}}

Ask(lane, tools, cached, stopSet, max) ==
    [lane |-> lane, tools |-> tools, cached |-> cached, stops |-> stopSet, limit |-> max]

\* One stream with overlapping stop sequences, and two that share the engine: a
\* cooperative one against each kind of neighbour.
Alone == {s1 :> Ask(lane, FALSE, TRUE, stopSet, max) :
            lane \in {"cooperative", "exclusive"}, stopSet \in Overlapping, max \in {1, 4}}
Neighbours ==
    {s1 :> Ask("cooperative", FALSE, TRUE, {<<a, b>>}, 2) @@ s2 :> other :
        other \in {Ask("cooperative", FALSE, FALSE, {}, 1),
                   Ask("exclusive", TRUE, FALSE, {}, 2),
                   Ask("exclusive", FALSE, TRUE, {<<a, b>>}, 1)}}
AllLoads == Alone \cup Neighbours
=============================================================================
