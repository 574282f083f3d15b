------------------------------ MODULE StopText ------------------------------
(***************************************************************************)
(* The text functions of the streaming lane (src/api/mod.rs): where a      *)
(* reply is cut by its stop sequences, and how much of a reply that still  *)
(* grows may be shown.  A text is a sequence of characters, the stop       *)
(* sequences a set of non-empty texts.                                     *)
(***************************************************************************)
EXTENDS Naturals, Sequences, FiniteSetsExt, SequencesExt

Occurs(p, text, i) ==
    i + Len(p) <= Len(text) + 1 /\ SubSeq(text, i, i + Len(p) - 1) = p

\* Where a stop sequence begins in text.
Matches(text, stops) ==
    {i \in DOMAIN text : \E p \in stops : Occurs(p, text, i)}

ContainsStop(text, stops) == Matches(text, stops) # {}

\* Length of what the earliest complete match leaves.
CutLen(text, stops) ==
    IF ContainsStop(text, stops) THEN Min(Matches(text, stops)) - 1 ELSE Len(text)

TruncateAtStop(text, stops) == SubSeq(text, 1, CutLen(text, stops))

\* Longest tail of text that is a proper prefix of a stop sequence.
Held(text, stops) ==
    Max({0} \cup {k \in DOMAIN text :
                    \E p \in stops : /\ k < Len(p)
                                     /\ SubSeq(text, Len(text) - k + 1, Len(text)) = SubSeq(p, 1, k)})

\* stop_safe_stream_len: the smaller of the two limits.
SafeLen(text, stops) ==
    Min({CutLen(text, stops), Len(text) - Held(text, stops)})

\* stop_visible_text.
Visible(text, stops, final) ==
    IF final THEN TruncateAtStop(text, stops) ELSE SubSeq(text, 1, SafeLen(text, stops))

Rest(long, short) == SubSeq(long, Len(short) + 1, Len(long))

\* stream_delta: with stop sequences, what was sent is never sent again.
StreamDelta(visible, streamed, stops) ==
    IF IsPrefix(streamed, visible) THEN Rest(visible, streamed)
    ELSE IF stops # {} THEN <<>> ELSE visible

\* stop_hold_back_flush: what is still withheld when generation is over.
HoldBackFlush(text, streamed, stops) ==
    LET cut == TruncateAtStop(text, stops)
    IN  IF stops # {} /\ IsPrefix(streamed, cut) THEN Rest(cut, streamed) ELSE <<>>
=============================================================================
