-------------------------- MODULE MCEventPipeline --------------------------
(* Instances of EventPipeline for TLC: two messages of one channel, one of *)
(* a bot and one of a channel that is not configured.                      *)
EXTENDS EventPipeline, TLC

CONSTANTS c1, c2, m1, m2, m3, m4

MCChannelOf == m1 :> c1 @@ m2 :> c1 @@ m3 :> c1 @@ m4 :> c2

\* A cut after a newline, and a cut inside a character.
SomeReplies == {<<"x", "nl", "x">>, <<"x", "lead", "cont">>}

\* The chunks of every text of up to six bytes are the text, unless a cut falls
\* inside a character.
ASSUME ChunksOfShortTexts ==
  \A t \in BoundedSeq(Byte, 6) :
    ~Panics(t) => FlattenSeq(chunks[t]) = t
                  /\ \A i \in DOMAIN chunks[t] : Len(chunks[t][i]) <= MaxLen
=============================================================================
