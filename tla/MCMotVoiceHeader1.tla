-------------------------- MODULE MCMotVoiceHeader1 --------------------------
EXTENDS MotVoiceHeader1

CONSTANTS h1, h2

\* Three received frames and two output buffers' old contents, each with a
\* distinct value at every position.
MCFrameA == [i \in 0..29 |-> <<"a", i>>]
MCFrameB == [i \in 0..29 |-> <<"b", i>>]
MCFrameC == [i \in 0..29 |-> <<"c", i>>]
MCFrames == {MCFrameA, MCFrameB, MCFrameC}
MCGarbage == {[i \in 0..29 |-> <<"old", i>>], [i \in 0..29 |-> <<"stale", i>>]}
MCZero == <<"zero">>
MCObjects == {h1, h2}
=============================================================================
