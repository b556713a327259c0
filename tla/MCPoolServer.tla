---------------------------- MODULE MCPoolServer ----------------------------
(* Streams whose headers take 2, 4 and 10 bytes, whose payloads look like headers, with a close *)
(* frame, a masked frame and a length no number counts.                                         *)
EXTENDS Shutdown

CONSTANTS c1, c2, c3, k1, k2

MCOn == [c \in Callouts |-> IF c = c3 THEN k2 ELSE k1]

Text == <<129, 2, 136, 0>>
Long == <<130, 126, 0, 1, 136>>
Huge == <<130, 127, 0, 0, 0, 0, 0, 0, 0, 1, 129>>
CloseFrame == <<136, 2, 3, 232>>
Masked == <<129, 129, 0>>
Uncountable == <<130, 127, 0, 255, 255, 0, 0, 0, 0, 0>>

MCStreams == {<<Text, Long>>, <<Text, CloseFrame>>, <<Huge>>, <<Masked, Text>>, <<Uncountable>>}
=============================================================================
