------------------------------ MODULE MCFramer ------------------------------
(***************************************************************************)
(* Instances of Framer for TLC: sound frames of every kind, and what may   *)
(* become of them.                                                         *)
(***************************************************************************)
EXTENDS Framer

MCMarker == <<9, 8>>

HeartbeatFrame == MCMarker \o <<2, 1, 0>>
ReadFrame == MCMarker \o <<5, 2, 3, 1, 4, 8>>
\* Register values that look like a marker, where the window of MinFrame does not reach.
MarkedFrame == MCMarker \o <<6, 2, 3, 2, 9, 8, 22>>
ErrorFrame == MCMarker \o <<4, 2, 104, 1, 5>>
WriteFrame == MCMarker \o <<4, 2, 6, 1, 0>>

MCMessages == {HeartbeatFrame, ReadFrame, MarkedFrame, ErrorFrame, WriteFrame}

Cuts == UNION {{SubSeq(m, 1, n) : n \in 1..(Len(m) - 1)} : m \in MCMessages}
Flips == UNION {{[m EXCEPT ![i] = b] : i \in DOMAIN m, b \in {0, 2, 9}} : m \in MCMessages}
Garbage == {<<7>>, <<9>>, <<7, 7, 7, 7, 7, 7, 7>>}

MCFaults == (Cuts \cup Flips \cup Garbage) \ MCMessages

\* The instance meets the hypotheses of the theorems about streams with a fault.
ASSUME InstanceAssumption ==
    FramesAreUnmistakable /\ NoHeaderWithin(Messages \cup Faults)

=============================================================================
