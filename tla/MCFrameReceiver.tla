-------------------------- MODULE MCFrameReceiver --------------------------
(***************************************************************************)
(* Instances of FrameReceiver for TLC: the packets of a short stream.      *)
(***************************************************************************)
EXTENDS FrameReceiver

Header(f, i, d, e) == [frame |-> f, index |-> i, data |-> d, fec |-> e]

\* A frame of two groups, one of one block, one of two data blocks and one of
\* redundancy, and another of one block.
MixedFrames == <<Header(1, 0, 1, 0), Header(1, 0, 1, 0),
                 Header(2, 0, 1, 0),
                 Header(3, 0, 2, 1), Header(3, 1, 2, 1), Header(3, 2, 2, 1),
                 Header(4, 0, 1, 0)>>

\* Four frames without redundancy.
FourFrames == <<Header(1, 0, 2, 0), Header(1, 1, 2, 0), Header(2, 0, 2, 0), Header(2, 1, 2, 0),
                Header(3, 0, 1, 0), Header(4, 0, 1, 0)>>

=============================================================================
