---------------------------- MODULE MCSessionIds ----------------------------
(* Instantiates SessionIds for TLC.                                        *)
EXTENDS SessionIds

\* Every string of up to four bytes over a digit, '-' and '+': ids with
\* no, one, two or three dashes, empty or signed keys, and keys out of
\* range.
MCJunk == BoundedSeq({"1", "-", "+"}, 4)

\* Every message of up to three bytes over the instance id and the space:
\* missing, doubled and misplaced separators.
MCFrames == BoundedSeq({"i", " "}, 3)

MCInstanceId == <<"i">>

=============================================================================
