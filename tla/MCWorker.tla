------------------------------ MODULE MCWorker ------------------------------
(* Instantiates Worker for TLC: one req and one stream connection slot.   *)
EXTENDS Worker

\* One connection of each mode: slot reuse across modes, and the two
\* fan-out routers side by side.
MCMaxConn == [m \in {Req, Stream} |-> 1]

\* Two connections of the stream mode and none of the req mode.
MCStreamOnly == [m \in {Req, Stream} |-> IF m = Stream THEN 2 ELSE 0]

=============================================================================
