------------------------------- MODULE MCPumps ------------------------------
EXTENDS Pumps

CONSTANTS req, outStream, c1

\* run() drives the req pump before the stream-addr pump.  The stream-any
\* pump between them is the same loop over its own channel and handle, so
\* it is left out; the stream-addr pump carries the keep-alive emitter.
MCPumpOrder == <<req, outStream>>
=============================================================================
