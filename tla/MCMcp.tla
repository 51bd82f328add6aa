------------------------------- MODULE MCMcp -------------------------------
(* Small instances of the MCP endpoint. *)
EXTENDS Mcp, TLC

Say(method, asks, flaw) == [method |-> method, asks |-> asks, flaw |-> flaw]

\* Batches in which an initialize comes twice, or after a message nobody
\* answers; null entries, broken envelopes and broken parameters.
SmallBatches ==
    {<<Say("initialize", TRUE, "none"), Say("initialize", TRUE, "none")>>,
     <<Say("notification", FALSE, "none"), Say("initialize", TRUE, "none")>>,
     <<Nothing, Say("unknown", FALSE, "none"), Say("ping", TRUE, "envelope"), Say("tools/call", FALSE, "params")>>}

Symmetric == Permutations(Requests) \cup Permutations(SessionIds) \cup Permutations(Instances)
=============================================================================
