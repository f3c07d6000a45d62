---------------------------- MODULE MC_BenchUtil ----------------------------
(* A small instance of BenchUtil for TLC.                                  *)
EXTENDS BenchUtil

\* Two types and two nodes per kind and call: enough for a kind with two
\* types to receive two nodes, and for a kind with none to be asked for one.
MCMaxCount == 2

\* Three insert calls: types, nodes, and a second nodes call after a failure
\* or a restart.
MCMaxCalls == 3

\* The three kinds and a value outside the FillNodesConfig enum.
\* For the round-robin run: three nodes per call, so that a kind with two
\* types is asked for three nodes and the i % size index wraps to the first
\* type again; two calls (the types, then the nodes) keep the run short.
MCMaxCountWrap == 3
MCMaxCallsWrap == 2

MCSpecs == {"Artifact", "Execution", "Context", "Unknown"}
=============================================================================
