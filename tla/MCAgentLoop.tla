---------------------------- MODULE MCAgentLoop ----------------------------
(***************************************************************************)
(* AgentLoop for TLC: what a cfg cannot write, a limit per kind of loop.    *)
(***************************************************************************)
EXTENDS AgentLoop

CONSTANT Limit

MCLoopLimit == [k \in LoopKinds |-> Limit]
=============================================================================
