---------------------------- MODULE QueuePairsAbs ----------------------------
(***************************************************************************)
(* What the queue table of a QDMA function promises its users: a set of    *)
(* configured queues, each a direction and a queue index, and a character  *)
(* device for exactly the indices that have a configured direction.  One   *)
(* netlink command configures or unconfigures several queues at once.      *)
(* The promise holds until the kernel oopses: the step that faults may     *)
(* leave the table in any state, and nothing happens after it.             *)
(***************************************************************************)
CONSTANTS QIdx, Dir

VARIABLES configured, nodes, oopsed

absVars == <<configured, nodes, oopsed>>

Indices(S) == {e[2] : e \in S}

AbsInit == configured = {} /\ nodes = {} /\ ~oopsed

\* Queues that were not configured become configured; their indices get a
\* device node (a new one, or the one the other direction already has).
Configure(S) ==
    /\ S # {}
    /\ S \cap configured = {}
    /\ configured' = configured \cup S
    /\ nodes' = nodes \cup Indices(S)
    /\ UNCHANGED oopsed

\* Configured queues are dropped; an index keeps its node while its other
\* direction is still configured.
Unconfigure(S) ==
    /\ S # {}
    /\ S \subseteq configured
    /\ configured' = configured \ S
    /\ nodes' = Indices(configured')
    /\ UNCHANGED oopsed

\* A kernel fault in the middle of a step.
Oops ==
    /\ oopsed' = TRUE
    /\ configured' \in SUBSET (Dir \X QIdx)
    /\ nodes' \in SUBSET QIdx

AbsNext ==
    /\ ~oopsed
    /\ \/ \E S \in SUBSET (Dir \X QIdx) : Configure(S) \/ Unconfigure(S)
       \/ Oops

AbsSpec == AbsInit /\ [][AbsNext]_absVars
=============================================================================
