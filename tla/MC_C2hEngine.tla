---------------------------- MODULE MC_C2hEngine ----------------------------
(***************************************************************************)
(* Instantiates C2hEngine for TLC: request model values r1..r3 and their   *)
(* scatter lists.  Each .cfg picks the rest of the constants.              *)
(***************************************************************************)
EXTENDS C2hEngine

CONSTANTS r1, r2, r3

\* r1 spans two segments (1 + 2 bytes), r2 one of 2, r3 one of 3 bytes.
MCSegs == (r1 :> <<1, 2>>) @@ (r2 :> <<2>>) @@ (r3 :> <<3>>)

\* Queue confs: no callback with udd enabled, no callback without udd, and
\* a packet callback (ULD) without udd.
MCDflt == [udd_en |-> TRUE, uld |-> FALSE]
MCPlain == [udd_en |-> FALSE, uld |-> FALSE]
MCUld == [udd_en |-> FALSE, uld |-> TRUE]
MCConfsBoth == {MCDflt, MCUld}
MCConfsDflt == {MCDflt}
MCConfsPlain == {MCPlain}
MCConfsUld == {MCUld}

MCNoPending == <<>>
MCPendingFirst == <<r1>>

=============================================================================
