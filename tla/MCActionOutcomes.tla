-------------------------- MODULE MCActionOutcomes --------------------------
(***************************************************************************)
(* A TLC instance of ActionOutcomes.                                       *)
(***************************************************************************)
EXTENDS ActionOutcomes, TLC

CONSTANTS s1, s2

MCFindings == {{}, {s1}, {s1, s2}}

OfPairs(bits, pairs, scope) ==
    [own |-> {}, bits |-> bits, pairs |-> pairs, scope |-> scope]
OfBoundary(bits) ==
    [own |-> bits, bits |-> {}, pairs |-> {}, scope |-> "boundary"]

\* A pair crossed, told with and without a scope; both were stopped; one was
\* removed; the boundary was stopped or crossed as a whole.
MCReports ==
    {Silent,
     OfPairs({"executed", "crossed"}, {s1}, "pairs"),
     OfPairs({"crossed"}, {s1}, "none"),
     OfPairs({"denyEnforced"}, {s1, s2}, "pairs"),
     OfPairs({"rewriteEnforced"}, {s1}, "pairs"),
     OfBoundary({"denyEnforced"}),
     OfBoundary({"executed", "crossed"})}
=============================================================================
