------------------------ MODULE MCAccountedSession ------------------------
(***************************************************************************)
(* TLC instances of AccountedSession.                                      *)
(***************************************************************************)
EXTENDS AccountedSession, TLC

CONSTANTS v1, v2, t1, t2, to1, to2

\* Sound: only safety is checked, and no delivery is told from another.
Symmetry == Permutations(Deliveries)

\* Concave, like severity * multiplier * (1 + ln n).
MCScore == [t \in DataTypes |->
               [n \in Nat |-> (IF t = t1 THEN 2 ELSE 1)
                              * CASE n = 0 -> 0 [] n = 1 -> 8 [] n = 2 -> 12
                                  [] n = 3 -> 14 [] OTHER -> 15]]

Finding(v, to, t, confirmed) ==
    [value |-> v, to |-> to, type |-> t, confirmed |-> confirmed]
Batch(fs) == [findings |-> fs, gap |-> FALSE]

\* A value seen before anything crossed, and another that crosses and that
\* two detectors give two types; a value to
\* two destinations; a scan with a gap, a value known as another type, and a
\* crossing to nobody we know.
ThreeBatches ==
    {Batch(<<Finding(v1, to1, t1, FALSE), Finding(v2, to1, t2, TRUE),
              Finding(v2, to1, t1, FALSE)>>),
     Batch(<<Finding(v1, to1, t1, TRUE), Finding(v1, to2, t1, TRUE)>>),
     [findings |-> <<Finding(v2, to1, t2, TRUE), Finding(v2, Unnamed, t1, TRUE)>>,
      gap |-> TRUE]}
=============================================================================
