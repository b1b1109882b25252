----------------------------- MODULE Accounting -----------------------------
(***************************************************************************)
(* What version-2 accounting promises a session: each confirmed crossing   *)
(* of a value to a destination is charged at most once, a delivery charges *)
(* all it owes or nothing, the points are a function of what was charged,  *)
(* and an account that closed stays closed.                                *)
(***************************************************************************)
EXTENDS Integers, FiniteSets, Functions

CONSTANTS
    Values,         \* sensitive values (and guarded files)
    Destinations,   \* where they can cross to
    DataTypes,      \* data types a value is found as
    Score           \* Score[t][n]: points of n disclosures of type t to one
                    \* destination, a function on Nat

Charges == [value : Values, to : Destinations, type : DataTypes]

VARIABLES
    charged,        \* the charges made so far
    points,         \* the session's score
    open            \* the account still accepts charges

SamePair(c, d) == c.value = d.value /\ c.to = d.to

\* The points a set of charges is worth: one group per type and destination.
Worth(C) ==
    SumFunction([g \in DataTypes \X Destinations |->
                    Score[g[1]][Cardinality({c \in C : c.type = g[1]
                                                       /\ c.to = g[2]})]])

Init == charged = {} /\ points = 0 /\ open = TRUE

\* One delivery charges every new pair it confirms, all together.
Charge ==
    /\ open
    /\ charged' \in SUBSET Charges
    /\ charged \subseteq charged' /\ charged' # charged
    /\ \A c, d \in charged' : SamePair(c, d) => c = d
    /\ points' = Worth(charged')
    /\ UNCHANGED open

Close == open /\ open' = FALSE /\ UNCHANGED <<charged, points>>

Next == Charge \/ Close

Spec == Init /\ [][Next]_<<charged, points, open>>
=============================================================================
