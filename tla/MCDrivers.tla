----------------------------- MODULE MCDrivers -----------------------------
EXTENDS Drivers, TLC

Symmetry == Permutations(Tasks \ {Idle})

\* A disk of two sectors with a partition, one of an absurd size, and one of
\* a single sector without a partition table.
ThreeDisks == 1 :> 2 @@ 2 :> 9 @@ 3 :> 1
OnePartition == 1 :> <<[start |-> 1, count |-> 1], [start |-> 0, count |-> 0]>> @@ 2 :> <<>> @@ 3 :> <<>>

SomeKeys == "a" :> [plain |-> "a", shifted |-> "A"] @@ "slash" :> [plain |-> "/", shifted |-> "?"]
            @@ "shift" :> [plain |-> INV, shifted |-> INV] @@ "caps" :> [plain |-> INV, shifted |-> INV]
=============================================================================
