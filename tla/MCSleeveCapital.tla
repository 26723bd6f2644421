---------------------------- MODULE MCSleeveCapital ----------------------------
(* SleeveCapital on small instances.                                       *)
EXTENDS SleeveCapital, TLC

\* Handlers, requests and orders are interchangeable.
Symmetry == Permutations(Handlers) \cup Permutations(Requests) \cup Permutations(Orders)

Between(from, to) == [from |-> from, to |-> to]

\* A deposit, a withdrawal, an allocation, and transfers: back, across to and from
\* the other base sleeve, and of a sleeve to itself.
FundMoves ==
    {Between(Outside, Unallocated), Between(Unallocated, Outside)}
      \cup UNION {{Between(Unallocated, s), Between(s, Unallocated), Between(s, Unmanaged),
                   Between(Unmanaged, s), Between(s, s)} : s \in Strategies}

\* Transfers back to Unallocated.
BackMoves == {Between(s, Unallocated) : s \in Strategies}
=============================================================================
