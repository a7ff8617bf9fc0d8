---------------------------- MODULE MCRangeGet -----------------------------
(***************************************************************************)
(* An instance of RangeGet: two nodes with one boundary.                    *)
(***************************************************************************)
EXTENDS RangeGet

TwoNodes == [nodes |-> {1, 2}, weights |-> <<1, 1>>, strategy |-> "range",
             vnodes |-> 1, ranges |-> <<1>>]

FirstRetried == <<2, 1>>

AnyHash(k) == k
AnyPoint(n, i) == n

============================================================================
