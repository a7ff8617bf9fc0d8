-------------------------- MODULE MCClusterConfig --------------------------
(***************************************************************************)
(* An instance of ClusterConfig: three nodes whose points interleave on the  *)
(* ring.  The first key meets a point exactly; the second lies past the last *)
(* point until a node has more of them.                                      *)
(***************************************************************************)
EXTENDS ClusterConfig

KeyHashOf(k) == <<4, 11>>[k]

\* The points of a node beyond the second exist only when it is heavier.
PointHashOf(n, i) == <<<<2, 8, 15, 17>>, <<6, 12, 3, 14>>, <<10, 4, 16, 18>>>>[n][i + 1]

============================================================================
