--------------------------- MODULE MCRequestPath ---------------------------
(***************************************************************************)
(* Instances of RequestPath for TLC.                                        *)
(***************************************************************************)
EXTENDS RequestPath, TLC

CONSTANTS p, d, g,   \* calls: a put, a delete and a get of one key
          p2,        \* a second call with the id of p
          rp, rd, rg, ka, s

\* A put, a delete and a get of the same key, on one shard.
WriteReadCalls  == {p, d, g}
WriteReadIds    == {rp, rd, rg}
WriteReadIdOf   == (p :> rp) @@ (d :> rd) @@ (g :> rg)
WriteReadOpOf   == (rp :> "put") @@ (rd :> "delete") @@ (rg :> "get")
WriteReadKeyOf  == (rp :> ka) @@ (rd :> ka) @@ (rg :> ka)

\* A put and a get of one key, on a shard that may be without a connection.
UndialedCalls == {p, g}
UndialedIds   == {rp, rg}
UndialedIdOf  == (p :> rp) @@ (g :> rg)
UndialedOpOf  == (rp :> "put") @@ (rg :> "get")
UndialedKeyOf == (rp :> ka) @@ (rg :> ka)

\* The client repeats a put, and deletes the key.
MixCalls == {p, p2, d}
MixIds   == {rp, rd}
MixIdOf  == (p :> rp) @@ (p2 :> rp) @@ (d :> rd)
MixOpOf  == (rp :> "put") @@ (rd :> "delete")
MixKeyOf == (rp :> ka) @@ (rd :> ka)
\* The two puts are alike; the run checks safety only.
MixSymmetry == Permutations({p, p2})

\* Two Sends of the put, or of the get of its key, one of everything else.
PutTwice == [c \in Calls |-> IF c = p THEN 2 ELSE 1]
GetTwice == [c \in Calls |-> IF c = g THEN 2 ELSE 1]
AllOnce  == [c \in Calls |-> 1]

ShardOfKeys == (ka :> s)

============================================================================
