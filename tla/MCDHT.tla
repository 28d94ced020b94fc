--------------------------------- MODULE MCDHT ---------------------------------
(* Self (1) and two other nodes on identities of four bits; seven nodes    *)
(* outside have announced the blob, as many as the claim about its pages   *)
(* covers for K = 2.                                                       *)
EXTENDS DHT

I(a, b) == <<a, b, 0, 0>>
MCFirstId == (1 :> I(0, 0)) @@ (2 :> I(1, 0)) @@ (3 :> I(1, 1))
MCSpareId == I(0, 1)
MCSeeds == <<2>>
MCKnown == (1 :> {}) @@ (2 :> {[id |-> I(1, 1), at |-> 3]}) @@ (3 :> {[id |-> I(1, 0), at |-> 2]})
Provider(n) == [key |-> I(1, 1), id |-> <<n % 2, (n \div 2) % 2, (n \div 4) % 2, 1>>, at |-> 10 + n, live |-> TRUE]
MCPublished == (1 :> {}) @@ (2 :> {Provider(n) : n \in 0 .. 6}) @@ (3 :> {})
MCBlob == I(1, 1)
MCRefreshed == {I(1, 0)}
=============================================================================
