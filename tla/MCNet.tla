-------------------------------- MODULE MCNet --------------------------------
(* A TCP datagram that fits its buffer and one that does not, with         *)
(* identifications the DNS server may use too.                             *)
EXTENDS Net, TLC

MCDatagrams == {[id |-> 1, data |-> <<<<11, 1>>, <<11, 2>>>>],
                [id |-> 2, data |-> <<<<12, 1>>, <<12, 2>>, <<12, 3>>, <<12, 4>>>>]}
AnyHost     == Permutations(Hosts)
MCCap       == [p \in Protocols |-> IF p = "TCP" THEN 2 ELSE 3]
=============================================================================
