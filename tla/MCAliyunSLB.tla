---------------------------- MODULE MCAliyunSLB ----------------------------
(***************************************************************************)
(* Values for model checking AliyunSLB.  Balancer l1 is of the network     *)
(* that listings ask for, l2 is not.  Instance i3 is found by a3, but a    *)
(* listing reads no address of it, as of a private address in a VPC;       *)
(* nobody has address a5.                                                  *)
(***************************************************************************)
EXTENDS AliyunSLB

CONSTANTS pa, pb, l1, l2, n1, i1, i2, i3, a1, a2, a3, a5

MCAddress == [i \in {i1, i2, i3} |->
                CASE i = i1 -> a1 [] i = i2 -> a2 [] i = i3 -> a3]
MCListedAddress == [MCAddress EXCEPT ![i3] = NoAddress]
MCTargets == {a1, a2, a3, a5, NoAddress} \X {80, 81, 82}
MCCanon == [p \in {pa, pb} |-> p]
MCListenerPorts == [l \in LBs |-> IF l = l1 THEN {80, 81} ELSE {81}]

(* The operator has named the balancer by its id, or otherwise.            *)
NamedById == [l \in LBs |-> l]
NamedOtherwise == [l \in LBs |-> n1]

Config(p, port, as) ==
    [LBTargetPoolName |-> p, LBTargetPort |-> port,
     LBTargets |-> [n \in DOMAIN as |-> <<as[n], port>>]]

(* A service that scales, with a repeat, an unknown address and more than  *)
(* a page of addresses, and another service.                               *)
MCConfigs == {Config(pa, 80, <<a1, a1, a2>>), Config(pa, 80, <<a1, a5>>),
              Config(pb, 81, <<a2, a1, a3>>), Config(pb, 82, <<a2>>)}

=============================================================================
