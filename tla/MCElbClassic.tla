---------------------------- MODULE MCElbClassic ----------------------------
(***************************************************************************)
(* Values for model checking ElbClassic.  The first page of the listing    *)
(* names l2 and l1, which takes a request for tags each; l3 lies beyond    *)
(* it.  Configurations name l1, l3, which listens on port 81 only, and a   *)
(* balancer that does not exist, but not l2, somebody else's.  Instance    *)
(* i3, at address a3, is in another VPC.                                   *)
(***************************************************************************)
EXTENDS ElbClassic

CONSTANTS pa, pb, l1, l2, l3, noLB, i1, i2, i3, a1, a2, a3

MCAddress == [i \in {i1, i2, i3} |->
                CASE i = i1 -> a1 [] i = i2 -> a2 [] i = i3 -> a3]
MCTargets == {a1, a2, a3} \X {80, 81}
MCCanon == [p \in {pa, pb} |-> p]
MCListenerPorts == [l \in LBs |-> IF l = l1 THEN {80, 81} ELSE {81}]
MCFirstPage == <<l2, l1>>

Config(p, port, as) ==
    [LBTargetPoolName |-> p, LBTargetPort |-> port,
     LBTargets |-> [n \in DOMAIN as |-> <<as[n], port>>]]

MCConfigs == {Config(pa, 80, <<a1>>),
              Config(pb, 81, <<a2, a3>>), Config(pa, 80, <<a3>>)}

=============================================================================
