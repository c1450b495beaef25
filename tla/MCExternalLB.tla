---------------------------- MODULE MCExternalLB ----------------------------
(***************************************************************************)
(* Values for model checking ExternalLB.  Pools pa and PA differ in case   *)
(* only, px belongs to another environment.                                *)
(***************************************************************************)
EXTENDS ExternalLB, TLC

CONSTANTS pa, PA, pb, px, e1, e2, t1, t2, s1, s2

MCPools == {pa, PA, pb, px}
MCOurPools == {pa, PA, pb}
MCCanon == [p \in MCPools |-> IF p = PA THEN pa ELSE p]
MCServiceOf == [p \in MCOurPools |-> IF p = pb THEN s2 ELSE s1]

Config(p, ts) ==
    [LBTargetPoolName |-> p, LBTargetPort |-> 80, LBTargets |-> ts]

LB(p, ts) == [LBTargetPoolName |-> p, LBTargets |-> ts]

(* A service that scales between one and two targets, and another one.     *)
MCConfigs == {Config(pa, <<t1>>), Config(pa, <<t1, t2>>), Config(pb, <<t2>>)}

(* Two services, for the liveness properties.                              *)
TwoConfigs == {Config(pa, <<t1, t2>>), Config(pb, <<t2>>)}

(* Another environment's configuration, one of our own that differs from   *)
(* a wanted one in case, one with a target that has gone.                  *)
MCInitialCarried ==
    {NoConfig, LB(px, {t1}), LB(PA, {t1}), LB(pb, {t1})}

SmallCarried == {NoConfig, LB(px, {t1}), LB(pa, {t1, t2})}

ForeignCarried == {NoConfig, LB(px, {t1})}

=============================================================================
