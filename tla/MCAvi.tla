------------------------------- MODULE MCAvi -------------------------------
(***************************************************************************)
(* Values for model checking Avi.  px is the name of an operator's pool,   *)
(* pz that of another environment's; pa and pb are ours.                   *)
(***************************************************************************)
EXTENDS Avi

CONSTANTS pa, pb, px, pz, v1, v2, v3, t1, t2, i1, i2, i3, i4, i5

MCPools == {pa, pb, px, pz}
MCCanon == [p \in MCPools |-> p]

Config(p, targets) ==
    [LBTargetPoolName |-> p, LBTargetPort |-> 80, LBTargets |-> targets]

(* A service that scales, with a repeat, and one that takes its endpoint.  *)
MCConfigs == {Config(pa, <<t1>>), Config(pa, <<t1, t2, t1>>), Config(pb, <<t2>>)}

MCInitPools ==
    [i \in {i1, i2, i3, i4, i5} |->
        CASE i = i1 -> [name |-> px, servers |-> {t1}]
          [] i = i2 -> [name |-> pz, servers |-> {t2}]
          [] i \in {i3, i4, i5} -> NoPool]

=============================================================================
