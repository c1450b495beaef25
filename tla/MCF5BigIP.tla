----------------------------- MODULE MCF5BigIP -----------------------------
(***************************************************************************)
(* Values for model checking F5BigIP.  Both targets are on one host, so    *)
(* pools share a node.                                                     *)
(***************************************************************************)
EXTENDS F5BigIP

CONSTANTS pa, pb, px, v1, v2, v3, h1, h2

MCPools == {pa, pb, px}
MCCanon == [p \in MCPools |-> p]
MCTargets == {<<h1, 80>>, <<h1, 81>>, <<h2, 80>>}

MCForeignTargets == {<<h2, 80>>}

Config(p, port, hosts) ==
    [LBTargetPoolName |-> p, LBTargetPort |-> port,
     LBTargets |-> [n \in DOMAIN hosts |-> <<hosts[n], port>>]]

(* A service that scales, with a repeat, and one on another port of the    *)
(* same host.                                                              *)
MCConfigs == {Config(pa, 80, <<h1>>), Config(pa, 80, <<h1, h2, h1>>),
              Config(pb, 81, <<h1>>)}

(* A service that moves to another host, and one that takes its endpoint.  *)
MovingConfigs == {Config(pa, 80, <<h1>>), Config(pa, 80, <<h2>>),
                  Config(pb, 81, <<h1>>)}

=============================================================================
