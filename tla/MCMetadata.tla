----------------------------- MODULE MCMetadata -----------------------------
(***************************************************************************)
(* Values for model checking Metadata: services of two stacks with every   *)
(* combination of labels and ports that is told apart, and a service with  *)
(* every kind of container.                                                *)
(***************************************************************************)
EXTENDS Metadata, TLC

CONSTANTS e1, e2, a1, a2, p11, p12, p21, px

MCTargets == {a1, a2} \X {80, 81}
MCPools == {p11, p12, p21, px}
MCOurPools == MCPools \ {px}
MCCanon == [p \in MCPools |-> p]
MCPoolName == [n \in {"n1"} \X {"k1", "k2"} |->
                 IF n[2] = "k1" THEN p11 ELSE p12]
              @@ [n \in {<<"n2", "k1">>} |-> p21]

Container(name, stack, state, health, ports) ==
    [ServiceName |-> name, StackName |-> stack,
     State |-> state, HealthState |-> health, Ports |-> ports]

Published(ip, port) == [valid |-> TRUE, ip |-> ip, port |-> port]
Malformed == [valid |-> FALSE, ip |-> a1, port |-> 80]

Service(name, stack, label, legacy, ports, containers) ==
    [Name |-> name, StackName |-> stack, Label |-> label,
     LegacyLabel |-> legacy, Ports |-> ports, Containers |-> containers]

Good == [valid |-> TRUE, port |-> 80]
Other == [valid |-> TRUE, port |-> 81]
Bad == [valid |-> FALSE, port |-> 80]

(* Services that compete for endpoints.                                    *)
Competing ==
    {Service(n[1], n[2], l, g, p,
             <<Container(n[1], n[2], "running", "healthy",
                         <<Published(a1, 80), Published(a2, 81)>>)>>) :
        n \in DOMAIN MCPoolName, l \in {NoLabel, e1, e2}, g \in {NoLabel, e1},
        p \in {<< >>, <<Bad, Good>>, <<Good>>, <<Other, Good>>}}

(* Containers of every kind, for a service of stack k1.                    *)
SomeContainers ==
    {Container(n, k, s, h, p) :
        n \in {NoName, "n1", "n2"}, k \in {"k1", "k2"},
        s \in {"running", "stopped"}, h \in {"healthy", "", "unhealthy"},
        p \in {<< >>, <<Malformed, Published(a1, 80)>>,
               <<Published(a2, 80), Published(a2, 81), Published(a2, 80)>>}}

Balanced ==
    {Service("n1", "k1", e1, NoLabel, <<Good>>, <<c, d>>) :
        c \in SomeContainers,
        d \in {x \in SomeContainers : Len(x.Ports) = 3}}

(* All lists of two services that compete, and one service with any        *)
(* container and one that publishes several ports.                         *)
MCServiceLists ==
    UNION {{<< >>}, {<<s>> : s \in Competing \cup Balanced},
           {l \in Competing \X Competing :
              l[1].Name = l[2].Name => l[1].StackName # l[2].StackName}}

=============================================================================
