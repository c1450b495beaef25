---------------------------- MODULE MetadataProofs ----------------------------
(***************************************************************************)
(* Proofs about GetMetadataLBConfigs, for every list of services.          *)
(*                                                                         *)
(* The target lists are concatenations of any number of lists, so what     *)
(* they hold is shown by induction.  It is induction over a set of         *)
(* numbers, which needs no operator for a parameter.                       *)
(***************************************************************************)
EXTENDS Metadata, WellFoundedInduction, TLAPS

(* A set with 0 and, with every number, its successor holds all numbers.   *)
LEMMA NaturalInduction ==
    ASSUME NEW S, 0 \in S, \A n \in Nat : n \in S => n + 1 \in S
    PROVE  Nat \subseteq S
<1> DEFINE T == Nat \ S
           R == OpToRel(<, Nat)
<1> SUFFICES ASSUME T # {} PROVE FALSE
  OBVIOUS
<1>1. \E x \in T : \A y \in T : ~(<<y, x>> \in R)
  <2>1. IsWellFoundedOn(R, Nat)
    BY NatLessThanWellFounded
  <2>2. T \subseteq Nat
    OBVIOUS
  <2> HIDE DEF T, R
  <2> QED
    BY <2>1, <2>2, WFMin, Zenon
<1>2. PICK x \in T : \A y \in T : ~(<<y, x>> \in R)
  BY <1>1
<1>3. x # 0 /\ x \in Nat
  OBVIOUS
<1>4. x - 1 \in Nat /\ x - 1 < x /\ x = (x - 1) + 1
  BY <1>3
<1>5. x - 1 \in T
  BY <1>3, <1>4
<1>6. <<x - 1, x>> \in R
  BY <1>3, <1>4 DEF OpToRel
<1> QED
  BY <1>2, <1>5, <1>6

-----------------------------------------------------------------------------
(* Concatenation.                                                          *)

(* f[i] is the concatenation of the first i of the sequences.              *)
Flatten(seqs, f, n) ==
    f = [i \in 1..n |-> IF i = 1 THEN seqs[i] ELSE f[i - 1] \o seqs[i]]

(* The recursion of FlattenSeq has a solution.                             *)
LEMMA FlattenExists ==
    ASSUME NEW seqs
    PROVE  \A n \in Nat : \E f : Flatten(seqs, f, n)
<1> DEFINE S == {n \in Nat : \E f : Flatten(seqs, f, n)}
<1>1. 0 \in S
  <2>1. Flatten(seqs, [i \in 1..0 |-> 0], 0)
    BY DEF Flatten
  <2> QED
    BY <2>1
<1>2. ASSUME NEW n \in Nat, n \in S PROVE n + 1 \in S
  <2>1. PICK f : Flatten(seqs, f, n)
    BY <1>2
  <2> DEFINE g == [i \in 1..(n + 1) |->
                     IF i = n + 1
                     THEN IF i = 1 THEN seqs[i] ELSE f[i - 1] \o seqs[i]
                     ELSE f[i]]
  <2>2. ASSUME NEW i \in 1..(n + 1)
        PROVE  g[i] = IF i = 1 THEN seqs[i] ELSE g[i - 1] \o seqs[i]
    <3>1. CASE i = n + 1
      <4>1. i # 1 => i - 1 \in 1..(n + 1) /\ i - 1 # n + 1
        BY <3>1
      <4> QED
        BY <3>1, <4>1
    <3>2. CASE i # n + 1
      <4>1. i \in 1..n /\ (i # 1 => i - 1 \in 1..(n + 1) /\ i - 1 # n + 1)
        BY <3>2
      <4> QED
        BY <2>1, <3>2, <4>1 DEF Flatten
    <3> QED
      BY <3>1, <3>2
  <2>3. g = [i \in 1..(n + 1) |-> IF i = 1 THEN seqs[i] ELSE g[i - 1] \o seqs[i]]
    <3>1. g = [i \in 1..(n + 1) |-> g[i]]
      OBVIOUS
    <3> HIDE DEF g
    <3> QED
      BY <3>1, <2>2
  <2>4. Flatten(seqs, g, n + 1)
    BY <2>3 DEF Flatten
  <2> QED
    BY <2>4
<1>3. \A n \in Nat : n \in S => n + 1 \in S
  BY <1>2
<1> HIDE DEF S
<1>4. Nat \subseteq S
  BY <1>1, <1>3, NaturalInduction
<1> QED
  BY <1>4 DEF S

(* Hence FlattenSeq is its last value.                                     *)
LEMMA FlattenSeqIsFlatten ==
    ASSUME NEW seqs, Len(seqs) \in Nat \ {0}
    PROVE  \E f : Flatten(seqs, f, Len(seqs)) /\ FlattenSeq(seqs) = f[Len(seqs)]
<1> DEFINE flatten == CHOOSE f : f = [i \in 1..Len(seqs) |->
                         IF i = 1 THEN seqs[i] ELSE f[i - 1] \o seqs[i]]
<1>1. FlattenSeq(seqs) = flatten[Len(seqs)]
  BY Zenon DEF FlattenSeq
<1>2. Flatten(seqs, flatten, Len(seqs))
  BY FlattenExists, Zenon DEF Flatten
<1> QED
  BY <1>1, <1>2

LEMMA RangeOfConcatenation ==
    ASSUME NEW S, NEW s \in Seq(S), NEW t \in Seq(S)
    PROVE  Range(s \o t) = Range(s) \cup Range(t)
<1> DEFINE c == s \o t
<1>1. Len(c) = Len(s) + Len(t) /\ DOMAIN c = 1..Len(c)
  OBVIOUS
<1>2. \A i \in 1..Len(s) : i \in DOMAIN c /\ c[i] = s[i]
  OBVIOUS
<1>3. \A i \in 1..Len(t) : Len(s) + i \in DOMAIN c /\ c[Len(s) + i] = t[i]
  OBVIOUS
<1>4. ASSUME NEW i \in DOMAIN c PROVE c[i] \in Range(s) \cup Range(t)
  <2>1. CASE i \in 1..Len(s)
    BY <1>2, <2>1 DEF Range
  <2>2. CASE i \notin 1..Len(s)
    <3>1. i - Len(s) \in 1..Len(t) /\ i = Len(s) + (i - Len(s))
      BY <1>1, <2>2
    <3>2. c[i] = t[i - Len(s)]
      BY <1>3, <3>1
    <3> QED
      BY <3>1, <3>2 DEF Range
  <2> QED
    BY <2>1, <2>2
<1>5. \A i \in DOMAIN s : c[i] = s[i] /\ i \in DOMAIN c
  BY <1>2
<1>6. \A i \in DOMAIN t : c[Len(s) + i] = t[i] /\ Len(s) + i \in DOMAIN c
  BY <1>3
<1> HIDE DEF c
<1>7. Range(c) \subseteq Range(s) \cup Range(t)
  BY <1>4 DEF Range
<1>8. Range(s) \subseteq Range(c)
  BY <1>5 DEF Range
<1>9. Range(t) \subseteq Range(c)
  BY <1>6 DEF Range
<1> QED
  BY <1>7, <1>8, <1>9 DEF c

(* A concatenation holds what the sequences hold, no more and no less.     *)
LEMMA FlattenSeqHolds ==
    ASSUME NEW S, NEW seqs \in Seq(Seq(S))
    PROVE  /\ FlattenSeq(seqs) \in Seq(S)
           /\ \A x : x \in Range(FlattenSeq(seqs)) <=>
                       \E i \in DOMAIN seqs : x \in Range(seqs[i])
<1>1. CASE Len(seqs) = 0
  BY <1>1 DEF FlattenSeq, Range
<1>2. CASE Len(seqs) # 0
  <2> DEFINE N == Len(seqs)
  <2>1. N \in Nat \ {0} /\ DOMAIN seqs = 1..N
    BY <1>2
  <2>2. PICK f : Flatten(seqs, f, N) /\ FlattenSeq(seqs) = f[N]
    BY <2>1, FlattenSeqIsFlatten
  <2> DEFINE Holds(n) ==
               /\ f[n] \in Seq(S)
               /\ \A x : x \in Range(f[n]) <=> \E i \in 1..n : x \in Range(seqs[i])
             I == {n \in Nat : n \in 1..N => Holds(n)}
  <2>3. 0 \in I
    OBVIOUS
  <2>4. ASSUME NEW n \in Nat, n \in I PROVE n + 1 \in I
    <3> SUFFICES ASSUME n + 1 \in 1..N PROVE Holds(n + 1)
      OBVIOUS
    <3>1. CASE n = 0
      <4>1. f[1] = seqs[1] /\ 1 \in DOMAIN seqs
        BY <2>1, <2>2 DEF Flatten
      <4>2. \A i \in 1..(n + 1) : i = 1
        BY <3>1
      <4>3. n + 1 = 1 /\ 1 \in 1..(n + 1)
        BY <3>1
      <4> QED
        BY <4>1, <4>2, <4>3
    <3>2. CASE n # 0
      <4>1. n \in 1..N /\ (n + 1) - 1 = n /\ n + 1 # 1
        BY <3>2
      <4>2. f[n + 1] = f[n] \o seqs[n + 1]
        BY <2>2, <4>1 DEF Flatten
      <4>3. Holds(n) /\ seqs[n + 1] \in Seq(S)
        BY <2>1, <2>4, <4>1
      <4>4. Range(f[n + 1]) = Range(f[n]) \cup Range(seqs[n + 1])
        BY <4>2, <4>3, RangeOfConcatenation
      <4>5. 1..(n + 1) = 1..n \cup {n + 1}
        OBVIOUS
      <4>6. f[n + 1] \in Seq(S)
        BY <4>2, <4>3
      <4> QED
        BY <4>3, <4>4, <4>5, <4>6, Zenon
    <3> QED
      BY <3>1, <3>2
  <2>5. Nat \subseteq I
    <3>1. \A n \in Nat : n \in I => n + 1 \in I
      BY <2>4
    <3> HIDE DEF I
    <3> QED
      BY <2>3, <3>1, NaturalInduction
  <2>6. Holds(N)
    <3>1. N \in 1..N
      BY <2>1
    <3> HIDE DEF Holds, N
    <3> QED
      BY <2>1, <2>5, <3>1
  <2> QED
    BY <2>1, <2>2, <2>6
<1> QED
  BY <1>1, <1>2

-----------------------------------------------------------------------------
(* Targets.                                                                *)

(* The targets of a container are the well-formed ports it publishes that  *)
(* bear the number asked for.                                              *)
LEMMA ContainerTargetsHold ==
    ASSUME NEW c \in Containers, NEW port \in Ports
    PROVE  /\ ContainerTargets(c, port) \in Seq(Targets)
           /\ Range(ContainerTargets(c, port)) =
                 {<<q.ip, port>> : q \in {p \in Range(c.Ports) : p.valid /\ p.port = port}}
<1> DEFINE Entry(i) == IF c.Ports[i].valid /\ c.Ports[i].port = port
                       THEN << <<c.Ports[i].ip, port>> >> ELSE << >>
           entries == [i \in DOMAIN c.Ports |-> Entry(i)]
<1>1. c.Ports \in Seq(ContainerPorts)
  BY DEF Containers
<1>2. \A i \in DOMAIN c.Ports : c.Ports[i] \in ContainerPorts
  BY <1>1
<1>3. ASSUME NEW i \in DOMAIN c.Ports PROVE Entry(i) \in Seq(Targets)
  <2>1. c.Ports[i].ip \in {t[1] : t \in Targets}
    BY <1>2 DEF ContainerPorts
  <2>2. <<c.Ports[i].ip, port>> \in Targets
    BY <2>1, MetadataAssumption
  <2> QED
    BY <2>2
<1>4. \A x : \A i \in DOMAIN c.Ports :
         x \in Range(Entry(i)) <=>
            c.Ports[i].valid /\ c.Ports[i].port = port /\ x = <<c.Ports[i].ip, port>>
  BY DEF Range
<1>5. entries \in Seq(Seq(Targets)) /\ DOMAIN entries = DOMAIN c.Ports
  <2> HIDE DEF Entry
  <2> QED
    BY <1>1, <1>3
<1>6. \A i \in DOMAIN c.Ports : entries[i] = Entry(i)
  OBVIOUS
<1>7. ContainerTargets(c, port) = FlattenSeq(entries)
  BY DEF ContainerTargets
<1> HIDE DEF entries, Entry
<1>8. ContainerTargets(c, port) \in Seq(Targets)
  BY <1>5, <1>7, FlattenSeqHolds
<1>9. \A x : x \in Range(ContainerTargets(c, port)) <=>
                 \E i \in DOMAIN c.Ports : x \in Range(Entry(i))
  BY <1>5, <1>6, <1>7, FlattenSeqHolds
<1>10. \A x : x \in Range(ContainerTargets(c, port)) <=>
                 x \in {<<q.ip, port>> : q \in {p \in Range(c.Ports) : p.valid /\ p.port = port}}
  BY <1>4, <1>9 DEF Range
<1> QED
  BY <1>8, <1>10

(* The targets of a service are the addresses it can be reached at.        *)
LEMMA TargetsAreReachable ==
    ASSUME NEW s, s.Containers \in Seq(Containers), NEW port \in Ports
    PROVE  /\ getContainerLBTargets(s, port) \in Seq(Targets)
           /\ Range(getContainerLBTargets(s, port)) = Reachable(s, port)
<1> DEFINE Entry(i) == IF Counts(s.Containers[i], s)
                       THEN ContainerTargets(s.Containers[i], port) ELSE << >>
           entries == [i \in DOMAIN s.Containers |-> Entry(i)]
<1>1. \A i \in DOMAIN s.Containers : s.Containers[i] \in Containers
  OBVIOUS
<1>2. \A i \in DOMAIN s.Containers : Entry(i) \in Seq(Targets)
  BY <1>1, ContainerTargetsHold
<1>3. ASSUME NEW i \in DOMAIN s.Containers, NEW x
      PROVE  x \in Range(Entry(i)) <=>
                /\ Counts(s.Containers[i], s)
                /\ x \in {<<q.ip, port>> : q \in
                         {p \in Range(s.Containers[i].Ports) : p.valid /\ p.port = port}}
  <2>1. CASE Counts(s.Containers[i], s)
    BY <1>1, <2>1, ContainerTargetsHold
  <2>2. CASE ~Counts(s.Containers[i], s)
    <3>1. Range(<< >>) = {}
      BY DEF Range
    <3> QED
      BY <2>2, <3>1
  <2> QED
    BY <2>1, <2>2
<1>4. entries \in Seq(Seq(Targets)) /\ DOMAIN entries = DOMAIN s.Containers
  <2> HIDE DEF Entry
  <2> QED
    BY <1>2
<1>5. \A i \in DOMAIN s.Containers : entries[i] = Entry(i)
  OBVIOUS
<1>6. getContainerLBTargets(s, port) = FlattenSeq(entries)
  BY DEF getContainerLBTargets
<1> HIDE DEF entries, Entry
<1>7. getContainerLBTargets(s, port) \in Seq(Targets)
  BY <1>4, <1>6, FlattenSeqHolds
<1>8. \A x : x \in Range(getContainerLBTargets(s, port)) <=>
                 \E i \in DOMAIN s.Containers : x \in Range(Entry(i))
  BY <1>4, <1>5, <1>6, FlattenSeqHolds
<1> DEFINE Counted == {d \in Range(s.Containers) : Counts(d, s)}
<1>9. Reachable(s, port) =
         {<<q.ip, port>> : q \in
            UNION {{p \in Range(c.Ports) : p.valid /\ p.port = port} : c \in Counted}}
  <2>1. \A d : Counts(d, s) <=>
           /\ d.ServiceName # NoName
           /\ s.Name = NoName \/ (d.ServiceName = s.Name /\ d.StackName = s.StackName)
           /\ d.State = "running"
           /\ d.HealthState \in {"", "healthy", "updating-healthy"}
    BY DEF Counts, containerStateOK
  <2> QED
    BY <2>1, Zenon DEF Reachable
<1>10. ASSUME NEW x
       PROVE  x \in Reachable(s, port) <=> \E i \in DOMAIN s.Containers : x \in Range(Entry(i))
  <2>1. x \in Reachable(s, port) <=>
           \E c \in Counted : \E q \in Range(c.Ports) :
              q.valid /\ q.port = port /\ x = <<q.ip, port>>
    BY <1>9
  <2>2. x \in Reachable(s, port) <=>
           \E i \in DOMAIN s.Containers :
              /\ Counts(s.Containers[i], s)
              /\ \E q \in Range(s.Containers[i].Ports) :
                    q.valid /\ q.port = port /\ x = <<q.ip, port>>
    BY <2>1 DEF Range
  <2> QED
    BY <1>3, <2>2
<1> QED
  BY <1>7, <1>8, <1>10

-----------------------------------------------------------------------------
(* The inductive invariant.  With the types of the results goes what the   *)
(* property says of the services seen so far.                              *)

IInv ==
    /\ services \in ServiceLists
    /\ TypeOK
    /\ FirstClaimWins

LEMMA FirstOfSequence ==
    ASSUME NEW S, NEW s \in Seq(S), s # << >>
    PROVE  s[1] \in S
<1>1. Len(s) \in Nat /\ Len(s) # 0
  OBVIOUS
<1> QED
  BY <1>1

(* The services of a list, and their configurations.                       *)
LEMMA ServiceTypes ==
    ASSUME NEW l \in ServiceLists
    PROVE  /\ Len(l) \in Nat /\ DOMAIN l = 1..Len(l)
           /\ \A i \in DOMAIN l : EndpointOf(l[i]) \in Endpoints \cup {NoLabel}
           /\ \A i \in DOMAIN l : l[i].Containers \in Seq(Containers)
           /\ \A i \in DOMAIN l : Eligible(l[i]) =>
                 /\ EndpointOf(l[i]) \in Endpoints
                 /\ l[i].Ports[1].port \in Ports
                 /\ <<l[i].Name, l[i].StackName>> \in DOMAIN PoolName
<1>1. l \in Seq(Range(l))
  BY ServicesAssumption
<1>2. \A i \in DOMAIN l :
         /\ EndpointOf(l[i]) \in Endpoints \cup {NoLabel}
         /\ l[i].Ports \in Seq(ServicePorts)
         /\ l[i].Containers \in Seq(Containers)
         /\ Eligible(l[i]) => <<l[i].Name, l[i].StackName>> \in DOMAIN PoolName
  BY ServicesAssumption
<1>3. ASSUME NEW i \in DOMAIN l, Eligible(l[i])
      PROVE  EndpointOf(l[i]) \in Endpoints /\ l[i].Ports[1].port \in Ports
  <2>1. EndpointOf(l[i]) # NoLabel /\ l[i].Ports # << >>
    BY <1>3 DEF Eligible
  <2>2. l[i].Ports[1] \in ServicePorts
    <3>1. l[i].Ports \in Seq(ServicePorts)
      BY <1>2
    <3> QED
      BY <2>1, <3>1, FirstOfSequence
  <2> QED
    BY <1>2, <2>1, <2>2 DEF ServicePorts
<1>4. Len(l) \in Nat /\ DOMAIN l = 1..Len(l)
  BY <1>1
<1> QED
  BY <1>2, <1>3, <1>4, Zenon

(* A configuration is made for an eligible service; it is not a missing    *)
(* map entry, and it has the service's pool and targets.                   *)
LEMMA LBConfigOfIsConfig ==
    ASSUME NEW l \in ServiceLists, NEW i \in DOMAIN l, Eligible(l[i])
    PROVE  LBConfigOf(l[i]) \in LBConfigs /\ LBConfigOf(l[i]) # NoConfig
<1>1. l[i].Ports[1].port \in Ports /\ l[i].Containers \in Seq(Containers)
  BY ServiceTypes, Zenon
<1>2. PoolName[<<l[i].Name, l[i].StackName>>] \in OurPools
  <2>1. <<l[i].Name, l[i].StackName>> \in DOMAIN PoolName
    BY ServiceTypes, Zenon
  <2> QED
    BY <2>1, MetadataAssumption
<1>3. getContainerLBTargets(l[i], l[i].Ports[1].port) \in Seq(Targets)
  BY <1>1, TargetsAreReachable
<1>4. LBConfigOf(l[i]) \in LBConfigs
  BY <1>1, <1>2, <1>3 DEF LBConfigOf, PoolNameOf, LBConfigs
<1> QED
  BY <1>4, MetadataAssumption

LEMMA InitInv == Init => IInv
<1> SUFFICES ASSUME Init PROVE IInv
  OBVIOUS
<1>1. Len(services) \in Nat
  BY ServiceTypes DEF Init
<1>2. \A e \in Endpoints : Claims(e) = {}
  BY DEF Init, Claims
<1>3. TypeOK
  BY <1>1 DEF Init, TypeOK
<1> QED
  BY <1>2, <1>3 DEF Init, IInv, FirstClaimWins

LEMMA NextInv == IInv /\ [Next]_vars => IInv'
<1> SUFFICES ASSUME IInv, [Next]_vars PROVE IInv'
  OBVIOUS
<1> USE DEF IInv
<1>1. /\ Len(services) \in Nat /\ DOMAIN services = 1..Len(services)
      /\ \A i \in DOMAIN services : EndpointOf(services[i]) \in Endpoints \cup {NoLabel}
  BY ServiceTypes
<1>2. CASE ProcessService
  <2> DEFINE s == services[next]
             taken == EndpointOf(s)
  <2>1. /\ next \in DOMAIN services /\ next' = next + 1
        /\ services' = services /\ pc' = pc
        /\ next \in 1..(Len(services) + 1)
        /\ lbConfigs \in [Endpoints -> LBConfigs \cup {NoConfig}]
        /\ lbConfigs' = IF Eligible(s) /\ lbConfigs[taken] = NoConfig
                        THEN [lbConfigs EXCEPT ![taken] = LBConfigOf(s)] ELSE lbConfigs
    BY <1>2 DEF ProcessService, TypeOK
  <2>2. Eligible(s) => taken \in Endpoints /\ LBConfigOf(s) \in LBConfigs
                       /\ LBConfigOf(s) # NoConfig
    BY <2>1, ServiceTypes, LBConfigOfIsConfig
  <2>3. next + 1 \in 1..(Len(services) + 1)
    BY <1>1, <2>1
  <2>4. TypeOK'
    <3>1. lbConfigs' \in [Endpoints -> LBConfigs \cup {NoConfig}]
      <4> HIDE DEF s, taken
      <4> QED
        BY <2>1, <2>2
    <3> QED
      BY <2>1, <2>3, <3>1 DEF TypeOK
  <2>5. ASSUME NEW e \in Endpoints
        PROVE  Claims(e)' = Claims(e) \cup {i \in {next} : Eligible(s) /\ taken = e}
    <3>1. 1..(next + 1 - 1) = 1..(next - 1) \cup {next}
      BY <1>1, <2>1
    <3> QED
      BY <2>1, <3>1 DEF Claims
  <2>6. \A e \in Endpoints : \A j \in Claims(e) : j <= next /\ j \in Nat
    BY <1>1, <2>1 DEF Claims
  <2>7. ASSUME NEW e \in Endpoints
        PROVE  IF Claims(e)' = {} THEN lbConfigs'[e] = NoConfig
               ELSE \E i \in Claims(e)' :
                       /\ \A j \in Claims(e)' : i <= j
                       /\ lbConfigs'[e] = LBConfigOf(services'[i])
    <3>1. IF Claims(e) = {} THEN lbConfigs[e] = NoConfig
          ELSE \E i \in Claims(e) :
                  /\ \A j \in Claims(e) : i <= j
                  /\ lbConfigs[e] = LBConfigOf(services[i])
      BY DEF FirstClaimWins
    <3>2. CASE ~(Eligible(s) /\ taken = e)
      <4>1. Claims(e)' = Claims(e)
        BY <2>5, <3>2
      <4>2. lbConfigs'[e] = lbConfigs[e]
        <5> HIDE DEF s, taken
        <5> QED
          BY <2>1, <2>2, <3>2
      <4> QED
        BY <2>1, <3>1, <4>1, <4>2
    <3>3. CASE Eligible(s) /\ taken = e /\ Claims(e) = {}
      <4>1. Claims(e)' = {next}
        BY <2>5, <3>3
      <4>2. lbConfigs'[e] = LBConfigOf(s)
        <5> HIDE DEF s, taken
        <5> QED
          BY <2>1, <3>1, <3>3
      <4>3. next <= next
        BY <2>1
      <4> QED
        BY <2>1, <4>1, <4>2, <4>3
    <3>4. CASE Eligible(s) /\ taken = e /\ Claims(e) # {}
      <4>1. PICK i \in Claims(e) :
               (\A j \in Claims(e) : i <= j) /\ lbConfigs[e] = LBConfigOf(services[i])
        BY <3>1, <3>4
      <4>2. i \in DOMAIN services /\ Eligible(services[i])
        BY <1>1, <2>1 DEF Claims
      <4>3. lbConfigs[e] # NoConfig
        BY <4>1, <4>2, LBConfigOfIsConfig
      <4>4. lbConfigs' = lbConfigs
        BY <2>1, <3>4, <4>3
      <4>5. Claims(e)' = Claims(e) \cup {next}
        BY <2>5, <3>4
      <4>6. \A j \in Claims(e)' : i <= j
        BY <2>6, <4>1, <4>5
      <4> QED
        BY <2>1, <4>1, <4>4, <4>5, <4>6
    <3> QED
      BY <3>2, <3>3, <3>4
  <2>8. FirstClaimWins'
    BY <2>7 DEF FirstClaimWins
  <2> QED
    BY <2>1, <2>4, <2>8
<1>3. CASE GetServices \/ Return \/ UNCHANGED vars
  <2>1. /\ services' = services /\ next' = next /\ lbConfigs' = lbConfigs
        /\ pc' \in {"read", "loop", "done"}
    BY <1>3 DEF GetServices, Return, vars, TypeOK
  <2>2. \A e \in Endpoints : Claims(e)' = Claims(e)
    BY <2>1 DEF Claims
  <2> QED
    BY <2>1, <2>2 DEF TypeOK, FirstClaimWins
<1> QED
  BY <1>2, <1>3 DEF Next

(* The invariant holds in every state: the services are taken in order and *)
(* a map entry once made stays (metadata.go:79-123).                       *)
THEOREM InductiveInvariant == Spec => []IInv
BY InitInv, NextInv, PTL DEF Spec

-----------------------------------------------------------------------------
(* The theorems.                                                           *)

(* Every result is a map from endpoints to configurations with a pool of   *)
(* this environment, a port and a list of targets (metadata.go:73-127).    *)
THEOREM TypeCorrect == Spec => []TypeOK
<1>1. IInv => TypeOK
  BY DEF IInv
<1> QED
  BY <1>1, InductiveInvariant, PTL

(* An endpoint belongs to the first eligible service that names it         *)
(* (metadata.go:90-95).                                                    *)
THEOREM FirstServiceKeepsEndpoint == Spec => []FirstClaimWins
<1>1. IInv => FirstClaimWins
  BY DEF IInv
<1> QED
  BY <1>1, InductiveInvariant, PTL

(* The configuration of an endpoint is that of a service of the list.      *)
LEMMA ConfigHasService ==
    ASSUME IInv, NEW e \in Endpoints, lbConfigs[e] # NoConfig
    PROVE  \E i \in DOMAIN services :
              /\ Eligible(services[i])
              /\ EndpointOf(services[i]) = e
              /\ lbConfigs[e] = LBConfigOf(services[i])
<1>1. Len(services) \in Nat /\ DOMAIN services = 1..Len(services)
  BY ServiceTypes DEF IInv
<1>2. PICK i \in Claims(e) : lbConfigs[e] = LBConfigOf(services[i])
  BY DEF IInv, FirstClaimWins
<1>3. i \in DOMAIN services
  BY <1>1, <1>2 DEF Claims, IInv, TypeOK
<1> QED
  BY <1>2, <1>3 DEF Claims

(* The targets of every configuration are exactly the addresses its        *)
(* service can be reached at (metadata.go:129-196), whatever containers    *)
(* there are and however many ports they publish.                          *)
THEOREM NoTargetTooMuchOrTooFew == Spec => []TargetsExact
<1>1. IInv => TargetsExact
  <2> SUFFICES ASSUME IInv, NEW e \in Endpoints, lbConfigs[e] # NoConfig
               PROVE  \E s \in Range(services) :
                         /\ EndpointOf(s) = e
                         /\ lbConfigs[e].LBTargetPoolName = PoolName[<<s.Name, s.StackName>>]
                         /\ Range(lbConfigs[e].LBTargets) = Reachable(s, lbConfigs[e].LBTargetPort)
    BY DEF TargetsExact
  <2>1. PICK i \in DOMAIN services :
           /\ Eligible(services[i])
           /\ EndpointOf(services[i]) = e
           /\ lbConfigs[e] = LBConfigOf(services[i])
    BY ConfigHasService
  <2> DEFINE s == services[i]
             port == s.Ports[1].port
  <2>2. s.Containers \in Seq(Containers) /\ port \in Ports
    BY <2>1, ServiceTypes, Zenon DEF IInv
  <2>3. Range(getContainerLBTargets(s, port)) = Reachable(s, port)
    BY <2>2, TargetsAreReachable
  <2>4. /\ lbConfigs[e].LBTargetPoolName = PoolName[<<s.Name, s.StackName>>]
        /\ lbConfigs[e].LBTargetPort = port
        /\ lbConfigs[e].LBTargets = getContainerLBTargets(s, port)
    BY <2>1 DEF LBConfigOf, PoolNameOf
  <2>5. s \in Range(services)
    BY DEF Range
  <2> HIDE DEF s, port
  <2> QED
    BY <2>1, <2>3, <2>4, <2>5 DEF s
<1> QED
  BY <1>1, InductiveInvariant, PTL

(* No two endpoints get the same pool name (metadata.go:115): names tell   *)
(* services apart, and a service names one endpoint.                       *)
THEOREM PoolNamesTellEndpointsApart == Spec => []PoolsDistinct
<1>1. IInv => PoolsDistinct
  <2> SUFFICES ASSUME IInv, NEW d \in Endpoints, NEW e \in Endpoints,
                      lbConfigs[d] # NoConfig, lbConfigs[e] # NoConfig,
                      lbConfigs[d].LBTargetPoolName = lbConfigs[e].LBTargetPoolName
               PROVE  d = e
    BY DEF PoolsDistinct
  <2>1. PICK i \in DOMAIN services :
           /\ Eligible(services[i])
           /\ EndpointOf(services[i]) = d
           /\ lbConfigs[d] = LBConfigOf(services[i])
    BY ConfigHasService
  <2>2. PICK j \in DOMAIN services :
           /\ Eligible(services[j])
           /\ EndpointOf(services[j]) = e
           /\ lbConfigs[e] = LBConfigOf(services[j])
    BY ConfigHasService
  <2> DEFINE m == <<services[i].Name, services[i].StackName>>
             n == <<services[j].Name, services[j].StackName>>
  <2>3. m \in DOMAIN PoolName /\ n \in DOMAIN PoolName
    BY <2>1, <2>2, ServiceTypes, Zenon DEF IInv
  <2>4. lbConfigs[d].LBTargetPoolName = PoolName[m] /\ lbConfigs[e].LBTargetPoolName = PoolName[n]
    BY <2>1, <2>2 DEF LBConfigOf, PoolNameOf
  <2>5. PoolName[m] = PoolName[n]
    BY <2>4
  <2>6. m = n
    <3> HIDE DEF m, n
    <3> QED
      BY <2>3, <2>5, MetadataAssumption DEF IsInjective
  <2>7. i = j
    BY <2>6, MetadataAssumption DEF IInv
  <2> QED
    BY <2>1, <2>2, <2>7
<1> QED
  BY <1>1, InductiveInvariant, PTL

=============================================================================
