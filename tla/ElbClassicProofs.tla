-------------------------- MODULE ElbClassicProofs --------------------------
(***************************************************************************)
(* Proofs about ElbClassic, for any number of load balancers, instances,   *)
(* configurations, edits and failures, and for pages of any length.        *)
(* NoOrphans and ListsFirstPage hold between calls only because of what    *)
(* the calls keep on their way: Control says what is in flight at each     *)
(* point of a call, Swap how far the instances have been replaced, and     *)
(* Listing how far the balancers of the page have been read.               *)
(* The step simulation of LBProvider rests on the same facts.              *)
(***************************************************************************)
EXTENDS ElbClassic, FiniteSetTheorems, SequenceTheorems, WellFoundedInduction, TLAPS

(* Where the call in flight can be, by its kind, and what it is about.     *)
Control ==
    /\ pc = "idle" \/ op = "list" =>
          lbName = NoCall /\ config = NoConfig /\ disturbed = FALSE
    /\ pc # "idle" => (op = "list" <=> pc \in {"balancers", "tags", "read", "instances"})
    /\ pc # "idle" /\ op # "list" => lbName \in Endpoints
    /\ pc # "idle" /\ op = "put" => config \in Configs
    /\ pc \in {"lookup", "tag"} => op = "put"
    /\ pc \in {"untagPool", "untagPort"} => op = "remove"
    /\ pc # "idle" => op # "none"
    /\ pc \in {"lookup", "health", "register", "deregister", "tag",
               "untagPool", "untagPort"} => lbName \in LBs
    /\ disturbed => lbName \in mishaps
    /\ pc \in {"balancers", "tags"} => todo = {} /\ reading = NoCall
    /\ pc = "balancers" => asked = 0 /\ lbTags = {}
    /\ pc = "tags" => asked < Len(TagRequests)
    /\ pc = "instances" => reading \in todo

(* The instances the call is to leave.                                     *)
Wanted == IF op = "remove" THEN {} ELSE LookupInstancesByIPAddress(config)

(* How far ensureBackendInstances has come, and that a balancer loses its  *)
(* first tag before the second.                                            *)
Swap ==
    /\ pc = "describe" => instanceIds = {}
    /\ pc \in {"health", "register", "deregister", "tag", "untagPool",
               "untagPort"} => instanceIds = Wanted
    /\ pc = "register" /\ ~disturbed =>
          registered[lbName] = registeredInstanceIds
    /\ pc = "deregister" /\ ~disturbed =>
          registered[lbName] = registeredInstanceIds \cup instanceIds
    /\ pc \in {"tag", "untagPool", "untagPort"} /\ ~disturbed =>
          registered[lbName] = instanceIds
    /\ pc = "untagPort" => poolTag[lbName] = NoTag

(* The names in the first n requests for tags.                             *)
NamesAsked(n) == UNION {Range(TagRequests[k]) : k \in 1..n}

(* What GetLBConfigs has found out when it has read all but todo.          *)
Listing ==
    /\ op = "list" /\ pc \in {"balancers", "tags"} =>
          lbConfigs = [l \in LBs |-> NoConfig]
    /\ pc = "tags" => lbTags = {l \in NamesAsked(asked) : Tagged(l)}
    /\ op = "list" /\ (pc \in {"read", "instances"} \/ (pc = "idle" /\ outcome = "ok")) =>
          /\ lbTags = {l \in Range(FirstPage) : Tagged(l)}
          /\ \A l \in LBs :
                IF l \in lbTags \ todo
                THEN /\ lbConfigs[l] # NoConfig
                     /\ l \notin mishaps => lbConfigs[l] = Carries(l)
                ELSE lbConfigs[l] = NoConfig
    /\ pc = "instances" /\ reading \notin mishaps => instanceIds = registered[reading]
    /\ op = "list" /\ pc = "idle" /\ outcome = "ok" => todo = {}

IInv == TypeOK /\ Control /\ Swap /\ NoOrphans /\ Listing

-----------------------------------------------------------------------------
(* The chunks of findLBTags.                                               *)

(* Division rounds down.                                                   *)
LEMMA DivisionBounds ==
    ASSUME NEW n \in Nat, NEW c \in Nat \ {0}
    PROVE  /\ n \div c \in Nat
           /\ (n \div c) * c <= n
           /\ n < ((n \div c) + 1) * c
  OBVIOUS

LEMMA FactorOrder ==
    ASSUME NEW a \in Int, NEW b \in Int, NEW c \in Nat \ {0}, a * c < b * c
    PROVE  a < b
  <1>1. ASSUME b <= a PROVE FALSE
    <2>1. (a - b) * c >= 0
      BY <1>1
    <2>2. (a - b) * c = a * c - b * c
      OBVIOUS
    <2> QED
      BY <2>1, <2>2
  <1> QED
    BY <1>1

(* Each chunk holds the names from one multiple of chunkSize to the next,  *)
(* none is empty and none is longer than chunkSize (elb_classic.go:        *)
(* 359-365).                                                               *)
IsChunk(chunk, S, names, c, k) ==
    /\ chunk \in Seq(S)
    /\ Len(chunk) \in 1..c
    /\ (k - 1) * c + Len(chunk) <= Len(names)
    /\ (k - 1) * c + Len(chunk) = IF k * c > Len(names) THEN Len(names) ELSE k * c
    /\ \A i \in 1..Len(chunk) : chunk[i] = names[(k - 1) * c + i]

LEMMA ChunkContents ==
    ASSUME NEW S, NEW names \in Seq(S), NEW c \in Nat \ {0},
           NEW k \in DOMAIN dividedNames(names, c)
    PROVE  IsChunk(dividedNames(names, c)[k], S, names, c, k)
  <1> DEFINE n == Len(names)
             K == (n + c - 1) \div c
             base == (k - 1) * c
             last == IF k * c > n THEN n ELSE k * c
             chunk == dividedNames(names, c)[k]
  <1>1. n \in Nat /\ \A i \in 1..n : names[i] \in S
    OBVIOUS
  <1>2. k \in 1..K /\ chunk = SubSeq(names, base + 1, last)
    BY DEF dividedNames
  <1>3. K \in Nat /\ K * c <= n + c - 1
    BY <1>1, DivisionBounds
  <1>4. k \in Int /\ k * c <= K * c /\ base = k * c - c /\ base >= 0
    <2>1. k \in Int /\ k - 1 >= 0 /\ K - k >= 0
      BY <1>2, <1>3
    <2>2. (K - k) * c >= 0 /\ (K - k) * c = K * c - k * c
      BY <1>3, <2>1
    <2>3. (k - 1) * c >= 0 /\ (k - 1) * c = k * c - c
      BY <2>1
    <2>4. k * c \in Int /\ K * c \in Int
      BY <1>3, <2>1
    <2> QED
      BY <2>1, <2>2, <2>3, <2>4
  <1>5. /\ base \in Nat /\ last \in Int
        /\ base + 1 <= last /\ last <= n /\ last <= base + c
    <2> DEFINE kc == k * c
    <2>1. kc \in Int /\ base = kc - c /\ base >= 0 /\ kc <= n + c - 1
          /\ last = IF kc > n THEN n ELSE kc
      <3>1. k * c \in Int /\ K * c \in Int
        BY <1>3, <1>4
      <3> QED
        BY <1>1, <1>3, <1>4, <3>1
    <2> HIDE DEF kc, base, last, n
    <2> QED
      BY <1>1, <2>1
  <1> HIDE DEF n, K, last, base
  <1>6. \A i \in (base + 1)..last : names[i] \in S
    BY <1>1, <1>5
  <1>7. /\ chunk \in Seq(S)
        /\ Len(chunk) = last - (base + 1) + 1
        /\ \A i \in 1..(last - (base + 1) + 1) : chunk[i] = names[(base + 1) + i - 1]
    BY <1>2, <1>5, <1>6, SubSeqProperties DEF base
  <1>8. Len(chunk) = last - base
    BY <1>5, <1>7
  <1>9. \A i \in 1..Len(chunk) : chunk[i] = names[base + i]
    <2>1. \A i \in Int : (base + 1) + i - 1 = base + i
      BY <1>5
    <2>2. ASSUME NEW i \in 1..Len(chunk) PROVE i \in 1..(last - (base + 1) + 1)
      BY <1>7
    <2>3. ASSUME NEW i \in 1..Len(chunk) PROVE i \in Int
      BY <1>5, <1>8
    <2> QED
      BY <1>7, <2>1, <2>2, <2>3
  <1>10. Len(chunk) \in 1..c /\ base + Len(chunk) <= n
    BY <1>1, <1>5, <1>8
  <1>11. base + Len(chunk) = last
    BY <1>5, <1>8
  <1> QED
    BY <1>7, <1>9, <1>10, <1>11 DEF n, base, last, IsChunk

(* Every name is in a chunk.                                               *)
LEMMA ChunkOfName ==
    ASSUME NEW S, NEW names \in Seq(S), NEW c \in Nat \ {0},
           NEW p \in 1..Len(names)
    PROVE  LET k == (p - 1) \div c + 1
           IN  /\ k \in DOMAIN dividedNames(names, c)
               /\ (k - 1) * c \in Nat
               /\ p - (k - 1) * c \in 1..Len(dividedNames(names, c)[k])
  <1> DEFINE n == Len(names)
             K == (n + c - 1) \div c
             q == (p - 1) \div c
             last == IF (q + 1) * c > n THEN n ELSE (q + 1) * c
             chunk == dividedNames(names, c)[q + 1]
  <1>1. n \in Nat /\ p \in 1..n /\ \A i \in 1..n : names[i] \in S
    OBVIOUS
  <1>2. K \in Nat /\ n + c - 1 < (K + 1) * c
    BY <1>1, DivisionBounds
  <1>3. q \in Nat /\ q * c <= p - 1 /\ p - 1 < (q + 1) * c
    BY <1>1, DivisionBounds
  <1>4. (K + 1) * c = K * c + c /\ (q + 1) * c = q * c + c
    BY <1>2, <1>3
  <1>5. q * c < K * c
    BY <1>1, <1>2, <1>3, <1>4
  <1>6. q < K
    BY <1>2, <1>3, <1>5, FactorOrder
  <1>7. q + 1 \in DOMAIN dividedNames(names, c)
        /\ chunk = SubSeq(names, q * c + 1, last)
    <2>1. q + 1 \in 1..K /\ (q + 1) - 1 = q
      BY <1>2, <1>3, <1>6
    <2> QED
      BY <2>1 DEF dividedNames
  <1>8. q * c \in Nat /\ last \in Int /\ p <= last /\ last <= n
    BY <1>1, <1>3, <1>4
  <1>9. \A i \in (q * c + 1)..last : names[i] \in S
    BY <1>1, <1>8
  <1> HIDE DEF n, K, q, last
  <1>10. Len(chunk) = last - (q * c + 1) + 1
    BY <1>3, <1>7, <1>8, <1>9, <1>1, SubSeqProperties
  <1>11. p - q * c \in 1..Len(chunk)
    BY <1>1, <1>3, <1>8, <1>10
  <1>12. (q + 1) - 1 = q
    BY <1>3
  <1> QED
    BY <1>7, <1>8, <1>11, <1>12 DEF q

(* So the chunks hold the names, and nothing else.                         *)
LEMMA ChunksCover ==
    ASSUME NEW S, NEW names \in Seq(S), NEW c \in Nat \ {0}
    PROVE  LET chunks == dividedNames(names, c)
           IN  UNION {Range(chunks[k]) : k \in DOMAIN chunks} = Range(names)
  <1> DEFINE chunks == dividedNames(names, c)
  <1>1. DOMAIN names = 1..Len(names) /\ Len(names) \in Nat
    OBVIOUS
  <1>2. ASSUME NEW k \in DOMAIN chunks, NEW x \in Range(chunks[k])
        PROVE  x \in Range(names)
    <2>1. chunks[k] \in Seq(S) /\ k \in Nat \ {0}
      <3>1. chunks[k] \in Seq(S)
        BY ChunkContents, Zenon DEF IsChunk
      <3>2. k \in Nat \ {0}
        BY DivisionBounds, <1>1 DEF dividedNames
      <3> QED
        BY <3>1, <3>2
    <2>2. PICK i \in 1..Len(chunks[k]) : x = chunks[k][i]
      BY <2>1 DEF Range
    <2>3. /\ chunks[k][i] = names[(k - 1) * c + i]
          /\ Len(chunks[k]) \in 1..c
          /\ (k - 1) * c + Len(chunks[k]) <= Len(names)
      BY <2>2, ChunkContents DEF IsChunk
    <2>4. (k - 1) * c \in Nat
      BY <2>1
    <2>5. (k - 1) * c + i \in 1..Len(names)
      BY <1>1, <2>2, <2>3, <2>4
    <2> QED
      BY <1>1, <2>2, <2>3, <2>5 DEF Range
  <1>3. ASSUME NEW p \in 1..Len(names)
        PROVE  \E k \in DOMAIN chunks : names[p] \in Range(chunks[k])
    <2> DEFINE k == (p - 1) \div c + 1
               base == (k - 1) * c
    <2>1. k \in DOMAIN chunks /\ base \in Nat /\ p - base \in 1..Len(chunks[k])
      BY ChunkOfName
    <2> HIDE DEF k
    <2>2. /\ chunks[k] \in Seq(S)
          /\ \A i \in 1..Len(chunks[k]) : chunks[k][i] = names[base + i]
      BY <2>1, ChunkContents DEF IsChunk
    <2> HIDE DEF base
    <2>3. chunks[k][p - base] = names[base + (p - base)]
      BY <2>1, <2>2
    <2>4. base + (p - base) = p
      BY <1>1, <2>1
    <2>5. names[p] \in Range(chunks[k])
      BY <2>1, <2>2, <2>3, <2>4 DEF Range
    <2> QED
      BY <2>1, <2>5
  <1> HIDE DEF chunks
  <1>4. Range(names) = {names[p] : p \in 1..Len(names)}
    BY <1>1 DEF Range
  <1> QED
    BY <1>2, <1>3, <1>4 DEF chunks

(* SetToSeq lists a finite set.                                            *)
LEMMA SetToSeqRange ==
    ASSUME NEW S, IsFiniteSet(S)
    PROVE  SetToSeq(S) \in Seq(S) /\ Range(SetToSeq(S)) = S
  <1> DEFINE n == Cardinality(S)
             f == SetToSeq(S)
  <1>1. n \in Nat /\ ExistsBijection(1..n, S)
    BY FS_CardinalityType
  <1>2. PICK g \in [1..n -> S] : IsInjective(g) /\ Range(g) = S
    BY <1>1 DEF ExistsBijection, Bijection, Injection, Surjection, IsInjective, Range
  <1>3. f \in [1..n -> S] /\ IsInjective(f)
    BY <1>2 DEF SetToSeq
  <1>4. f \in Seq(S)
    BY <1>1, <1>3
  <1>5. f \in Injection(1..n, S)
    BY <1>3 DEF Injection, IsInjective
  <1>6. IsFiniteSet(1..n) /\ Cardinality(1..n) = n
    BY <1>1, FS_Interval
  <1> HIDE DEF f, n
  <1>7. f \in Surjection(1..n, S)
    BY <1>5, <1>6, FS_Injection DEF n
  <1>8. Range(f) = S
    BY <1>3, <1>7 DEF Surjection, Range
  <1> QED
    BY <1>4, <1>8 DEF f

(* The tags of every balancer on the page are asked for, and of no other   *)
(* (elb_classic.go:356-386).                                               *)
LEMMA PageAsked ==
    /\ Len(TagRequests) \in Nat
    /\ FirstPage # << >> => 0 < Len(TagRequests)
    /\ NamesAsked(Len(TagRequests)) = Range(FirstPage)
    /\ \A k \in 1..Len(TagRequests) : Range(TagRequests[k]) \subseteq Range(FirstPage)
    /\ Range(FirstPage) \subseteq LBs
  <1> DEFINE n == Len(FirstPage)
             K == (n + ChunkSize - 1) \div ChunkSize
  <1>1. FirstPage \in Seq(LBs) /\ ChunkSize \in Nat \ {0}
    BY ElbAssumption
  <1>2. n \in Nat /\ n + ChunkSize - 1 \in Nat
    BY <1>1
  <1>3. K \in Nat /\ n + ChunkSize - 1 < (K + 1) * ChunkSize
    BY <1>1, <1>2, DivisionBounds
  <1>4. Len(TagRequests) = K /\ DOMAIN TagRequests = 1..K
    <2> HIDE DEF K
    <2>1. DOMAIN TagRequests = 1..K
      BY DEF TagRequests, dividedNames, K
    <2>2. TagRequests = [k \in 1..K |-> TagRequests[k]]
      BY DEF TagRequests, dividedNames, K
    <2> QED
      BY <1>3, <2>1, <2>2
  <1>5. FirstPage # << >> => 0 < K
    <2>1. FirstPage # << >> => n > 0
      BY <1>1
    <2>2. K = 0 => (K + 1) * ChunkSize = ChunkSize
      BY <1>1
    <2> HIDE DEF K, n
    <2> QED
      BY <1>1, <1>2, <1>3, <2>1, <2>2
  <1>6. UNION {Range(TagRequests[k]) : k \in DOMAIN TagRequests} = Range(FirstPage)
    BY <1>1, ChunksCover, Zenon DEF TagRequests
  <1>7. Range(FirstPage) \subseteq LBs
    BY <1>1 DEF Range
  <1> HIDE DEF K
  <1>8. NamesAsked(Len(TagRequests)) = Range(FirstPage)
    BY <1>4, <1>6 DEF NamesAsked
  <1> QED
    BY <1>3, <1>4, <1>5, <1>6, <1>7, <1>8

-----------------------------------------------------------------------------
(* What calls leave.                                                       *)

(* Whatever is registered, a report is one a balancer can carry.           *)
LEMMA ReportType ==
    ASSUME NEW pool \in Pools, NEW port \in Ports, NEW ids \in SUBSET Instances
    PROVE  /\ Report(pool, port, ids) \in Carried
           /\ Report(pool, port, ids) # NoConfig
           /\ Report(pool, port, ids).LBTargetPoolName = pool
           /\ Report(pool, port, ids).LBTargets \subseteq Targets
  <1>1. {<<Address[i], port>> : i \in ids} \subseteq Targets
    BY ElbAssumption
  <1>2. Report(pool, port, ids) \in Carried
    BY <1>1 DEF Report, Carried
  <1> QED
    BY <1>1, <1>2, ConfigsAssumption DEF Report

(* A configuration's fields, and the instances it is looked up to.         *)
LEMMA ConfigType ==
    ASSUME NEW c \in Configs
    PROVE  /\ c \in LBConfigs
           /\ c # NoConfig
           /\ c.LBTargetPoolName \in Pools /\ c.LBTargetPoolName # NoTag
           /\ c.LBTargetPort \in Ports /\ c.LBTargetPort # NoTag
           /\ LookupInstancesByIPAddress(c) \subseteq Instances
  <1>1. c \in LBConfigs /\ c # NoConfig
    BY ConfigsAssumption
  <1>2. c.LBTargetPoolName \in Pools /\ c.LBTargetPort \in Ports
    BY <1>1, PoolsAssumption DEF LBConfigs
  <1>3. LookupInstancesByIPAddress(c) \subseteq Instances
    BY ElbAssumption DEF LookupInstancesByIPAddress
  <1> QED
    BY <1>1, <1>2, <1>3, ElbAssumption

(* The goal of a call is what GetLBConfigs makes of a balancer with the    *)
(* instances that are found (aws_elbv1.go:146-171, 324-351).               *)
LEMMA ServedIsCarried ==
    ASSUME NEW c \in Configs
    PROVE  Carry(Served[c]) = Report(c.LBTargetPoolName, c.LBTargetPort,
                                     LookupInstancesByIPAddress(c))
  <1> DEFINE found == {Address[i] : i \in LookupInstancesByIPAddress(c)}
             kept == {t \in Range(c.LBTargets) : t[1] \in found}
  <1>1. c \in LBConfigs
    BY ConfigsAssumption
  <1>2. Range(c.LBTargets) \subseteq Targets
    BY <1>1 DEF LBConfigs, Range
  <1>3. Range(SetToSeq(kept)) = kept
    <2>1. IsFiniteSet(kept)
      BY <1>2, TargetsAssumption, FS_Subset
    <2> QED
      BY <2>1, SetToSeqRange
  <1>4. Served[c] = [c EXCEPT !.LBTargets = SetToSeq(kept)]
    BY DEF Served
  <1>5. Served[c].LBTargets = SetToSeq(kept)
        /\ Served[c].LBTargetPoolName = c.LBTargetPoolName
    BY <1>1, <1>4 DEF LBConfigs
  <1>6. kept \subseteq {<<Address[i], c.LBTargetPort>> :
                         i \in LookupInstancesByIPAddress(c)}
    BY <1>2, ElbAssumption
  <1>7. ASSUME NEW i \in LookupInstancesByIPAddress(c)
        PROVE  <<Address[i], c.LBTargetPort>> \in kept
    <2>1. PICK t \in Range(c.LBTargets) : Address[i] = t[1]
      BY DEF LookupInstancesByIPAddress
    <2>2. t = <<Address[i], c.LBTargetPort>>
      BY <1>2, <2>1, ElbAssumption
    <2> QED
      BY <2>1, <2>2
  <1>8. kept = {<<Address[i], c.LBTargetPort>> : i \in LookupInstancesByIPAddress(c)}
    BY <1>6, <1>7
  <1> QED
    BY <1>3, <1>5, <1>8 DEF Carry, Report

(* The tags of a tagged balancer make a report, whatever the instances.    *)
LEMMA TaggedReport ==
    ASSUME TypeOK, NEW l \in LBs, Tagged(l), NEW ids \in SUBSET Instances
    PROVE  /\ Report(poolTag[l], portTag[l], ids) \in Carried
           /\ Report(poolTag[l], portTag[l], ids) # NoConfig
  <1>1. poolTag[l] \in Pools /\ portTag[l] \in Ports
    BY DEF TypeOK, Tagged
  <1> QED
    BY <1>1, ReportType

-----------------------------------------------------------------------------
(* The steps.                                                              *)

LEMMA InitInv == Init => IInv
  <1> SUFFICES ASSUME Init PROVE IInv
    OBVIOUS
  <1>1. TypeOK
    <2>1. 0 \in 0..MaxEdits /\ 0 \in 0..MaxFailures /\ 0 \in 0..Len(TagRequests)
      BY ElbAssumption, PageAsked
    <2> QED
      BY <2>1 DEF Init, TypeOK
  <1>2. Control /\ Swap /\ Listing
    BY DEF Init, Control, Swap, Listing
  <1>3. NoOrphans
    BY DEF Init, NoOrphans
  <1> QED
    BY <1>1, <1>2, <1>3 DEF IInv

(* The part of the state that tells where the call is and how it ended.    *)
CallTypeOK ==
    /\ pc \in {"idle", "describe", "lookup", "health", "register",
               "deregister", "tag", "untagPool", "untagPort",
               "balancers", "tags", "read", "instances"}
    /\ op \in {"none", "list", "put", "remove"}
    /\ lbName \in Endpoints \cup {NoCall}
    /\ config \in Configs \cup {NoConfig}
    /\ outcome \in {"none", "ok", "error"}
    /\ disturbed \in BOOLEAN
    /\ mishaps \subseteq LBs
    /\ failures \in 0..MaxFailures

(* A request that fails ends the call.                                     *)
LEMMA FailureType == ASSUME TypeOK, RequestFails PROVE CallTypeOK'
  <1>1. failures' \in 0..MaxFailures
    BY ElbAssumption DEF TypeOK, RequestFails, Fails
  <1>2. mishaps' \subseteq LBs
    BY DEF TypeOK, RequestFails, ReturnError
  <1> QED
    BY <1>1, <1>2 DEF TypeOK, CallTypeOK, RequestFails, ReturnError, Finish

(* One that is answered leads to the next, or to the end of the call.      *)
LEMMA SuccessType ==
    ASSUME TypeOK, Succeeds,
           \/ ReturnOk \/ ReturnError
           \/ \E next \in {"lookup", "health", "register", "deregister", "tag",
                            "untagPool", "untagPort", "tags", "read",
                            "instances"} : Proceed(next)
    PROVE  CallTypeOK'
  <1>1. failures' \in 0..MaxFailures
    BY DEF TypeOK, Succeeds
  <1>2. CASE ReturnOk
    BY <1>1, <1>2 DEF TypeOK, CallTypeOK, ReturnOk, Finish
  <1>3. CASE ReturnError
    <2>1. mishaps' \subseteq LBs
      BY <1>3 DEF TypeOK, ReturnError
    <2> QED
      BY <1>1, <1>3, <2>1 DEF TypeOK, CallTypeOK, ReturnError, Finish
  <1>4. CASE \E next \in {"lookup", "health", "register", "deregister", "tag",
                          "untagPool", "untagPort", "tags", "read",
                          "instances"} : Proceed(next)
    BY <1>1, <1>4 DEF TypeOK, CallTypeOK, Proceed, request
  <1> QED
    BY <1>2, <1>3, <1>4

LEMMA AnswerType ==
    ASSUME TypeOK,
           NEW next \in {"lookup", "health", "register", "deregister", "tag",
                         "untagPool", "untagPort"},
           Answer(next)
    PROVE  CallTypeOK'
  BY SuccessType, FailureType DEF Answer

(* Every variable keeps its type.                                          *)
LEMMA TypeStep ==
    ASSUME TypeOK, Control, Listing, [Next]_vars
    PROVE  TypeOK'
  <1> USE DEF aws, listing
  <1>0. 0 \in 0..Len(TagRequests)
    BY PageAsked
  <1>1. CASE Begin
    BY <1>0, <1>1 DEF Begin, ListingReset, TypeOK
  <1>2. CASE Describe
    <2>1. CallTypeOK'
      BY <1>2, SuccessType, FailureType DEF Describe
    <2> QED
      BY <1>2, <2>1 DEF Describe, TypeOK, CallTypeOK
  <1>3. CASE Lookup
    <2>1. CallTypeOK'
      BY <1>3, SuccessType, FailureType DEF Lookup
    <2>2. LookupInstancesByIPAddress(config) \subseteq Instances
      BY ElbAssumption DEF LookupInstancesByIPAddress
    <2>3. instanceIds' \subseteq Instances
      BY <1>3, <2>2 DEF Lookup, TypeOK
    <2> QED
      BY <1>3, <2>1, <2>3 DEF Lookup, TypeOK, CallTypeOK
  <1>4. CASE Health
    <2>1. CallTypeOK'
      BY <1>4, SuccessType, FailureType DEF Health
    <2>2. lbName \in LBs
      BY <1>4 DEF Health, Control
    <2>3. registeredInstanceIds' \subseteq Instances
      BY <1>4, <2>2 DEF Health, GetRegisteredInstances, TypeOK
    <2> QED
      BY <1>4, <2>1, <2>3 DEF Health, TypeOK, CallTypeOK
  <1>5. CASE Register
    <2>1. CallTypeOK'
      BY <1>5, SuccessType, FailureType, AnswerType DEF Register
    <2>2. registered' \in [LBs -> SUBSET Instances]
          /\ draining' \in [LBs -> SUBSET Instances]
      BY <1>5 DEF Register, RegisterInstances, TypeOK
    <2> QED
      BY <1>5, <2>1, <2>2 DEF Register, TypeOK, CallTypeOK
  <1>6. CASE Deregister
    <2>1. CallTypeOK'
      BY <1>6, SuccessType, FailureType, AnswerType DEF Deregister
    <2>2. registered' \in [LBs -> SUBSET Instances]
          /\ draining' \in [LBs -> SUBSET Instances]
      BY <1>6 DEF Deregister, DeregisterInstances, TypeOK
    <2> QED
      BY <1>6, <2>1, <2>2 DEF Deregister, TypeOK, CallTypeOK
  <1>7. CASE Tag
    <2>1. CallTypeOK'
      BY <1>7, SuccessType, FailureType DEF Tag
    <2>2. config \in Configs
      BY <1>7 DEF Tag, Control
    <2>3. poolTag' \in [LBs -> Pools \cup {NoTag}]
          /\ portTag' \in [LBs -> Ports \cup {NoTag}]
      BY <1>7, <2>2, ConfigType DEF Tag, TypeOK
    <2> QED
      BY <1>7, <2>1, <2>3 DEF Tag, TypeOK, CallTypeOK
  <1>8. CASE UntagPool
    <2>1. CallTypeOK'
      BY <1>8, SuccessType, FailureType, AnswerType DEF UntagPool
    <2> QED
      BY <1>8, <2>1 DEF UntagPool, TypeOK, CallTypeOK
  <1>9. CASE UntagPort
    <2>1. CallTypeOK'
      BY <1>9, SuccessType, FailureType DEF UntagPort
    <2> QED
      BY <1>9, <2>1 DEF UntagPort, TypeOK, CallTypeOK
  <1>10. CASE BeginList
    BY <1>0, <1>10 DEF BeginList, ListingReset, TypeOK
  <1>11. CASE DescribeLoadBalancers
    <2>1. CallTypeOK'
      BY <1>11, SuccessType, FailureType DEF DescribeLoadBalancers
    <2> QED
      BY <1>11, <2>1 DEF DescribeLoadBalancers, TypeOK, CallTypeOK
  <1>12. CASE DescribeTags
    <2>1. CallTypeOK'
      BY <1>12, SuccessType, FailureType DEF DescribeTags
    <2>2. CASE asked' = asked + 1
      <3>1. asked' \in 1..Len(TagRequests)
        BY <1>12, <2>2, PageAsked DEF DescribeTags, Control, TypeOK
      <3>2. Range(TagRequests[asked']) \subseteq LBs
        BY <3>1, PageAsked
      <3>3. lbTags' \subseteq LBs /\ todo' \subseteq lbTags' /\ reading' = NoCall
        BY <1>12, <2>2, <3>2 DEF DescribeTags, Control, TypeOK
      <3> QED
        BY <1>12, <2>1, <3>1, <3>3 DEF DescribeTags, TypeOK, CallTypeOK
    <2>3. CASE UNCHANGED <<asked, lbTags, todo>>
      BY <1>12, <2>1, <2>3 DEF DescribeTags, TypeOK, CallTypeOK
    <2> QED
      BY <1>12, <2>2, <2>3 DEF DescribeTags
  <1>13. CASE ReadRegistered
    <2>1. CallTypeOK'
      BY <1>13, SuccessType, FailureType DEF ReadRegistered
    <2>2. PICK l \in todo :
             \/ /\ instanceIds' = GetRegisteredInstances(l)
                /\ IF instanceIds' = {}
                   THEN AppendConfig(l, {})
                   ELSE reading' = l /\ UNCHANGED <<todo, lbConfigs>>
             \/ UNCHANGED <<instanceIds, todo, reading, lbConfigs>>
      BY <1>13 DEF ReadRegistered
    <2>3. l \in LBs /\ Report(poolTag[l], portTag[l], {}) \in Carried
      BY <1>13, <2>2, TaggedReport DEF ReadRegistered, Control, Listing, TypeOK
    <2>4. /\ instanceIds' \subseteq Instances
          /\ todo' \subseteq todo /\ reading' \in todo' \cup {NoCall}
          /\ lbConfigs' \in [LBs -> Carried \cup {NoConfig}]
      BY <2>2, <2>3 DEF AppendConfig, GetRegisteredInstances, TypeOK
    <2> QED
      BY <1>13, <2>1, <2>4 DEF ReadRegistered, TypeOK, CallTypeOK
  <1>14. CASE GetInstancesByID
    <2>1. CallTypeOK'
      BY <1>14, SuccessType, FailureType DEF GetInstancesByID
    <2>2. reading \in LBs /\ Report(poolTag[reading], portTag[reading], instanceIds) \in Carried
      BY <1>14, TaggedReport DEF GetInstancesByID, Control, Listing, TypeOK
    <2>3. /\ todo' \subseteq todo /\ reading' \in todo' \cup {NoCall}
          /\ lbConfigs' \in [LBs -> Carried \cup {NoConfig}]
      BY <1>14, <2>2 DEF GetInstancesByID, AppendConfig, TypeOK
    <2> QED
      BY <1>14, <2>1, <2>3 DEF GetInstancesByID, TypeOK, CallTypeOK
  <1>15. CASE EndList
    BY <1>15 DEF EndList, ReturnOk, Finish, TypeOK
  <1>16. CASE Drained
    BY <1>16 DEF Drained, TypeOK, request
  <1>17. CASE Drift
    <2>1. edits' \in 0..MaxEdits
      BY <1>17, ElbAssumption DEF Drift, TypeOK
    <2>2. PICK l \in LBs, i \in Instances :
             /\ registered' = [registered EXCEPT ![l] =
                                 IF i \in @ THEN @ \ {i} ELSE @ \cup {i}]
             /\ draining' = [draining EXCEPT ![l] =
                               IF i \in registered[l] THEN @ \cup {i} ELSE @ \ {i}]
             /\ disturbed' = (disturbed \/ lbName = l)
             /\ mishaps' = mishaps \cup {l}
      BY <1>17 DEF Drift
    <2>3. mishaps' \subseteq LBs /\ disturbed' \in BOOLEAN
      BY <2>2 DEF TypeOK
    <2>4. registered' \in [LBs -> SUBSET Instances]
          /\ draining' \in [LBs -> SUBSET Instances]
      BY <2>2 DEF TypeOK
    <2> QED
      BY <1>17, <2>1, <2>3, <2>4 DEF Drift, TypeOK, request
  <1>18. CASE Crash
    <2>1. CallTypeOK'
      BY <1>18, FailureType DEF Crash
    <2> QED
      BY <1>18, <2>1 DEF Crash, TypeOK, CallTypeOK
  <1>19. CASE UNCHANGED vars
    BY <1>19 DEF vars, request, TypeOK
  <1> QED
    BY <1>1, <1>2, <1>3, <1>4, <1>5, <1>6, <1>7, <1>8, <1>9, <1>10, <1>11,
       <1>12, <1>13, <1>14, <1>15, <1>16, <1>17, <1>18, <1>19 DEF Next

(* The call's kind and place keep in step.                                 *)
LEMMA ControlStep ==
    ASSUME TypeOK, Control, [Next]_vars
    PROVE  Control'
  <1> USE DEF Control, aws, request, listing
  <1> USE DEF Succeeds, Fails, Proceed, Finish, ReturnOk, ReturnError,
              RequestFails, Answer
  <1>1. CASE Begin
    BY <1>1 DEF Begin, ListingReset, TypeOK
  <1>2. CASE Describe
    BY <1>2 DEF Describe, Acceptable, TypeOK
  <1>3. CASE Lookup \/ Health
    BY <1>3 DEF Lookup, Health
  <1>4. CASE Register
    BY <1>4 DEF Register
  <1>5. CASE Deregister
    BY <1>5 DEF Deregister, TypeOK
  <1>6. CASE Tag \/ UntagPool \/ UntagPort
    BY <1>6 DEF Tag, UntagPool, UntagPort
  <1>7. CASE BeginList
    BY <1>7 DEF BeginList, ListingReset
  <1>8. CASE DescribeLoadBalancers \/ DescribeTags \/ ReadRegistered
             \/ GetInstancesByID \/ EndList
    <2>1. CASE DescribeLoadBalancers
      BY <2>1, PageAsked DEF DescribeLoadBalancers
    <2>2. CASE DescribeTags
      BY <2>2, PageAsked DEF DescribeTags, TypeOK
    <2>3. CASE ReadRegistered \/ GetInstancesByID
      BY <2>3 DEF ReadRegistered, GetInstancesByID, AppendConfig
    <2>4. CASE EndList
      BY <2>4 DEF EndList
    <2> QED
      BY <1>8, <2>1, <2>2, <2>3, <2>4
  <1>9. CASE Drained
    BY <1>9 DEF Drained
  <1>10. CASE Drift
    BY <1>10, ElbAssumption DEF Drift
  <1>11. CASE Crash
    BY <1>11 DEF Crash
  <1>12. CASE UNCHANGED vars
    BY <1>12 DEF vars
  <1> QED
    BY <1>1, <1>2, <1>3, <1>4, <1>5, <1>6, <1>7, <1>8, <1>9, <1>10, <1>11,
       <1>12 DEF Next

(* The swap proceeds as planned unless somebody disturbs it.               *)
LEMMA SwapStep ==
    ASSUME TypeOK, Control, Swap, [Next]_vars
    PROVE  Swap'
  <1> USE DEF Swap, Wanted, aws, request
  <1> USE DEF Succeeds, Fails, Proceed, Finish, ReturnOk, ReturnError,
              RequestFails, Answer
  <1>1. CASE Begin
    BY <1>1 DEF Begin
  <1>2. CASE Describe
    BY <1>2 DEF Describe, TypeOK
  <1>3. CASE Lookup
    BY <1>3 DEF Lookup, Control
  <1>4. CASE Health
    BY <1>4 DEF Health, GetRegisteredInstances
  <1>5. CASE Register
    <2>1. lbName \in LBs /\ lbName \in DOMAIN registered
      BY <1>5 DEF Register, Control, TypeOK
    <2> QED
      BY <1>5, <2>1 DEF Register, RegisterInstances
  <1>6. CASE Deregister
    <2>1. lbName \in LBs /\ lbName \in DOMAIN registered
      BY <1>6 DEF Deregister, Control, TypeOK
    <2> QED
      BY <1>6, <2>1 DEF Deregister, DeregisterInstances
  <1>7. CASE Tag \/ UntagPort
    BY <1>7 DEF Tag, UntagPort
  <1>8. CASE UntagPool
    <2>1. lbName \in LBs /\ lbName \in DOMAIN poolTag
      BY <1>8 DEF UntagPool, Control, TypeOK
    <2> QED
      BY <1>8, <2>1 DEF UntagPool
  <1>9. CASE BeginList
    BY <1>9 DEF BeginList
  <1>10. CASE DescribeLoadBalancers \/ DescribeTags \/ ReadRegistered
              \/ GetInstancesByID \/ EndList
    BY <1>10 DEF DescribeLoadBalancers, DescribeTags, ReadRegistered,
                 GetInstancesByID, EndList
  <1>11. CASE Drained
    BY <1>11 DEF Drained
  <1>12. CASE Drift
    <2>1. PICK l \in LBs, i \in Instances :
             /\ registered' = [registered EXCEPT ![l] =
                                 IF i \in @ THEN @ \ {i} ELSE @ \cup {i}]
             /\ disturbed' = (disturbed \/ lbName = l)
      BY <1>12 DEF Drift
    <2>2. ~disturbed' => ~disturbed /\ lbName # l
      BY <2>1
    <2>3. lbName \in LBs /\ lbName # l => registered'[lbName] = registered[lbName]
      BY <2>1 DEF TypeOK
    <2>4. UNCHANGED <<pc, op, lbName, config, poolTag, instanceIds,
                      registeredInstanceIds>>
      BY <1>12 DEF Drift
    <2> QED
      BY <2>2, <2>3, <2>4 DEF Control
  <1>13. CASE Crash
    BY <1>13 DEF Crash
  <1>14. CASE UNCHANGED vars
    BY <1>14 DEF vars
  <1> QED
    BY <1>1, <1>2, <1>3, <1>4, <1>5, <1>6, <1>7, <1>8, <1>9, <1>10, <1>11,
       <1>12, <1>13, <1>14 DEF Next

(* A call that ends leaves a tagged balancer, an empty one, or a mishap.   *)
LEMMA NoOrphansStep ==
    ASSUME TypeOK, Control, Swap, NoOrphans, [Next]_vars
    PROVE  NoOrphans'
  <1> USE DEF NoOrphans, Tagged, aws, request
  <1> USE DEF Succeeds, Fails, Proceed, Finish, ReturnOk, ReturnError,
              RequestFails, Answer
  <1>1. CASE Begin
    BY <1>1 DEF Begin
  <1>2. CASE Describe \/ Lookup \/ Health
    BY <1>2 DEF Describe, Lookup, Health
  <1>3. CASE Register
    BY <1>3 DEF Register, RegisterInstances, TypeOK
  <1>4. CASE Deregister
    BY <1>4 DEF Deregister, DeregisterInstances, TypeOK
  <1>5. CASE Tag
    <2>1. config \in Configs /\ lbName \in LBs
      BY <1>5 DEF Tag, Control
    <2>2. config.LBTargetPoolName # NoTag /\ config.LBTargetPort # NoTag
      BY <2>1, ConfigType
    <2> QED
      BY <1>5, <2>1, <2>2 DEF Tag, TypeOK
  <1>6. CASE UntagPool
    BY <1>6 DEF UntagPool, TypeOK
  <1>7. CASE UntagPort
    <2>1. instanceIds = {} /\ lbName \in LBs
      BY <1>7 DEF UntagPort, Control, Swap, Wanted
    <2>2. ~disturbed => registered[lbName] = {}
      BY <1>7, <2>1 DEF UntagPort, Swap
    <2>3. CASE Succeeds /\ ReturnOk /\ ~disturbed
      BY <1>7, <2>1, <2>2, <2>3 DEF UntagPort, TypeOK
    <2>4. CASE RequestFails \/ (ReturnOk /\ disturbed)
      <3>1. lbName \notin LBs \ mishaps'
        <4>1. CASE RequestFails
          BY <2>1, <4>1
        <4>2. CASE disturbed /\ ReturnOk
          BY <1>7, <4>2 DEF UntagPort, Control
        <4> QED
          BY <2>4, <4>1, <4>2
      <3> QED
        BY <1>7, <2>4, <3>1 DEF UntagPort, TypeOK
    <2> QED
      BY <1>7, <2>3, <2>4 DEF UntagPort
  <1>8. CASE BeginList
    BY <1>8 DEF BeginList
  <1>9. CASE DescribeLoadBalancers \/ DescribeTags \/ ReadRegistered
             \/ GetInstancesByID \/ EndList
    <2>1. lbName = NoCall /\ NoCall \notin LBs /\ UNCHANGED aws
      BY <1>9, ElbAssumption DEF DescribeLoadBalancers, DescribeTags, ReadRegistered,
                                 GetInstancesByID, EndList, Control
    <2>2. pc # "idle" /\ \A l \in LBs : l \notin mishaps' => l \notin mishaps
      BY <1>9, <2>1 DEF DescribeLoadBalancers, DescribeTags, ReadRegistered,
                        GetInstancesByID, EndList
    <2> QED
      BY <2>1, <2>2
  <1>10. CASE Drained
    BY <1>10 DEF Drained
  <1>11. CASE Drift
    BY <1>11 DEF Drift, TypeOK
  <1>12. CASE Crash
    BY <1>12 DEF Crash
  <1>13. CASE UNCHANGED vars
    BY <1>13 DEF vars
  <1> QED
    BY <1>1, <1>2, <1>3, <1>4, <1>5, <1>6, <1>7, <1>8, <1>9, <1>10, <1>11,
       <1>12, <1>13 DEF Next

(* The listing stays true of every balancer that nobody edits meanwhile.   *)
LEMMA ListingStep ==
    ASSUME TypeOK, Control, Listing, [Next]_vars
    PROVE  Listing'
  <1> USE DEF Listing, Tagged, Carries, aws, request, listing
  <1> USE DEF Succeeds, Fails, Proceed, Finish, ReturnOk, ReturnError,
              RequestFails, Answer
  <1>1. CASE Begin
    BY <1>1 DEF Begin, ListingReset, TypeOK
  <1>2. CASE Describe \/ Lookup \/ Health
    BY <1>2 DEF Describe, Lookup, Health, Control
  <1>3. CASE Register \/ Deregister
    BY <1>3 DEF Register, Deregister, Control
  <1>4. CASE Tag \/ UntagPool \/ UntagPort
    BY <1>4 DEF Tag, UntagPool, UntagPort, Control
  <1>5. CASE BeginList
    BY <1>5 DEF BeginList, ListingReset
  <1>6. CASE DescribeLoadBalancers
    <2>1. NamesAsked(0) = {}
      BY DEF NamesAsked
    <2>2. FirstPage = << >> => Range(FirstPage) = {}
      BY DEF Range
    <2> QED
      BY <1>6, <2>1, <2>2 DEF DescribeLoadBalancers, Control
  <1>7. CASE DescribeTags
    <2>1. CASE RequestFails
      BY <1>7, <2>1 DEF DescribeTags, Control
    <2>2. CASE asked' = asked + 1 /\ Succeeds
      <3>1. NamesAsked(asked') = NamesAsked(asked) \cup Range(TagRequests[asked'])
        <4>1. 1..(asked + 1) = (1..asked) \cup {asked + 1}
          BY DEF TypeOK
        <4> QED
          BY <2>2, <4>1 DEF NamesAsked
      <3>2. lbTags' = {l \in NamesAsked(asked') : Tagged(l)}
        BY <1>7, <2>2, <3>1 DEF DescribeTags
      <3>3. lbConfigs' = [l \in LBs |-> NoConfig] /\ op' = "list"
            /\ UNCHANGED <<registered, poolTag, portTag>>
        BY <1>7, <2>2 DEF DescribeTags, Control
      <3>4. CASE asked' = Len(TagRequests)
        BY <1>7, <2>2, <3>2, <3>3, <3>4, PageAsked DEF DescribeTags
      <3>5. CASE asked' # Len(TagRequests)
        BY <1>7, <2>2, <3>2, <3>3, <3>5 DEF DescribeTags
      <3> QED
        BY <3>4, <3>5
    <2> QED
      BY <1>7, <2>1, <2>2 DEF DescribeTags
  <1>13. CASE ReadRegistered
    <2>1. PICK l \in todo :
             \/ /\ instanceIds' = registered[l]
                /\ Succeeds
                /\ IF instanceIds' = {}
                   THEN AppendConfig(l, {}) /\ Proceed("read")
                   ELSE /\ reading' = l
                        /\ UNCHANGED <<todo, lbConfigs>>
                        /\ Proceed("instances")
             \/ RequestFails /\ UNCHANGED <<instanceIds, todo, reading, lbConfigs>>
      BY <1>13 DEF ReadRegistered, GetRegisteredInstances
    <2>2. l \in LBs /\ Report(poolTag[l], portTag[l], {}) # NoConfig
      BY <1>13, <2>1, TaggedReport DEF ReadRegistered, Control, TypeOK
    <2> QED
      BY <1>13, <2>1, <2>2 DEF ReadRegistered, AppendConfig, Control, TypeOK
  <1>14. CASE GetInstancesByID
    <2>1. reading \in LBs
          /\ Report(poolTag[reading], portTag[reading], instanceIds) # NoConfig
      BY <1>14, TaggedReport DEF GetInstancesByID, Control, TypeOK
    <2> QED
      BY <1>14, <2>1 DEF GetInstancesByID, AppendConfig, Control, TypeOK
  <1>8. CASE EndList
    <2>1. op = "list" /\ ~disturbed /\ lbName = NoCall /\ NoCall \notin LBs
      BY <1>8, ElbAssumption DEF EndList, Control
    <2> QED
      BY <1>8, <2>1 DEF EndList
  <1>9. CASE Drained
    BY <1>9 DEF Drained
  <1>10. CASE Drift
    <2>1. PICK l \in LBs :
             /\ \A m \in LBs \ {l} : registered'[m] = registered[m]
             /\ mishaps' = mishaps \cup {l}
      BY <1>10 DEF Drift, TypeOK
    <2> QED
      BY <1>10, <2>1 DEF Drift, TypeOK
  <1>11. CASE Crash
    BY <1>11 DEF Crash
  <1>12. CASE UNCHANGED vars
    BY <1>12 DEF vars
  <1> QED
    BY <1>1, <1>2, <1>3, <1>4, <1>5, <1>6, <1>7, <1>8, <1>9, <1>10, <1>11,
       <1>12, <1>13, <1>14 DEF Next

-----------------------------------------------------------------------------
(* The step simulation of LBProvider.                                      *)

lbBar == [l \in LBs |-> Carries(l)]

callBar ==
    IF pc = "idle" \/ op = "list" THEN NoCall
    ELSE [endpoint |-> lbName, new |-> Goal, disturbed |-> disturbed]

(* A call is told from no call, and its goal is one that configurations    *)
(* have.                                                                   *)
LEMMA CallInFlight ==
    ASSUME TypeOK, Control, pc # "idle", op # "list"
    PROVE  /\ callBar = [endpoint |-> lbName, new |-> Goal, disturbed |-> disturbed]
           /\ callBar # NoCall
           /\ lbName \in Endpoints
           /\ Goal \in P!Goals
           /\ op = "remove" => Goal = NoConfig
           /\ op # "remove" =>
                 /\ config \in Configs
                 /\ Goal = Report(config.LBTargetPoolName, config.LBTargetPort,
                                  LookupInstancesByIPAddress(config))
  <1>1. callBar = [endpoint |-> lbName, new |-> Goal, disturbed |-> disturbed]
    BY DEF callBar
  <1>2. lbName \in Endpoints /\ disturbed \in BOOLEAN
    BY DEF Control, TypeOK
  <1>3. op # "remove" => config \in Configs
    BY DEF Control, TypeOK
  <1>4. op # "remove" =>
           Goal = Report(config.LBTargetPoolName, config.LBTargetPort,
                         LookupInstancesByIPAddress(config))
    BY <1>3, ServedIsCarried DEF Goal
  <1>5. op # "remove" => Goal \in Carried
    BY <1>3, <1>4, ConfigType, ReportType
  <1>6. op = "remove" => Goal = NoConfig
    BY DEF Goal
  <1>7. callBar # NoCall
    BY <1>1, <1>2, <1>5, <1>6, ElbAssumption
  <1>8. op # "remove" => Goal \in {P!Carry(c) : c \in Range(Served)}
    <2>1. ASSUME NEW c \in Configs PROVE Served[c] \in Range(Served)
      BY DEF Served, Range
    <2> QED
      BY <1>3, <2>1 DEF Goal, Carry, P!Carry, Range, P!Range
  <1>9. Goal \in P!Goals
    BY <1>6, <1>8 DEF P!Goals
  <1> QED
    BY <1>1, <1>2, <1>3, <1>4, <1>6, <1>7, <1>9

(* What a request may do to the balancer of the call is an effect of the   *)
(* call.                                                                   *)
LEMMA EffectOf ==
    ASSUME callBar.endpoint = lbName, callBar.new = Goal,
           \/ UNCHANGED lbBar
           \/ \E e \in LBs :
                 /\ e = lbName
                 /\ Carries(e)' \in Halfway(Carries(e), Goal)
                 /\ \A l \in LBs \ {e} : Carries(l)' = Carries(l)
    PROVE  P!Effect
  <1>1. CASE UNCHANGED lbBar
    BY <1>1 DEF P!Effect, lbBar
  <1>2. ASSUME NEW e \in LBs, e = lbName,
               Carries(e)' \in Halfway(Carries(e), Goal),
               \A l \in LBs \ {e} : Carries(l)' = Carries(l)
        PROVE  P!Effect
    <2>1. lbBar'[e] = Carries(e)' /\ lbBar[e] = Carries(e)
      BY DEF lbBar
    <2>2. lbBar' = [lbBar EXCEPT ![e] = lbBar'[e]]
      BY <1>2, <2>1 DEF lbBar
    <2>3. P!ChangesTo(e, Halfway(lbBar[e], Goal))
      BY <1>2, <2>1, <2>2 DEF P!ChangesTo, lbBar
    <2>4. P!Halfway(lbBar[e], Goal) = Halfway(lbBar[e], Goal)
      BY DEF P!Halfway, P!PoolsOf, Halfway, PoolsOf
    <2> QED
      BY <1>2, <2>3, <2>4 DEF P!Effect, lbBar, callBar
  <1> QED
    BY <1>1, <1>2

(* A request that is answered is work on the call, one that fails ends it. *)
LEMMA ProceedIsWork ==
    ASSUME TypeOK, Control, pc # "idle", op # "list", P!Effect,
           NEW next \in {"lookup", "health", "register", "deregister", "tag",
                         "untagPool", "untagPort"},
           Proceed(next)
    PROVE  P!Work
  <1>1. callBar' = callBar /\ outcome' = outcome
    BY DEF Proceed, callBar, Goal, request
  <1>2. callBar # NoCall
    BY CallInFlight
  <1> QED
    BY <1>1, <1>2 DEF P!Work, callBar

LEMMA ErrorIsFail ==
    ASSUME TypeOK, Control, pc # "idle", op # "list", P!Effect, ReturnError
    PROVE  P!Fail
  <1>1. callBar' = NoCall /\ outcome' = "error"
    BY DEF ReturnError, Finish, callBar
  <1>2. callBar # NoCall
    BY CallInFlight
  <1> QED
    BY <1>1, <1>2 DEF P!Fail, callBar

(* Both ways, for a request with a given effect.                           *)
LEMMA AnswerIsStep ==
    ASSUME TypeOK, Control, pc # "idle", op # "list", P!Effect,
           NEW next \in {"lookup", "health", "register", "deregister", "tag",
                         "untagPool", "untagPort"},
           Proceed(next) \/ RequestFails
    PROVE  P!Next
  BY ProceedIsWork, ErrorIsFail DEF P!Next, RequestFails

(* Requests for instances and tags have effects of the call.               *)
LEMMA InstancesEffect ==
    ASSUME TypeOK, TypeOK', Control, lbName \in LBs, pc # "idle", op # "list",
           UNCHANGED <<poolTag, portTag>>,
           \A l \in LBs \ {lbName} : registered'[l] = registered[l]
    PROVE  P!Effect
  <1>1. ASSUME NEW e \in LBs, e = lbName
        PROVE  Carries(e)' \in Halfway(Carries(e), Goal)
    <2>1. CASE Tagged(e)
      <3> DEFINE new == Report(poolTag[e], portTag[e], registered'[e])
                 old == Report(poolTag[e], portTag[e], registered[e])
      <3>1. poolTag[e] \in Pools /\ portTag[e] \in Ports
            /\ registered[e] \subseteq Instances /\ registered'[e] \subseteq Instances
        BY <2>1 DEF Tagged, TypeOK
      <3>2. Carries(e)' = new /\ Carries(e) = old
        BY <2>1 DEF Carries, Tagged
      <3>3. new \in Carried /\ new.LBTargetPoolName = poolTag[e]
        BY <3>1, ReportType
      <3>4. old # NoConfig /\ old.LBTargetPoolName = poolTag[e]
        BY <3>1, ReportType
      <3>5. poolTag[e] \in PoolsOf(old)
        BY <3>4 DEF PoolsOf
      <3> HIDE DEF new, old
      <3>6. new \in [LBTargetPoolName : PoolsOf(old) \cup PoolsOf(Goal),
                     LBTargets : SUBSET Targets]
        BY <3>3, <3>5 DEF Carried
      <3> QED
        BY <3>2, <3>6 DEF Halfway
    <2>2. CASE ~Tagged(e)
      BY <2>2 DEF Carries, Tagged, Halfway
    <2> QED
      BY <2>1, <2>2
  <1>2. \A l \in LBs \ {lbName} : Carries(l)' = Carries(l)
    BY DEF Carries, Tagged
  <1>3. callBar.endpoint = lbName /\ callBar.new = Goal
    BY CallInFlight
  <1> QED
    BY <1>1, <1>2, <1>3, EffectOf

LEMMA NothingEffect ==
    ASSUME TypeOK, Control, pc # "idle", op # "list",
           UNCHANGED <<registered, poolTag, portTag>>
    PROVE  P!Effect
  <1>1. UNCHANGED lbBar
    BY DEF lbBar, Carries, Tagged
  <1>2. callBar.endpoint = lbName /\ callBar.new = Goal
    BY CallInFlight
  <1> QED
    BY <1>1, <1>2, EffectOf

(* Tagging gives the balancer the pool of the goal, and the goal itself    *)
(* when its instances are the ones to be left.                             *)
LEMMA TagEffect ==
    ASSUME TypeOK, Control, pc = "tag", lbName \in LBs, UNCHANGED registered,
           poolTag' = [poolTag EXCEPT ![lbName] = config.LBTargetPoolName],
           portTag' = [portTag EXCEPT ![lbName] = config.LBTargetPort]
    PROVE  /\ P!Effect
           /\ registered[lbName] = LookupInstancesByIPAddress(config)
                 => lbBar'[lbName] = Goal
  <1> DEFINE e == lbName
             new == Report(config.LBTargetPoolName, config.LBTargetPort, registered[e])
  <1>1. op = "put" /\ config \in Configs
    BY DEF Control
  <1>2. config.LBTargetPoolName \in Pools /\ config.LBTargetPoolName # NoTag
        /\ config.LBTargetPort \in Ports /\ config.LBTargetPort # NoTag
        /\ LookupInstancesByIPAddress(config) \subseteq Instances
    BY <1>1, ConfigType
  <1>3. Goal = Report(config.LBTargetPoolName, config.LBTargetPort,
                      LookupInstancesByIPAddress(config))
        /\ callBar.endpoint = lbName /\ callBar.new = Goal
    BY <1>1, CallInFlight
  <1>4. Goal # NoConfig /\ Goal.LBTargetPoolName = config.LBTargetPoolName
    BY <1>2, <1>3, ReportType
  <1>5. registered[e] \subseteq Instances
    BY DEF TypeOK
  <1>6. new \in Carried /\ new.LBTargetPoolName = config.LBTargetPoolName
    BY <1>2, <1>5, ReportType
  <1>7. poolTag'[e] = config.LBTargetPoolName /\ portTag'[e] = config.LBTargetPort
        /\ registered'[e] = registered[e]
    BY DEF TypeOK
  <1>8. ASSUME NEW l \in LBs, l = lbName PROVE Carries(l)' = new
    BY <1>2, <1>7, <1>8 DEF Carries, Tagged
  <1>9. ASSUME NEW l \in LBs \ {lbName} PROVE Carries(l)' = Carries(l)
    BY DEF Carries, Tagged, TypeOK
  <1>10. new \in Halfway(Carries(e), Goal)
    <2>1. config.LBTargetPoolName \in PoolsOf(Goal)
      BY <1>4 DEF PoolsOf
    <2> HIDE DEF new
    <2>2. new \in [LBTargetPoolName : PoolsOf(Carries(e)) \cup PoolsOf(Goal),
                   LBTargets : SUBSET Targets]
      BY <1>6, <2>1 DEF Carried
    <2> QED
      BY <2>2 DEF Halfway
  <1> HIDE DEF new
  <1>11. P!Effect
    BY <1>3, <1>8, <1>9, <1>10, EffectOf
  <1>12. lbBar'[lbName] = new
    <2>1. ASSUME NEW l \in LBs, l = lbName PROVE lbBar'[l] = new
      BY <1>8, <2>1 DEF lbBar
    <2> QED
      BY <2>1
  <1> QED
    BY <1>3, <1>11, <1>12 DEF new

(* Without its first tag a balancer carries nothing.                       *)
LEMMA UntagEffect ==
    ASSUME TypeOK, Control, pc # "idle", op = "remove", lbName \in LBs,
           UNCHANGED registered,
           \A l \in LBs \ {lbName} : poolTag'[l] = poolTag[l] /\ portTag'[l] = portTag[l],
           poolTag'[lbName] = NoTag
    PROVE  P!Effect /\ lbBar'[lbName] = Goal
  <1>1. Goal = NoConfig /\ callBar.endpoint = lbName /\ callBar.new = Goal
    BY CallInFlight
  <1>2. ASSUME NEW l \in LBs, l = lbName PROVE Carries(l)' = NoConfig
    BY <1>2 DEF Carries, Tagged
  <1>3. ASSUME NEW l \in LBs \ {lbName} PROVE Carries(l)' = Carries(l)
    BY DEF Carries, Tagged
  <1>4. P!Effect
    BY <1>1, <1>2, <1>3, EffectOf DEF Halfway
  <1>5. lbBar'[lbName] = NoConfig
    <2>1. ASSUME NEW l \in LBs, l = lbName PROVE lbBar'[l] = NoConfig
      BY <1>2, <2>1 DEF lbBar
    <2> QED
      BY <2>1
  <1> QED
    BY <1>1, <1>4, <1>5

(* The last request of a call, answered.                                   *)
LEMMA OkIsReturn ==
    ASSUME TypeOK, Control, pc # "idle", op # "list", P!Effect, ReturnOk,
           lbName \in LBs, disturbed \/ lbBar'[lbName] = Goal
    PROVE  P!Return
  <1>1. callBar' = NoCall /\ outcome' = "ok"
    BY DEF ReturnOk, Finish, callBar
  <1>2. callBar # NoCall /\ callBar.endpoint = lbName /\ callBar.new = Goal
        /\ callBar.disturbed = disturbed
    BY CallInFlight
  <1> QED
    BY <1>1, <1>2 DEF P!Return, callBar, lbBar

(* Where the provider does not call, nothing it does matters to the loop.  *)
LEMMA ListIsList ==
    ASSUME TypeOK', pc = "idle" \/ op = "list", pc' = "idle" \/ op' = "list",
           UNCHANGED <<registered, poolTag, portTag>>
    PROVE  P!List
  <1>1. callBar = NoCall /\ callBar' = NoCall
    BY DEF callBar
  <1>2. UNCHANGED lbBar
    BY DEF lbBar, Carries, Tagged
  <1>3. outcome' \in {"none", "ok", "error"}
    BY DEF TypeOK
  <1> QED
    BY <1>1, <1>2, <1>3 DEF P!List, callBar, lbBar

LEMMA BeginIsBegin ==
    ASSUME Control, Begin
    PROVE  P!Begin
  <1>1. callBar = NoCall /\ UNCHANGED lbBar /\ disturbed' = FALSE
    BY DEF Begin, Control, callBar, lbBar, Carries, Tagged, aws
  <1>2. pc' # "idle" /\ op' # "list" /\ outcome' = "none"
    BY DEF Begin
  <1>3. callBar' = [endpoint |-> lbName', new |-> Goal', disturbed |-> disturbed']
        /\ lbName' \in Endpoints
    BY <1>2 DEF callBar, Begin
  <1>4. Goal' \in P!Goals
    <2>1. CASE op' = "remove"
      BY <2>1 DEF Goal, P!Goals
    <2>2. CASE op' # "remove"
      <3>1. config' \in Configs
        BY <2>2 DEF Begin
      <3>2. Served[config'] \in Range(Served)
        BY <3>1 DEF Served, Range
      <3>3. Goal' = P!Carry(Served[config'])
        BY <2>2 DEF Goal, Carry, P!Carry, Range, P!Range
      <3> QED
        BY <3>2, <3>3 DEF P!Goals
    <2> QED
      BY <2>1, <2>2
  <1> QED
    BY <1>1, <1>2, <1>3, <1>4 DEF P!Begin, callBar, lbBar

LEMMA DriftIsDrift ==
    ASSUME TypeOK, TypeOK', Control, Drift
    PROVE  P!Drift
  <1>1. PICK e \in LBs :
           /\ \A l \in LBs \ {e} : registered'[l] = registered[l]
           /\ disturbed' = (disturbed \/ lbName = e)
    BY DEF Drift, TypeOK
  <1>2. UNCHANGED <<poolTag, portTag, pc, op, lbName, config, outcome>>
    BY DEF Drift, request
  <1>3. ASSUME NEW l \in LBs PROVE Carries(l)' \in Carried \cup {NoConfig}
    <2>1. CASE Tagged(l)'
      <3>1. poolTag'[l] \in Pools /\ portTag'[l] \in Ports /\ registered'[l] \subseteq Instances
        BY <2>1 DEF Tagged, TypeOK
      <3> QED
        BY <2>1, <3>1, ReportType DEF Carries
    <2>2. CASE ~Tagged(l)'
      BY <2>2 DEF Carries
    <2> QED
      BY <2>1, <2>2
  <1>4. ASSUME NEW l \in LBs \ {e} PROVE Carries(l)' = Carries(l)
    BY <1>1, <1>2 DEF Carries, Tagged
  <1>5. lbBar' = [lbBar EXCEPT ![e] = lbBar'[e]] /\ lbBar'[e] \in Carried \cup {NoConfig}
    BY <1>3, <1>4 DEF lbBar
  <1>6. P!ChangesTo(e, P!Reports)
    BY <1>5 DEF P!ChangesTo, P!Reports, P!Carried, Carried, lbBar
  <1>7. Goal' = Goal
    BY <1>2 DEF Goal
  <1>8. callBar' = IF callBar # NoCall /\ callBar.endpoint = e
                   THEN [callBar EXCEPT !.disturbed = TRUE] ELSE callBar
    <2>1. CASE pc = "idle" \/ op = "list"
      BY <1>2, <2>1 DEF callBar
    <2>2. CASE ~(pc = "idle" \/ op = "list")
      <3>1. callBar = [endpoint |-> lbName, new |-> Goal, disturbed |-> disturbed]
            /\ callBar # NoCall
        BY <2>2, CallInFlight
      <3>2. callBar' = [endpoint |-> lbName, new |-> Goal, disturbed |-> disturbed']
        BY <1>2, <1>7, <2>2 DEF callBar
      <3>3. disturbed \in BOOLEAN
        BY DEF TypeOK
      <3> QED
        BY <1>1, <3>1, <3>2, <3>3
    <2> QED
      BY <2>1, <2>2
  <1> QED
    BY <1>2, <1>6, <1>8 DEF P!Drift, callBar

(* Each step of the provider is a step of LBProvider, or leaves its state  *)
(* alone.                                                                  *)
LEMMA SimulationStep ==
    ASSUME IInv, IInv', [Next]_vars
    PROVE  P!Next \/ UNCHANGED P!vars
  <1> USE DEF IInv
  <1>1. CASE Begin
    BY <1>1, BeginIsBegin DEF P!Next
  <1>2. CASE Describe
    <2>1. pc # "idle" /\ op # "list" /\ P!Effect
      BY <1>2, NothingEffect DEF Describe, Control, aws
    <2> QED
      BY <1>2, <2>1, AnswerIsStep, ErrorIsFail DEF Describe, P!Next
  <1>3. CASE Lookup
    <2>1. pc # "idle" /\ op # "list" /\ P!Effect
      BY <1>3, NothingEffect DEF Lookup, Control, aws
    <2> QED
      BY <1>3, <2>1, AnswerIsStep DEF Lookup
  <1>4. CASE Health
    <2>1. pc # "idle" /\ op # "list" /\ P!Effect
      BY <1>4, NothingEffect DEF Health, Control, aws
    <2> QED
      BY <1>4, <2>1, AnswerIsStep DEF Health
  <1>5. CASE Register
    <2>1. pc # "idle" /\ op # "list" /\ lbName \in LBs
      BY <1>5 DEF Register, Control
    <2>2. \A l \in LBs \ {lbName} : registered'[l] = registered[l]
      BY <1>5 DEF Register, RegisterInstances, TypeOK
    <2>3. P!Effect
      BY <1>5, <2>1, <2>2, InstancesEffect DEF Register
    <2> QED
      BY <1>5, <2>1, <2>3, AnswerIsStep DEF Register, Answer
  <1>6. CASE Deregister
    <2>1. pc # "idle" /\ op # "list" /\ lbName \in LBs
      BY <1>6 DEF Deregister, Control
    <2>2. \A l \in LBs \ {lbName} : registered'[l] = registered[l]
      BY <1>6 DEF Deregister, DeregisterInstances, TypeOK
    <2>3. P!Effect
      BY <1>6, <2>1, <2>2, InstancesEffect DEF Deregister
    <2> QED
      BY <1>6, <2>1, <2>3, AnswerIsStep DEF Deregister, Answer
  <1>7. CASE Tag
    <2>1. pc = "tag" /\ op # "list" /\ op # "remove" /\ lbName \in LBs /\ UNCHANGED registered
      BY <1>7 DEF Tag, Control
    <2>2. CASE UNCHANGED <<poolTag, portTag>> /\ RequestFails
      BY <2>1, <2>2, NothingEffect, AnswerIsStep
    <2>3. CASE /\ poolTag' = [poolTag EXCEPT ![lbName] = config.LBTargetPoolName]
               /\ portTag' = [portTag EXCEPT ![lbName] = config.LBTargetPort]
               /\ (Succeeds /\ ReturnOk) \/ RequestFails
      <3>1. P!Effect
        BY <2>1, <2>3, TagEffect
      <3>2. disturbed \/ lbBar'[lbName] = Goal
        <4>1. ~disturbed => registered[lbName] = LookupInstancesByIPAddress(config)
          BY <2>1 DEF Swap, Wanted
        <4> QED
          BY <2>1, <2>3, <4>1, TagEffect
      <3> QED
        BY <2>1, <2>3, <3>1, <3>2, OkIsReturn, AnswerIsStep DEF P!Next
    <2> QED
      BY <1>7, <2>2, <2>3 DEF Tag
  <1>8. CASE UntagPool
    <2>1. pc # "idle" /\ op = "remove" /\ lbName \in LBs
          /\ UNCHANGED <<registered, portTag>>
      BY <1>8 DEF UntagPool, Control
    <2>2. CASE UNCHANGED poolTag /\ RequestFails
      BY <2>1, <2>2, NothingEffect, AnswerIsStep
    <2>3. CASE poolTag' = [poolTag EXCEPT ![lbName] = NoTag] /\ Answer("untagPort")
      <3>1. P!Effect
        BY <2>1, <2>3, UntagEffect DEF TypeOK
      <3> QED
        BY <2>1, <2>3, <3>1, AnswerIsStep DEF Answer
    <2> QED
      BY <1>8, <2>2, <2>3 DEF UntagPool
  <1>9. CASE UntagPort
    <2>1. pc # "idle" /\ op = "remove" /\ lbName \in LBs
          /\ UNCHANGED <<registered, poolTag>> /\ poolTag[lbName] = NoTag
      BY <1>9 DEF UntagPort, Control, Swap
    <2>2. CASE UNCHANGED portTag /\ RequestFails
      BY <2>1, <2>2, NothingEffect, AnswerIsStep
    <2>3. CASE portTag' = [portTag EXCEPT ![lbName] = NoTag]
               /\ ((Succeeds /\ ReturnOk) \/ RequestFails)
      <3>1. P!Effect /\ lbBar'[lbName] = Goal
        BY <2>1, <2>3, UntagEffect DEF TypeOK
      <3> QED
        BY <2>1, <2>3, <3>1, OkIsReturn, AnswerIsStep DEF P!Next
    <2> QED
      BY <1>9, <2>2, <2>3 DEF UntagPort
  <1>10. CASE BeginList \/ DescribeLoadBalancers \/ DescribeTags
              \/ ReadRegistered \/ GetInstancesByID \/ EndList
    <2> USE DEF BeginList, DescribeLoadBalancers, DescribeTags, ReadRegistered,
                GetInstancesByID, EndList
    <2>1. pc = "idle" \/ op = "list"
      BY <1>10 DEF Control
    <2>2. pc' = "idle" \/ op' = "list"
      BY <1>10 DEF Control, Proceed, RequestFails, ReturnError, ReturnOk, Finish,
                   request
    <2>3. UNCHANGED <<registered, poolTag, portTag>>
      BY <1>10 DEF aws
    <2> QED
      BY <2>1, <2>2, <2>3, ListIsList DEF P!Next
  <1>11. CASE Drained \/ UNCHANGED vars
    BY <1>11 DEF Drained, vars, aws, request, P!vars, Carries, Tagged, Goal
  <1>12. CASE Drift
    BY <1>12, DriftIsDrift DEF P!Next
  <1>13. CASE Crash
    <2>1. UNCHANGED <<registered, poolTag, portTag>> /\ pc # "idle" /\ RequestFails
      BY <1>13 DEF Crash, aws
    <2>2. CASE op = "list"
      <3>1. pc' = "idle"
        BY <2>1 DEF RequestFails, ReturnError, Finish
      <3> QED
        BY <2>1, <2>2, <3>1, ListIsList DEF P!Next
    <2>3. CASE op # "list"
      BY <2>1, <2>3, NothingEffect, AnswerIsStep
    <2> QED
      BY <2>2, <2>3
  <1> QED
    BY <1>1, <1>2, <1>3, <1>4, <1>5, <1>6, <1>7, <1>8, <1>9, <1>10, <1>11,
       <1>12, <1>13 DEF Next

-----------------------------------------------------------------------------
(* The theorems.                                                           *)

(* IInv holds in every reachable state.                                    *)
THEOREM InductiveInvariant == Spec => []IInv
  <1>1. ASSUME IInv, [Next]_vars PROVE IInv'
    BY <1>1, TypeStep, ControlStep, SwapStep, NoOrphansStep, ListingStep DEF IInv
  <1> QED
    BY <1>1, InitInv, PTL DEF Spec

(* Every variable keeps its type (elb_classic.go, aws_elbv1.go).           *)
THEOREM TypeCorrect == Spec => []TypeOK
  <1>1. IInv => TypeOK
    BY DEF IInv
  <1> QED
    BY <1>1, InductiveInvariant, PTL

(* Between calls a balancer that the service does not list has no          *)
(* instances, whatever is asked for in which order, unless a call failed   *)
(* there or an operator edited it (aws_elbv1.go:202-215, 274-286).         *)
THEOREM NothingLeftBehind == Spec => []NoOrphans
  <1>1. IInv => NoOrphans
    BY DEF IInv
  <1> QED
    BY <1>1, InductiveInvariant, PTL

(* A listing that is returned reports the tagged balancers of the first    *)
(* page as they are and nothing else, however long the page is and however *)
(* its names are divided into requests; what lies beyond it, a listing     *)
(* never reports (aws_elbv1.go:98-178, elb_classic.go:41-57).              *)
THEOREM ListingIsExact == Spec => []ListsFirstPage
  <1>1. ASSUME IInv, NEW l \in LBs PROVE Tagged(l) <=> Carries(l) # NoConfig
    BY <1>1, TaggedReport DEF IInv, TypeOK, Carries
  <1>2. IInv => ListsFirstPage
    BY <1>1 DEF IInv, Listing, ListsFirstPage, Reported
  <1> QED
    BY <1>2, InductiveInvariant, PTL

(* No balancer loses its last instance while it is to keep one             *)
(* (aws_elbv1.go:304-319).                                                 *)
THEOREM NeverLeftEmpty == Spec => NeverEmptied
  <1>1. ASSUME IInv, [Next]_vars, NEW l \in LBs,
               registered[l] # {}, registered'[l] = {}
        PROVE  edits' # edits \/ disturbed \/ op = "remove" \/ instanceIds = {}
    <2> USE <1>1 DEF IInv
    <2>1. CASE Register
      BY <2>1 DEF Register, RegisterInstances, TypeOK
    <2>2. CASE Deregister
      <3>1. ~disturbed => registered[lbName] = registeredInstanceIds \cup instanceIds
        BY <2>2 DEF Deregister, Swap
      <3>2. registered' = registered \/
            registered' = [registered EXCEPT ![lbName] =
                              @ \ (registeredInstanceIds \ instanceIds)]
        BY <2>2 DEF Deregister, DeregisterInstances
      <3> QED
        BY <3>1, <3>2 DEF TypeOK
    <2>3. CASE Drift
      BY <2>3 DEF Drift, TypeOK
    <2>4. CASE UNCHANGED registered
      BY <2>4
    <2> QED
      BY <2>1, <2>2, <2>3, <2>4
         DEF Next, vars, aws, Begin, Describe, Lookup, Health, Tag, UntagPool,
             UntagPort, BeginList, DescribeLoadBalancers, DescribeTags,
             ReadRegistered, GetInstancesByID, EndList, Drained, Crash
  <1>2. ASSUME IInv, [Next]_vars
        PROVE  [\A l \in LBs : registered[l] # {} /\ registered'[l] = {}
                  => \/ edits' # edits
                     \/ disturbed
                     \/ op = "remove"
                     \/ instanceIds = {}]_vars
    BY <1>1, <1>2
  <1> QED
    BY <1>2, InductiveInvariant, PTL DEF Spec, NeverEmptied

(* The calls keep what the reconciliation loop relies on: every step of    *)
(* the provider is one of LBProvider or leaves its state alone             *)
(* (aws_elbv1.go:180-290).                                                 *)
THEOREM Refinement == Spec => ImplementsProvider
  <1>1. Init => P!Init
    <2>1. Init => \A l \in LBs : Carries(l) = NoConfig
      BY DEF Init, Carries, Tagged
    <2> QED
      BY <2>1 DEF Init, P!Init, P!Reports
  <1>2. ASSUME IInv, IInv', [Next]_vars
        PROVE  [P!Next]_(P!vars)
    BY <1>2, SimulationStep
  <1> QED
    BY <1>1, <1>2, InductiveInvariant, PTL DEF Spec, ImplementsProvider, P!Spec

-----------------------------------------------------------------------------
(* The chunks, put together again.  A concatenation of any number of lists *)
(* is reasoned about by induction over a set of numbers, which needs no    *)
(* operator for a parameter.                                               *)

(* A set with 0 and, with every number, its successor holds all numbers.   *)
LEMMA NaturalInduction ==
    ASSUME NEW S, 0 \in S, \A n \in Nat : n \in S => n + 1 \in S
    PROVE  Nat \subseteq S
<1> DEFINE T == Nat \ S
           R == OpToRel(<, Nat)
<1> SUFFICES ASSUME T # {} PROVE FALSE
  OBVIOUS
<1>1. \E x \in T : \A y \in T : ~(<<y, x>> \in R)
  <2>1. IsWellFoundedOn(R, Nat)
    BY NatLessThanWellFounded
  <2>2. T \subseteq Nat
    OBVIOUS
  <2> HIDE DEF T, R
  <2> QED
    BY <2>1, <2>2, WFMin, Zenon
<1>2. PICK x \in T : \A y \in T : ~(<<y, x>> \in R)
  BY <1>1
<1>3. x # 0 /\ x \in Nat
  OBVIOUS
<1>4. x - 1 \in Nat /\ x - 1 < x /\ x = (x - 1) + 1
  BY <1>3
<1>5. x - 1 \in T
  BY <1>3, <1>4
<1>6. <<x - 1, x>> \in R
  BY <1>3, <1>4 DEF OpToRel
<1> QED
  BY <1>2, <1>5, <1>6

(* f[i] is the concatenation of the first i of the sequences.              *)
Flatten(seqs, f, n) ==
    f = [i \in 1..n |-> IF i = 1 THEN seqs[i] ELSE f[i - 1] \o seqs[i]]

(* The recursion of FlattenSeq has a solution.                             *)
LEMMA FlattenExists ==
    ASSUME NEW seqs
    PROVE  \A n \in Nat : \E f : Flatten(seqs, f, n)
<1> DEFINE S == {n \in Nat : \E f : Flatten(seqs, f, n)}
<1>1. 0 \in S
  <2>1. Flatten(seqs, [i \in 1..0 |-> 0], 0)
    BY DEF Flatten
  <2> QED
    BY <2>1
<1>2. ASSUME NEW n \in Nat, n \in S PROVE n + 1 \in S
  <2>1. PICK f : Flatten(seqs, f, n)
    BY <1>2
  <2> DEFINE g == [i \in 1..(n + 1) |->
                     IF i = n + 1
                     THEN IF i = 1 THEN seqs[i] ELSE f[i - 1] \o seqs[i]
                     ELSE f[i]]
  <2>2. ASSUME NEW i \in 1..(n + 1)
        PROVE  g[i] = IF i = 1 THEN seqs[i] ELSE g[i - 1] \o seqs[i]
    <3>1. CASE i = n + 1
      <4>1. i # 1 => i - 1 \in 1..(n + 1) /\ i - 1 # n + 1
        BY <3>1
      <4> QED
        BY <3>1, <4>1
    <3>2. CASE i # n + 1
      <4>1. i \in 1..n /\ (i # 1 => i - 1 \in 1..(n + 1) /\ i - 1 # n + 1)
        BY <3>2
      <4> QED
        BY <2>1, <3>2, <4>1 DEF Flatten
    <3> QED
      BY <3>1, <3>2
  <2>3. g = [i \in 1..(n + 1) |-> IF i = 1 THEN seqs[i] ELSE g[i - 1] \o seqs[i]]
    <3>1. g = [i \in 1..(n + 1) |-> g[i]]
      OBVIOUS
    <3> HIDE DEF g
    <3> QED
      BY <3>1, <2>2
  <2>4. Flatten(seqs, g, n + 1)
    BY <2>3 DEF Flatten
  <2> QED
    BY <2>4
<1>3. \A n \in Nat : n \in S => n + 1 \in S
  BY <1>2
<1> HIDE DEF S
<1>4. Nat \subseteq S
  BY <1>1, <1>3, NaturalInduction
<1> QED
  BY <1>4 DEF S

(* Hence FlattenSeq is its last value.                                     *)
LEMMA FlattenSeqIsFlatten ==
    ASSUME NEW seqs, Len(seqs) \in Nat \ {0}
    PROVE  \E f : Flatten(seqs, f, Len(seqs)) /\ FlattenSeq(seqs) = f[Len(seqs)]
<1> DEFINE flatten == CHOOSE f : f = [i \in 1..Len(seqs) |->
                         IF i = 1 THEN seqs[i] ELSE f[i - 1] \o seqs[i]]
<1>1. FlattenSeq(seqs) = flatten[Len(seqs)]
  BY Zenon DEF FlattenSeq
<1>2. Flatten(seqs, flatten, Len(seqs))
  BY FlattenExists, Zenon DEF Flatten
<1> QED
  BY <1>1, <1>2

(* Put together, the chunks are the list: none of its names is missing,    *)
(* repeated or out of place.                                               *)
LEMMA ChunksConcatenate ==
    ASSUME NEW S, NEW names \in Seq(S), NEW c \in Nat \ {0}
    PROVE  FlattenSeq(dividedNames(names, c)) = names
<1> DEFINE n == Len(names)
           chunks == dividedNames(names, c)
           K == (n + c - 1) \div c
<1>1. n \in Nat /\ n + c - 1 \in Nat
  OBVIOUS
<1>2. K \in Nat /\ K * c <= n + c - 1 /\ n + c - 1 < (K + 1) * c
  BY <1>1, DivisionBounds
<1>3. (K + 1) * c = K * c + c /\ K * c \in Nat
  BY <1>2
<1>4. n <= K * c /\ K * c < n + c
  <2> DEFINE Kc == K * c
  <2> HIDE DEF K
  <2>1. Kc \in Nat /\ Kc <= n + c - 1 /\ n + c - 1 < Kc + c
    BY <1>2, <1>3
  <2> HIDE DEF Kc, n
  <2>2. n <= Kc /\ Kc < n + c
    BY <1>1, <2>1
  <2> QED
    BY <2>2 DEF Kc
<1>5. DOMAIN chunks = 1..K /\ Len(chunks) = K
  BY <1>2 DEF dividedNames
<1>6. ASSUME NEW k \in 1..K
      PROVE  /\ chunks[k] \in Seq(S) /\ k * c \in Nat /\ (k - 1) * c \in Nat
             /\ (k - 1) * c + Len(chunks[k]) = (IF k = K THEN n ELSE k * c)
             /\ \A i \in 1..Len(chunks[k]) : chunks[k][i] = names[(k - 1) * c + i]
             /\ k # K => k * c <= n
  <2>1. /\ chunks[k] \in Seq(S)
        /\ (k - 1) * c + Len(chunks[k]) = IF k * c > n THEN n ELSE k * c
        /\ \A i \in 1..Len(chunks[k]) : chunks[k][i] = names[(k - 1) * c + i]
    <3>1. k \in DOMAIN dividedNames(names, c)
      BY <1>5
    <3>2. IsChunk(dividedNames(names, c)[k], S, names, c, k)
      BY <3>1, ChunkContents, Zenon
    <3> HIDE DEF K
    <3> QED
      BY <3>2, Zenon DEF IsChunk
  <2>2. k \in Nat /\ k * c \in Nat /\ (k - 1) * c \in Nat
    BY <1>2
  <2>3. k # K => k * c <= K * c - c
    <3>1. (K - k) * c = K * c - k * c
      BY <1>2, <2>2
    <3>2. k # K => K - k >= 1 /\ K - k \in Nat
      BY <1>2
    <3>3. k # K => (K - k) * c >= c
      BY <3>2
    <3> QED
      BY <1>3, <2>2, <3>1, <3>3
  <2>4. k # K => k * c <= n
    <3> DEFINE kc == k * c
               Kc == K * c
    <3> HIDE DEF K
    <3>1. kc \in Nat /\ Kc \in Nat /\ (k # K => kc <= Kc - c) /\ Kc < n + c
      BY <1>3, <1>4, <2>2, <2>3
    <3> HIDE DEF kc, Kc, n
    <3>2. k # K => kc <= n
      BY <1>1, <3>1
    <3> QED
      BY <3>2 DEF kc
  <2>5. (IF k * c > n THEN n ELSE k * c) = (IF k = K THEN n ELSE k * c)
    <3>1. CASE k = K
      BY <1>1, <1>3, <1>4, <3>1
    <3>2. CASE k # K
      BY <1>1, <2>2, <2>4, <3>2
    <3> QED
      BY <3>1, <3>2
  <2> QED
    BY <2>1, <2>2, <2>4, <2>5
<1>7. CASE K = 0
  <2>1. names = << >>
    BY <1>1, <1>4, <1>7
  <2>2. FlattenSeq(chunks) = chunks
    BY <1>5, <1>7 DEF FlattenSeq
  <2>3. chunks = << >>
    <3>1. chunks = [k \in 1..K |-> chunks[k]]
      BY <1>5 DEF dividedNames
    <3> HIDE DEF chunks, K
    <3>2. chunks \in Seq({})
      BY <1>5, <1>7, <3>1
    <3> QED
      BY <1>5, <1>7, <3>2
  <2> QED
    BY <2>1, <2>2, <2>3
<1>8. CASE K # 0
  <2>1. K \in Nat \ {0}
    BY <1>2, <1>8
  <2>2. PICK f : Flatten(chunks, f, K) /\ FlattenSeq(chunks) = f[K]
    <3> HIDE DEF chunks, K
    <3> QED
      BY <1>5, <2>1, FlattenSeqIsFlatten
  <2> DEFINE Upto(m) == IF m = K THEN n ELSE m * c
             Prefix(m) ==
               /\ f[m] \in Seq(S)
               /\ Len(f[m]) = Upto(m)
               /\ \A i \in 1..Len(f[m]) : f[m][i] = names[i]
             I == {m \in Nat : m \in 1..K => Prefix(m)}
  <2>3. 0 \in I
    OBVIOUS
  <2>4. ASSUME NEW m \in Nat, m \in I PROVE m + 1 \in I
    <3> SUFFICES ASSUME m + 1 \in 1..K PROVE Prefix(m + 1)
      OBVIOUS
    <3> DEFINE chunk == chunks[m + 1]
    <3>1. /\ chunk \in Seq(S) /\ m * c \in Nat
          /\ m * c + Len(chunk) = Upto(m + 1)
          /\ \A i \in 1..Len(chunk) : chunk[i] = names[m * c + i]
      <4>1. (m + 1) - 1 = m
        OBVIOUS
      <4> HIDE DEF chunks, K, n
      <4> QED
        BY <1>6, <4>1
    <3>2. CASE m = 0
      <4>1. f[1] = chunks[1] /\ m * c = 0 /\ m + 1 = 1
        <5> HIDE DEF chunks, K
        <5> QED
          BY <2>1, <2>2, <3>2 DEF Flatten
      <4> HIDE DEF chunks, K, n, Upto
      <4> QED
        BY <3>1, <4>1
    <3>3. CASE m # 0
      <4>1. m \in 1..K /\ (m + 1) - 1 = m /\ m + 1 # 1 /\ m # K
        BY <1>2, <3>3
      <4> HIDE DEF K, n, chunks
      <4>2. f[m + 1] = f[m] \o chunk
        BY <2>2, <4>1 DEF Flatten
      <4>3. /\ f[m] \in Seq(S) /\ Len(f[m]) = m * c
            /\ \A i \in 1..Len(f[m]) : f[m][i] = names[i]
        BY <2>4, <4>1
      <4> DEFINE mc == m * c
      <4> HIDE DEF mc, chunk, Upto
      <4>4. Len(f[m]) = mc /\ mc \in Nat /\ mc + Len(chunk) = Upto(m + 1)
            /\ chunk \in Seq(S) /\ \A i \in 1..Len(chunk) : chunk[i] = names[mc + i]
        BY <3>1, <4>3 DEF mc
      <4>5. f[m + 1] \in Seq(S) /\ Len(f[m + 1]) = Upto(m + 1)
        <5>1. Upto(m + 1) = Len(f[m]) + Len(chunk)
          BY <4>4
        <5> QED
          BY <4>2, <4>3, <4>4, <5>1
      <4>6. ASSUME NEW i \in 1..Len(f[m + 1]) PROVE f[m + 1][i] = names[i]
        <5>1. i \in 1..(mc + Len(chunk))
          BY <4>4, <4>5
        <5>2. CASE i <= mc
          BY <4>2, <4>3, <4>4, <5>1, <5>2
        <5>3. CASE i > mc
          <6>1. f[m + 1][i] = chunk[i - mc]
            BY <4>2, <4>3, <4>4, <5>1, <5>3
          <6>2. i - mc \in 1..Len(chunk) /\ mc + (i - mc) = i
            BY <4>4, <5>1, <5>3
          <6> QED
            BY <4>4, <6>1, <6>2
        <5> QED
          BY <4>4, <5>1, <5>2, <5>3
      <4> QED
        BY <4>5, <4>6
    <3> QED
      BY <3>2, <3>3
  <2>5. Prefix(K)
    <3>1. \A m \in Nat : m \in I => m + 1 \in I
      BY <2>4
    <3> HIDE DEF I
    <3>2. Nat \subseteq I
      BY <2>3, <3>1, NaturalInduction
    <3>3. K \in 1..K
      BY <2>1
    <3> HIDE DEF Prefix, K
    <3> QED
      BY <2>1, <3>2, <3>3 DEF I
  <2>6. f[K] \in Seq(S) /\ Len(f[K]) = n /\ \A i \in 1..n : f[K][i] = names[i]
    BY <2>5
  <2>7. f[K] = names
    <3> HIDE DEF K
    <3> QED
      BY <2>6
  <2> QED
    BY <2>2, <2>7
<1> QED
  BY <1>7, <1>8

(* The requests for tags name every load balancer once, in order, and none *)
(* is empty or too long (elb_classic.go:356-365), for every list and every *)
(* size of a request.                                                      *)
THEOREM ChunksPartition ==
    ASSUME NEW S, NEW names \in Seq(S), NEW c \in Nat \ {0}
    PROVE  LET chunks == dividedNames(names, c)
           IN  /\ FlattenSeq(chunks) = names
               /\ \A k \in DOMAIN chunks : Len(chunks[k]) \in 1..c
BY ChunksConcatenate, ChunkContents DEF IsChunk

=============================================================================
