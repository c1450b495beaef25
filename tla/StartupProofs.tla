---------------------------- MODULE StartupProofs ----------------------------
(***************************************************************************)
(* Proofs about Startup, for any number of concurrent health checks.  That *)
(* an answer is honest rests on what each check has already seen (Seen);   *)
(* that the start does not give up early rests on how much time the waits  *)
(* so far have taken and how long metadata can have been up during them    *)
(* (Waits).                                                                *)
(***************************************************************************)
EXTENDS Startup, TLAPS

(* A check past the metadata has seen it up, and every check has seen each *)
(* service as it is now.                                                   *)
Seen ==
    \A k \in Checks :
       /\ check[k] = "provider" => "metadata" \in seenUp[k]
       /\ check[k] # "idle" =>
             Tested \cap up \subseteq seenUp[k] /\ Tested \ up \subseteq seenDown[k]

(* Nothing is asked of a client that is not set.                           *)
Clients ==
    /\ pc \in {"connect", "waitConnect", "selfStack", "waitSelfStack"} =>
          ready = {} /\ server = "off"
    /\ pc = "cattle" => ready = {"m"} /\ server = "off"
    /\ pc = "provider" => ready = {"m", "c"} /\ server = "off"
    /\ pc = "running" => ready = {"m", "c", "provider"}
    /\ pc = "exited" => ready = {} /\ server = "off"
    /\ server # "listening" => \A k \in Checks : check[k] = "idle"

(* The waits add up, the last of them was as long as the others together   *)
(* and one more, and it began when metadata was down.                      *)
Waits ==
    /\ pc \notin {"waitConnect", "waitSelfStack"} => wait = 0
    /\ waited + wait = i - 1
    /\ "metadata" \notin up => upFor = 0
    /\ i > 1 => 2 * (upFor + wait) <= i

IInv == TypeOK /\ Clients /\ Seen /\ Waits

-----------------------------------------------------------------------------
(* The steps.                                                              *)

LEMMA InitInv == Init => IInv
  <1> SUFFICES ASSUME Init PROVE IInv
    OBVIOUS
  <1>1. 0 \in 0..MaxOutages /\ 0 \in 0..MaxFailures
    BY StartupAssumption
  <1>2. TypeOK
    BY <1>1 DEF Init, TypeOK, Longest
  <1>3. Clients /\ Seen /\ Waits
    BY DEF Init, Clients, Seen, Waits
  <1> QED
    BY <1>2, <1>3 DEF IInv

(* The end of the process leaves nothing of it.                            *)
LEMMA FatalType == ASSUME Fatal PROVE Clients'
  BY DEF Fatal, Clients

(* While more attempts are to come, the next wait is within bounds.        *)
LEMMA AttemptBound ==
    ASSUME TypeOK, NEW timeout \in {Timeout, ConnectTimeout}, MoreAttempts(timeout)
    PROVE  i \in {1, 2, 4, 8, 16} /\ 2 * i \in {2, 4, 8, 16, 32}
  <1>1. timeout \in Nat /\ timeout <= 32
    BY StartupAssumption DEF Longest
  <1>2. i < timeout /\ i \in {1, 2, 4, 8, 16, 32}
    BY DEF TypeOK, MoreAttempts
  <1> QED
    BY <1>1, <1>2

(* What an attempt does: it goes on, waits, or ends the process.           *)
LEMMA AttemptEffect ==
    ASSUME IInv, Connect \/ getEnvironmentUUID
    PROVE  /\ UNCHANGED <<configured, up, history, outages, failures>>
           /\ pc \in {"connect", "selfStack"}
           /\ \/ /\ pc = "connect" /\ pc' = "selfStack" /\ ready' = ready
                 /\ i' = 1 /\ wait' = 0 /\ waited' = 0
                 /\ UNCHANGED <<server, checking>>
              \/ /\ pc = "selfStack" /\ pc' = "cattle" /\ ready' = ready \cup {"m"}
                 /\ i' = 1 /\ wait' = 0 /\ waited' = 0
                 /\ UNCHANGED <<server, checking>>
              \/ /\ \/ pc = "connect" /\ pc' = "waitConnect"
                    \/ pc = "selfStack" /\ pc' = "waitSelfStack"
                 /\ "metadata" \notin up
                 /\ i \in {1, 2, 4, 8, 16} /\ wait' = i
                 /\ i' = 2 * i /\ i' \in {2, 4, 8, 16, 32}
                 /\ UNCHANGED <<ready, waited, server, checking>>
              \/ /\ pc = "selfStack" => ~MoreAttempts(Timeout)
                 /\ Fatal
  <1>1. CASE Connect
    <2>1. MoreAttempts(ConnectTimeout) =>
             i \in {1, 2, 4, 8, 16} /\ 2 * i \in {2, 4, 8, 16, 32}
      BY AttemptBound DEF IInv
    <2>2. CASE MoreAttempts(ConnectTimeout)
      BY <1>1, <2>1, <2>2 DEF Connect, Attempt, Proceed
    <2> QED
      BY <1>1, <2>2 DEF Connect, Attempt
  <1>2. CASE getEnvironmentUUID
    <2>1. MoreAttempts(Timeout) =>
             i \in {1, 2, 4, 8, 16} /\ 2 * i \in {2, 4, 8, 16, 32}
      BY AttemptBound DEF IInv
    <2>2. CASE MoreAttempts(Timeout)
      BY <1>2, <2>1, <2>2 DEF getEnvironmentUUID, Attempt, Proceed
    <2> QED
      BY <1>2, <2>2 DEF getEnvironmentUUID, Attempt
  <1> QED
    BY <1>1, <1>2

(* The rest of setEnv, likewise.                                           *)
LEMMA SetEnvEffect ==
    ASSUME IInv, NewCattleClientFromEnvironment \/ GetProvider
    PROVE  /\ UNCHANGED <<configured, up, history, outages, failures>>
           /\ \/ /\ pc = "cattle" /\ pc' = "provider" /\ ready' = ready \cup {"c"}
                 /\ i' = 1 /\ wait' = 0 /\ waited' = 0
                 /\ UNCHANGED <<server, checking>>
              \/ /\ pc = "provider" /\ pc' = "running"
                 /\ ready' = ready \cup {"provider"} /\ server' = "starting"
                 /\ UNCHANGED <<i, wait, waited, checking>>
              \/ pc # "selfStack" /\ Fatal
  BY DEF NewCattleClientFromEnvironment, GetProvider, Proceed

(* Every variable keeps its type, and no client is asked before it is set. *)
LEMMA TypeStep ==
    ASSUME IInv, [Next]_vars
    PROVE  TypeOK'
  <1> USE DEF IInv, TypeOK, checking, history, main
  <1> USE StartupAssumption DEF Longest
  <1>1. CASE Connect \/ getEnvironmentUUID
    <2>1. UNCHANGED <<configured, up, history, outages, failures>>
          /\ pc \in {"connect", "selfStack"}
      BY <1>1, AttemptEffect
    <2>2. server = "off" /\ ready = {} /\ \A k \in Checks : check[k] = "idle"
      BY <2>1 DEF Clients
    <2>3. CASE Fatal
      BY <2>1, <2>3 DEF Fatal
    <2>4. CASE /\ pc' \in {"selfStack", "cattle"} /\ ready' \in {ready, ready \cup {"m"}}
               /\ i' = 1 /\ wait' = 0 /\ waited' = 0
               /\ UNCHANGED <<server, checking>>
      BY <2>1, <2>2, <2>4
    <2>5. CASE /\ pc' \in {"waitConnect", "waitSelfStack"}
               /\ i \in {1, 2, 4, 8, 16} /\ wait' = i /\ i' \in {2, 4, 8, 16, 32}
               /\ UNCHANGED <<ready, waited, server, checking>>
      BY <2>1, <2>2, <2>5
    <2> QED
      BY <1>1, <2>3, <2>4, <2>5, AttemptEffect
  <1>2. CASE Awake
    BY <1>2 DEF Awake, Wakes, Clients
  <1>3. CASE NewCattleClientFromEnvironment \/ GetProvider
    BY <1>3, SetEnvEffect DEF Fatal, Clients
  <1>4. CASE ListenAndServe
    BY <1>4 DEF ListenAndServe, Fatal
  <1>5. ASSUME NEW k \in Checks, Request(k) PROVE TypeOK'
    BY <1>5 DEF Request, Tested
  <1>6. ASSUME NEW k \in Checks, CheckMetadata(k) \/ CheckProvider(k) PROVE TypeOK'
    BY <1>6 DEF CheckMetadata, CheckProvider, Respond
  <1>7. CASE Restart
    BY <1>7 DEF Restart, Clients
  <1>8. CASE Tick
    BY <1>8 DEF Tick, Waits
  <1>9. ASSUME NEW s \in Services, GoesDown(s) PROVE TypeOK'
    BY <1>9 DEF GoesDown, Observe
  <1>10. ASSUME NEW s \in Services, ComesUp(s) PROVE TypeOK'
    BY <1>10 DEF ComesUp, Observe
  <1>11. CASE UNCHANGED vars
    BY <1>11 DEF vars
  <1> QED
    BY <1>1, <1>2, <1>3, <1>4, <1>5, <1>6, <1>7, <1>8, <1>9, <1>10, <1>11
       DEF Next, SetEnv

(* The clients are set one after the other, and all lost together.         *)
LEMMA ClientsStep ==
    ASSUME IInv, [Next]_vars
    PROVE  Clients'
  <1> USE DEF IInv, Clients, checking, main
  <1>1. CASE Connect \/ getEnvironmentUUID
    BY <1>1, AttemptEffect, FatalType
  <1>2. CASE Awake
    BY <1>2 DEF Awake, Wakes
  <1>3. CASE NewCattleClientFromEnvironment \/ GetProvider
    BY <1>3, SetEnvEffect, FatalType
  <1>4. CASE ListenAndServe
    BY <1>4, FatalType DEF ListenAndServe
  <1>5. ASSUME NEW k \in Checks, Request(k) PROVE Clients'
    BY <1>5 DEF Request
  <1>6. ASSUME NEW k \in Checks, CheckMetadata(k) \/ CheckProvider(k) PROVE Clients'
    BY <1>6 DEF CheckMetadata, CheckProvider, Respond, TypeOK
  <1>7. CASE Restart
    BY <1>7 DEF Restart
  <1>8. CASE Tick
    BY <1>8 DEF Tick
  <1>9. ASSUME NEW s \in Services, GoesDown(s) \/ ComesUp(s) PROVE Clients'
    BY <1>9 DEF GoesDown, ComesUp
  <1>10. CASE UNCHANGED vars
    BY <1>10 DEF vars
  <1> QED
    BY <1>1, <1>2, <1>3, <1>4, <1>5, <1>6, <1>7, <1>8, <1>9, <1>10 DEF Next, SetEnv

(* A check goes on with what it has seen, and sees every change.           *)
LEMMA SeenStep ==
    ASSUME IInv, [Next]_vars
    PROVE  Seen'
  <1> USE DEF IInv, Seen, checking, history, main
  <1>1. CASE Connect \/ getEnvironmentUUID
    BY <1>1, AttemptEffect DEF Fatal
  <1>2. CASE Awake
    BY <1>2 DEF Awake, Wakes
  <1>3. CASE NewCattleClientFromEnvironment \/ GetProvider
    BY <1>3, SetEnvEffect DEF Fatal
  <1>4. CASE ListenAndServe
    BY <1>4 DEF ListenAndServe, Fatal
  <1>5. ASSUME NEW k \in Checks, Request(k) PROVE Seen'
    BY <1>5 DEF Request, TypeOK
  <1>6. ASSUME NEW k \in Checks, CheckMetadata(k) PROVE Seen'
    BY <1>6 DEF CheckMetadata, Respond, TypeOK, Tested
  <1>7. ASSUME NEW k \in Checks, CheckProvider(k) PROVE Seen'
    BY <1>7 DEF CheckProvider, Respond, TypeOK
  <1>8. CASE Restart \/ Tick
    BY <1>8 DEF Restart, Tick
  <1>9. ASSUME NEW s \in Services, GoesDown(s) \/ ComesUp(s) PROVE Seen'
    <2>1. \A k \in Checks : /\ seenUp'[k] = seenUp[k] \cup (Tested \cap up')
                            /\ seenDown'[k] = seenDown[k] \cup (Tested \ up')
      BY <1>9 DEF GoesDown, ComesUp, Observe
    <2>2. check' = check
      BY <1>9 DEF GoesDown, ComesUp
    <2> QED
      BY <2>1, <2>2
  <1>10. CASE UNCHANGED vars
    BY <1>10 DEF vars
  <1> QED
    BY <1>1, <1>2, <1>3, <1>4, <1>5, <1>6, <1>7, <1>8, <1>9, <1>10 DEF Next, SetEnv

(* A wait begins when metadata is down, and a second of it is one in which *)
(* metadata was up at most.                                                *)
LEMMA WaitsStep ==
    ASSUME IInv, [Next]_vars
    PROVE  Waits'
  <1> USE DEF IInv, Waits, checking, history, main
  <1>1. CASE Connect \/ getEnvironmentUUID
    <2>1. waited = i - 1 /\ wait = 0
      BY <1>1, AttemptEffect DEF TypeOK
    <2> QED
      BY <1>1, <2>1, AttemptEffect DEF Fatal, TypeOK
  <1>2. CASE Awake
    BY <1>2 DEF Awake, Wakes
  <1>3. CASE NewCattleClientFromEnvironment \/ GetProvider
    BY <1>3, SetEnvEffect DEF Fatal, TypeOK
  <1>4. CASE ListenAndServe
    BY <1>4 DEF ListenAndServe, Fatal, TypeOK
  <1>5. ASSUME NEW k \in Checks, Request(k) \/ CheckMetadata(k) \/ CheckProvider(k)
        PROVE  Waits'
    BY <1>5 DEF Request, CheckMetadata, CheckProvider
  <1>6. CASE Restart
    BY <1>6 DEF Restart, TypeOK
  <1>7. CASE Tick
    BY <1>7 DEF Tick, TypeOK
  <1>8. ASSUME NEW s \in Services, GoesDown(s) PROVE Waits'
    BY <1>8 DEF GoesDown, TypeOK
  <1>9. ASSUME NEW s \in Services, ComesUp(s) PROVE Waits'
    BY <1>9 DEF ComesUp
  <1>10. CASE UNCHANGED vars
    BY <1>10 DEF vars
  <1> QED
    BY <1>1, <1>2, <1>3, <1>4, <1>5, <1>6, <1>7, <1>8, <1>9, <1>10 DEF Next, SetEnv

-----------------------------------------------------------------------------
(* The theorems.                                                           *)

(* IInv holds in every reachable state.                                    *)
THEOREM InductiveInvariant == Spec => []IInv
  <1>1. ASSUME IInv, [Next]_vars PROVE IInv'
    BY <1>1, TypeStep, ClientsStep, SeenStep, WaitsStep DEF IInv
  <1> QED
    BY <1>1, InitInv, PTL DEF Spec

(* Every variable keeps its type, and neither the loop nor a health check  *)
(* runs before the clients are set (main.go:57-89).                        *)
THEOREM TypeCorrect == Spec => []TypeOK
  <1>1. IInv => TypeOK
    BY DEF IInv
  <1> QED
    BY <1>1, InductiveInvariant, PTL

(* The start gives up on metadata late, and not while it is long up        *)
(* (metadata.go:27-42).                                                    *)
THEOREM StartGivesUpLate == Spec => GivesUpLate
  <1>1. ASSUME IInv, [Next]_vars, pc = "selfStack", pc' = "exited"
        PROVE  waited >= Timeout /\ upFor <= Longest
    <2>1. server = "off" /\ \A k \in Checks : check[k] = "idle"
      BY <1>1 DEF IInv, Clients
    <2>2. Connect \/ getEnvironmentUUID
      BY <1>1, <2>1
         DEF Next, SetEnv, Awake, Wakes, NewCattleClientFromEnvironment,
             GetProvider, ListenAndServe, Request, CheckMetadata,
             CheckProvider, Restart, Tick, GoesDown, ComesUp, vars, main
    <2>3. ~MoreAttempts(Timeout)
      BY <1>1, <2>2, AttemptEffect
    <2>4. i = 32 /\ waited = 31 /\ wait = 0
      BY <1>1, <2>3, StartupAssumption DEF IInv, TypeOK, Waits, MoreAttempts, Longest
    <2>5. 2 * upFor <= 32 /\ upFor \in Nat
      BY <1>1, <2>4 DEF IInv, TypeOK, Waits
    <2> QED
      BY <2>4, <2>5, StartupAssumption DEF Longest
  <1>2. ASSUME IInv, [Next]_vars
        PROVE  [pc = "selfStack" /\ pc' = "exited"
                  => waited >= Timeout /\ upFor <= Longest]_vars
    BY <1>1, <1>2
  <1> QED
    BY <1>2, InductiveInvariant, PTL DEF Spec, GivesUpLate

(* An answer tells what was so at some time of the check, however many     *)
(* checks run and however the services come and go (healthcheck.go:20-35). *)
THEOREM AnswersAreHonest == Spec => HealthIsHonest
  <1>1. ASSUME IInv, [Next]_vars, NEW k \in Checks,
               check[k] # "idle", check'[k] = "idle", pc' # "exited"
        PROVE  \/ answer'[k] = "ok" /\ seenUp[k] = Tested
               \/ answer'[k] = "error" /\ seenDown[k] # {}
    <2>1. pc = "running" /\ server = "listening"
      BY <1>1 DEF IInv, Clients, TypeOK
    <2>2. CheckMetadata(k) \/ CheckProvider(k)
      <3>1. ASSUME NEW j \in Checks, j # k,
                   Request(j) \/ CheckMetadata(j) \/ CheckProvider(j)
            PROVE  FALSE
        BY <1>1, <3>1 DEF Request, CheckMetadata, CheckProvider, Respond, IInv, TypeOK
      <3>2. ~Request(k)
        BY <1>1 DEF Request
      <3>3. ~SetEnv /\ ~ListenAndServe /\ ~Restart
        BY <2>1 DEF SetEnv, Connect, getEnvironmentUUID, Attempt, Awake, Wakes,
                    NewCattleClientFromEnvironment, GetProvider, ListenAndServe, Restart
      <3>4. check' # check
        BY <1>1
      <3> QED
        BY <1>1, <3>1, <3>2, <3>3, <3>4
           DEF Next, Tick, GoesDown, ComesUp, vars, checking
    <2>3. CASE CheckMetadata(k)
      <3>1. "metadata" \notin up /\ answer'[k] = "error"
        BY <1>1, <2>3 DEF CheckMetadata, Respond, IInv, TypeOK
      <3> QED
        BY <1>1, <3>1 DEF IInv, Seen, Tested
    <2>4. CASE CheckProvider(k)
      <3>1. CASE HealthCheck
        <4>1. answer'[k] = "ok"
          BY <1>1, <2>4, <3>1 DEF CheckProvider, Respond, IInv, TypeOK
        <4>2. "metadata" \in seenUp[k] /\ "provider" \in seenUp[k] /\ seenUp[k] \subseteq Tested
          BY <1>1, <2>4, <3>1 DEF CheckProvider, HealthCheck, IInv, Seen, Tested, TypeOK
        <4> QED
          BY <4>1, <4>2 DEF Tested
      <3>2. CASE ~HealthCheck
        <4>1. answer'[k] = "error"
          BY <1>1, <2>4, <3>2 DEF CheckProvider, Respond, IInv, TypeOK
        <4>2. "provider" \in seenDown[k]
          BY <1>1, <2>4, <3>2 DEF CheckProvider, HealthCheck, IInv, Seen, Tested
        <4> QED
          BY <4>1, <4>2
      <3> QED
        BY <3>1, <3>2
    <2> QED
      BY <2>2, <2>3, <2>4
  <1>2. ASSUME IInv, [Next]_vars
        PROVE  [\A k \in Checks :
                  check[k] # "idle" /\ check'[k] = "idle" /\ pc' # "exited" =>
                     \/ answer'[k] = "ok" /\ seenUp[k] = Tested
                     \/ answer'[k] = "error" /\ seenDown[k] # {}]_vars
    BY <1>1, <1>2
  <1> QED
    BY <1>2, InductiveInvariant, PTL DEF Spec, HealthIsHonest

=============================================================================
