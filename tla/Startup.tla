------------------------------ MODULE Startup ------------------------------
(***************************************************************************)
(* The life of the process outside the loop: setEnv (main.go:40-83), which *)
(* waits for rancher-metadata and ends the process when anything is amiss, *)
(* and the health check (healthcheck.go), whose server runs in a goroutine *)
(* of its own, with one more for each request, and ends the process when   *)
(* it cannot listen.  A process that has ended is started again by Rancher.*)
(*                                                                         *)
(* Time is in seconds; requests take none.                                 *)
(***************************************************************************)
EXTENDS Naturals

CONSTANTS
    Checks,         \* goroutines that answer health checks
    Timeout,        \* of getEnvironmentUUID
    ConnectTimeout, \* of the metadata client's first connection
    MaxOutages,     \* bound on how often a service goes down
    MaxFailures     \* bound on failures to listen

VARIABLES
    configured,     \* flags and environment variables are as they should be
    up,             \* the services that answer
    pc,             \* where main is
    ready,          \* the variables m, c and provider that are set
    i,              \* the wait after the next failed attempt
    wait,           \* what is left of the current wait
    waited,         \* waits since the first attempt of this kind
    server,         \* the goroutine of startHealthcheck
    check,          \* where each health check is
    answer,         \* how it was answered
    seenUp, seenDown,   \* history: services up, or down, during the check
    upFor,          \* history: for how long metadata has been up
    outages, failures

main     == <<pc, ready, i, wait, waited>>
checking == <<check, answer>>
history  == <<seenUp, seenDown, upFor>>
vars     == <<configured, up, main, server, checking, history, outages, failures>>

Services == {"metadata", "rancher", "provider"}

(* Those that a health check asks.                                         *)
Tested == {"metadata", "provider"}

(* The longest wait: attempts follow each other after 1, 2, 4, ... seconds.*)
Longest == 16

(* What Longest says of the timeouts, which are 30 and 20 seconds.         *)
ASSUME StartupAssumption ==
    /\ Timeout \in (Longest + 1)..(2 * Longest - 1)
    /\ ConnectTimeout \in 1..(2 * Longest)
    /\ MaxOutages \in Nat /\ MaxFailures \in Nat

(* Nothing is asked of a client that is not set: the loop and the server   *)
(* start when all are.                                                     *)
TypeOK ==
    /\ configured \in BOOLEAN
    /\ up \subseteq Services
    /\ pc \in {"connect", "selfStack", "waitConnect", "waitSelfStack",
               "cattle", "provider", "running", "exited"}
    /\ ready \subseteq {"m", "c", "provider"}
    /\ pc = "running" \/ server # "off" \/ (\E k \in Checks : check[k] # "idle")
          => ready = {"m", "c", "provider"}
    /\ i \in {1, 2, 4, 8, 16, 32}
    /\ wait \in 0..Longest
    /\ waited \in 0..(2 * Longest)
    /\ server \in {"off", "starting", "listening"}
    /\ check \in [Checks -> {"idle", "metadata", "provider"}]
    /\ answer \in [Checks -> {"none", "ok", "error"}]
    /\ seenUp \in [Checks -> SUBSET Tested]
    /\ seenDown \in [Checks -> SUBSET Tested]
    /\ upFor \in 0..(Longest + 1)
    /\ outages \in 0..MaxOutages
    /\ failures \in 0..MaxFailures

Init ==
    /\ configured \in BOOLEAN
    /\ up \in SUBSET Services
    /\ pc = "connect" /\ ready = {}
    /\ i = 1 /\ wait = 0 /\ waited = 0
    /\ server = "off"
    /\ check = [k \in Checks |-> "idle"]
    /\ answer = [k \in Checks |-> "none"]
    /\ seenUp = [k \in Checks |-> {}]
    /\ seenDown = [k \in Checks |-> {}]
    /\ upFor = 0
    /\ outages = 0 /\ failures = 0

-----------------------------------------------------------------------------
(* setEnv.                                                                 *)

(* logrus.Fatal: the process ends with its goroutines.                     *)
Fatal ==
    /\ pc' = "exited"
    /\ ready' = {}
    /\ server' = "off"
    /\ check' = [k \in Checks |-> "idle"]
    /\ answer' = [k \in Checks |-> "none"]
    /\ i' = 1 /\ wait' = 0 /\ waited' = 0

(* The next step of setEnv, with the variable it has set.                  *)
Proceed(at, variable) ==
    /\ pc' = at
    /\ ready' = ready \cup variable
    /\ i' = 1 /\ wait' = 0 /\ waited' = 0
    /\ UNCHANGED <<server, checking>>

(* Planted bug: half the timeout.                                          *)
MoreAttempts_Half(timeout) == i < timeout \div 2

MoreAttempts(timeout) == i < timeout

(* Planted bug: an answer does not end the loop.                           *)
Attempt_NoReturn(at, waiting, timeout, next, variable) ==
    /\ pc = at
    /\ \/ /\ MoreAttempts(timeout)
          /\ pc' = waiting
          /\ wait' = i /\ i' = 2 * i
          /\ UNCHANGED <<ready, waited, server, checking>>
       \/ ~MoreAttempts(timeout) /\ Fatal
    /\ UNCHANGED <<configured, up, history, outages, failures>>

(* One attempt to reach metadata; a wait follows the last one too.         *)
Attempt(at, waiting, timeout, next, variable) ==
    /\ pc = at
    /\ \/ /\ MoreAttempts(timeout) /\ "metadata" \in up
          /\ Proceed(next, variable)
       \/ /\ MoreAttempts(timeout) /\ "metadata" \notin up
          /\ pc' = waiting
          /\ wait' = i /\ i' = 2 * i
          /\ UNCHANGED <<ready, waited, server, checking>>
       \/ ~MoreAttempts(timeout) /\ Fatal
    /\ UNCHANGED <<configured, up, history, outages, failures>>

Wakes(waiting, at) ==
    /\ pc = waiting /\ wait = 0
    /\ pc' = at
    /\ UNCHANGED <<configured, up, ready, i, wait, waited, server, checking,
                   history, outages, failures>>

(* NewMetadataClient: the library's first connection, then the UUID.       *)
Connect == Attempt("connect", "waitConnect", ConnectTimeout, "selfStack", {})

getEnvironmentUUID == Attempt("selfStack", "waitSelfStack", Timeout, "cattle", {"m"})

Awake == Wakes("waitConnect", "connect") \/ Wakes("waitSelfStack", "selfStack")

(* The environment, then a request for the schemas of the Rancher API.     *)
NewCattleClientFromEnvironment ==
    /\ pc = "cattle"
    /\ IF configured /\ "rancher" \in up THEN Proceed("provider", {"c"}) ELSE Fatal
    /\ UNCHANGED <<configured, up, history, outages, failures>>

(* Init of every provider makes a request that must succeed, in most of    *)
(* them by calling HealthCheck.                                            *)
HealthCheck == "provider" \in up

(* Planted bug: the server is started although the provider is not there.  *)
GetProvider_Later ==
    /\ pc = "provider"
    /\ pc' = IF HealthCheck THEN "running" ELSE pc
    /\ ready' = IF HealthCheck THEN ready \cup {"provider"} ELSE ready
    /\ server' = IF server = "off" THEN "starting" ELSE server
    /\ UNCHANGED <<configured, up, i, wait, waited, checking, history, outages,
                   failures>>

(* The last step of setEnv; main starts the server and enters the loop.    *)
GetProvider ==
    /\ pc = "provider"
    /\ IF HealthCheck
       THEN /\ pc' = "running"
            /\ ready' = ready \cup {"provider"}
            /\ server' = "starting"
            /\ UNCHANGED <<i, wait, waited, checking>>
       ELSE Fatal
    /\ UNCHANGED <<configured, up, history, outages, failures>>

-----------------------------------------------------------------------------
(* The health check.                                                       *)

ListenAndServe ==
    /\ server = "starting"
    /\ \/ /\ server' = "listening"
          /\ UNCHANGED <<main, checking, failures>>
       \/ /\ failures < MaxFailures /\ failures' = failures + 1
          /\ Fatal
    /\ UNCHANGED <<configured, up, history, outages>>

Request(k) ==
    /\ server = "listening"
    /\ check[k] = "idle"
    /\ check' = [check EXCEPT ![k] = "metadata"]
    /\ answer' = [answer EXCEPT ![k] = "none"]
    /\ seenUp' = [seenUp EXCEPT ![k] = Tested \cap up]
    /\ seenDown' = [seenDown EXCEPT ![k] = Tested \ up]
    /\ UNCHANGED <<configured, up, main, server, upFor, outages, failures>>

Respond(k, how) ==
    /\ check' = [check EXCEPT ![k] = "idle"]
    /\ answer' = [answer EXCEPT ![k] = how]

(* Planted bug: metadata's error is logged and the provider asked.         *)
CheckMetadata_Logged(k) ==
    /\ check[k] = "metadata"
    /\ check' = [check EXCEPT ![k] = "provider"]
    /\ UNCHANGED <<configured, up, main, server, answer, history, outages, failures>>

(* 1) test metadata server                                                 *)
CheckMetadata(k) ==
    /\ check[k] = "metadata"
    /\ IF "metadata" \in up
       THEN check' = [check EXCEPT ![k] = "provider"] /\ UNCHANGED answer
       ELSE Respond(k, "error")
    /\ UNCHANGED <<configured, up, main, server, history, outages, failures>>

(* 2) test provider                                                        *)
CheckProvider(k) ==
    /\ check[k] = "provider"
    /\ Respond(k, IF HealthCheck THEN "ok" ELSE "error")
    /\ UNCHANGED <<configured, up, main, server, history, outages, failures>>

-----------------------------------------------------------------------------
(* The world around the process.                                           *)

Restart ==
    /\ pc = "exited"
    /\ pc' = "connect"
    /\ UNCHANGED <<configured, up, ready, i, wait, waited, server, checking,
                   history, outages, failures>>

(* A second goes by in which main waits.                                   *)
Tick ==
    /\ wait > 0
    /\ wait' = wait - 1
    /\ waited' = waited + 1
    /\ upFor' = IF "metadata" \in up /\ upFor <= Longest THEN upFor + 1 ELSE upFor
    /\ UNCHANGED <<configured, up, pc, ready, i, server, checking, seenUp,
                   seenDown, outages, failures>>

Observe(now) ==
    /\ seenUp' = [k \in Checks |-> seenUp[k] \cup (Tested \cap now)]
    /\ seenDown' = [k \in Checks |-> seenDown[k] \cup (Tested \ now)]

GoesDown(s) ==
    /\ s \in up
    /\ outages < MaxOutages /\ outages' = outages + 1
    /\ up' = up \ {s}
    /\ Observe(up')
    /\ upFor' = IF s = "metadata" THEN 0 ELSE upFor
    /\ UNCHANGED <<configured, main, server, checking, failures>>

ComesUp(s) ==
    /\ s \notin up
    /\ up' = up \cup {s}
    /\ Observe(up')
    /\ UNCHANGED <<configured, main, server, checking, upFor, outages, failures>>

SetEnv ==
    Connect \/ getEnvironmentUUID \/ Awake \/ NewCattleClientFromEnvironment
    \/ GetProvider

Next ==
    \/ SetEnv \/ ListenAndServe
    \/ \E k \in Checks : Request(k) \/ CheckMetadata(k) \/ CheckProvider(k)
    \/ Restart \/ Tick
    \/ \E s \in Services : GoesDown(s) \/ ComesUp(s)

Spec == Init /\ [][Next]_vars

(* Both goroutines are scheduled, time passes, and Rancher restarts what   *)
(* has ended.  Services need not come up.                                  *)
FairSpec ==
    /\ Spec
    /\ WF_vars(SetEnv) /\ WF_vars(ListenAndServe)
    /\ WF_vars(Tick) /\ WF_vars(Restart)

-----------------------------------------------------------------------------
(* Properties.                                                             *)

(* The start gives up on metadata after the whole timeout only             *)
(* (metadata.go:27-42), and only if metadata was down within the last 16   *)
(* seconds of it: those follow the last attempt.                           *)
GivesUpLate ==
    [][pc = "selfStack" /\ pc' = "exited"
          => waited >= Timeout /\ upFor <= Longest]_vars

(* An "OK" means that both services were up at some time of the check, an  *)
(* error that one was down (healthcheck.go:20-35), whatever other checks   *)
(* are going on.                                                           *)
HealthIsHonest ==
    [][\A k \in Checks :
          check[k] # "idle" /\ check'[k] = "idle" /\ pc' # "exited" =>
             \/ answer'[k] = "ok" /\ seenUp[k] = Tested
             \/ answer'[k] = "error" /\ seenDown[k] # {}]_vars

(* When the services stay up and the environment is complete, the process  *)
(* ends up in its loop and answers health checks, over however many        *)
(* restarts (main.go:57-89, healthcheck.go:14-18).                         *)
EventuallyRuns ==
    configured /\ <>[](up = Services)
        => <>[](pc = "running" /\ server = "listening")

=============================================================================
