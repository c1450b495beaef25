----------------------------- MODULE AviSession -----------------------------
(***************************************************************************)
(* The session with the Avi controller (providers/avi/avisession.go): one  *)
(* AviSession is shared, without a lock, by the reconciliation loop and by *)
(* the health check, whose handler runs in a goroutine of its own for each *)
(* request it gets (healthcheck.go:14-35, avi.go:76-86).  A request that   *)
(* is answered by 419 is repeated, one that is answered by 401 is repeated *)
(* after a log-in; rest_request is tail-recursive in both cases, so where  *)
(* a goroutine is in it is a matter of two variables, uri and pc.          *)
(*                                                                         *)
(* The controller is modelled as the code expects it to be: it executes    *)
(* nothing that it answers by 401 or 419, a log-in sets the session cookie *)
(* and leaves other sessions alone, "GET /" works without a session and    *)
(* sets the CSRF token, and a writing request must carry one token both in *)
(* its header and in its cookie.  The token's value matters no further, so *)
(* csrf_token is present as `mixed`, the requests that carry two tokens.   *)
(* Tokens and session ids have one length each: a torn read is no issue.   *)
(***************************************************************************)
EXTENDS Naturals

CONSTANTS
    Loop,           \* the goroutine of main()
    Checks,         \* goroutines of the health check
    Sessions,       \* session ids
    NoSession,      \* the empty string
    MaxExpiries,    \* bound on sessions that expire
    MaxResets,      \* bound on answers 419
    MaxFailures     \* bound on failed requests and crashes

VARIABLES
    phase,          \* of the process
    sessionid,      \* AviSession.sessionid
    valid,          \* the sessions the controller accepts
    pc,             \* where in rest_request each goroutine is
    uri,            \* what its current request is for
    call,           \* what it called the session for
    mixed,          \* goroutines whose request carries two tokens
    sent,           \* the session id its request carries
    code,           \* how its request was answered
    cookie,         \* the session id in the answer
    result,         \* how its last call returned
    executed,       \* history: how often the call's request was executed
    hurt,           \* history: goroutines a request of whose call failed
    expiries, resets, failures

Goroutines == {Loop} \cup Checks

session == <<phase, sessionid, valid>>
locals  == <<uri, call, mixed, sent, code, cookie, result>>
history == <<executed, hurt>>
bounds  == <<expiries, resets, failures>>
vars    == <<session, pc, locals, history, bounds>>

ASSUME SessionAssumption ==
    /\ Loop \notin Checks
    /\ NoSession \notin Sessions
    /\ MaxExpiries \in Nat /\ MaxResets \in Nat /\ MaxFailures \in Nat

(* Health checks run in a process that has been set up only (main.go:87-89)*)
TypeOK ==
    /\ phase \in {"starting", "running", "exited"}
    /\ sessionid \in Sessions \cup {NoSession}
    /\ valid \subseteq Sessions
    /\ pc \in [Goroutines -> {"idle", "header", "cookies", "session", "do",
                              "token", "sessionid", "decide"}]
    /\ uri \in [Goroutines -> {"api", "root", "login"}]
    /\ call \in [Goroutines -> {"none", "init", "cloud", "read", "write"}]
    /\ mixed \subseteq Goroutines /\ hurt \subseteq Goroutines
    /\ sent \in [Goroutines -> Sessions \cup {NoSession}]
    /\ code \in [Goroutines -> {"none", "2xx", "401", "419", "error"}]
    /\ cookie \in [Goroutines -> Sessions \cup {NoSession}]
    /\ result \in [Goroutines -> {"none", "ok", "error"}]
    /\ executed \in [Goroutines -> 0..2]
    /\ phase # "running" =>
          \A g \in Goroutines : pc[g] # "idle" => call[g] \in {"init", "cloud"}
    /\ expiries \in 0..MaxExpiries
    /\ resets \in 0..MaxResets
    /\ failures \in 0..MaxFailures

(* A new process: AviProvider.Init calls InitiateSession.                  *)
Started ==
    /\ phase' = "starting"
    /\ sessionid' = NoSession
    /\ pc' = [g \in Goroutines |-> IF g = Loop THEN "header" ELSE "idle"]
    /\ uri' = [g \in Goroutines |-> IF g = Loop THEN "root" ELSE "api"]
    /\ call' = [g \in Goroutines |-> IF g = Loop THEN "init" ELSE "none"]
    /\ sent' = [g \in Goroutines |-> NoSession]
    /\ code' = [g \in Goroutines |-> "none"]
    /\ cookie' = [g \in Goroutines |-> NoSession]
    /\ result' = [g \in Goroutines |-> "none"]
    /\ executed' = [g \in Goroutines |-> 0]
    /\ mixed' = {} /\ hurt' = {}

Init ==
    /\ phase = "exited"
    /\ sessionid = NoSession
    /\ valid = {}
    /\ pc = [g \in Goroutines |-> "idle"]
    /\ uri = [g \in Goroutines |-> "api"]
    /\ call = [g \in Goroutines |-> "none"]
    /\ sent = [g \in Goroutines |-> NoSession]
    /\ code = [g \in Goroutines |-> "none"]
    /\ cookie = [g \in Goroutines |-> NoSession]
    /\ result = [g \in Goroutines |-> "none"]
    /\ executed = [g \in Goroutines |-> 0]
    /\ mixed = {} /\ hurt = {}
    /\ expiries = 0 /\ resets = 0 /\ failures = 0

Start ==
    /\ phase = "exited"
    /\ Started
    /\ UNCHANGED <<valid, bounds>>

Goto(g, l) == pc' = [pc EXCEPT ![g] = l]

-----------------------------------------------------------------------------
(* A call begins.                                                          *)

(* Planted bug: the health check listens before the provider is set up.    *)
Begin_BeforeInit(g) ==
    /\ phase # "exited"
    /\ pc[g] = "idle"
    /\ \E c \in {"read", "write"} :
          /\ g \in Checks => c = "read"
          /\ call' = [call EXCEPT ![g] = c]
    /\ Goto(g, "header")
    /\ result' = [result EXCEPT ![g] = "none"]
    /\ UNCHANGED <<session, uri, mixed, sent, code, cookie, history, bounds>>

(* The loop reads and writes, the health check reads.                      *)
Begin(g) ==
    /\ phase = "running"
    /\ pc[g] = "idle"
    /\ \E c \in {"read", "write"} :
          /\ g \in Checks => c = "read"
          /\ call' = [call EXCEPT ![g] = c]
    /\ Goto(g, "header")
    /\ result' = [result EXCEPT ![g] = "none"]
    /\ UNCHANGED <<session, uri, mixed, sent, code, cookie, history, bounds>>

-----------------------------------------------------------------------------
(* rest_request: the request is put together.                              *)

(* csrf_token is read for the header ...                                   *)
SetHeader(g) ==
    /\ pc[g] = "header"
    /\ Goto(g, "cookies")
    /\ UNCHANGED <<session, locals, history, bounds>>

(* ... and once more for the cookie.                                       *)
AddTokenCookie(g) ==
    /\ pc[g] = "cookies"
    /\ Goto(g, "session")
    /\ UNCHANGED <<session, locals, history, bounds>>

AddSessionCookie(g) ==
    /\ pc[g] = "session"
    /\ sent' = [sent EXCEPT ![g] = sessionid]
    /\ Goto(g, "do")
    /\ UNCHANGED <<session, uri, call, mixed, code, cookie, result, history,
                   bounds>>

-----------------------------------------------------------------------------
(* client.Do: the controller's part.                                       *)

(* The sessions somebody has heard of.                                     *)
Held == {sessionid} \cup {sent[g] : g \in Goroutines}
                    \cup {cookie[g] : g \in Goroutines}

Execute(g) == executed' = [executed EXCEPT ![g] = @ + 1]

Answered(g, c) ==
    /\ code' = [code EXCEPT ![g] = c]
    /\ Goto(g, IF c = "2xx" /\ uri[g] # "api" THEN "token" ELSE "decide")

(* "GET /" and log-ins do not count as the call's request.                 *)
Accept(g) ==
    /\ Answered(g, "2xx")
    /\ \/ /\ uri[g] = "api" /\ sent[g] \in valid
          /\ call[g] = "write" => g \notin mixed
          /\ Execute(g)
          /\ UNCHANGED <<valid, cookie>>
       \/ uri[g] = "root" /\ UNCHANGED <<valid, cookie, executed>>
       \/ /\ uri[g] = "login"
          /\ Sessions \ Held # {}
          /\ LET new == CHOOSE s \in Sessions \ Held : TRUE
             IN /\ valid' = (valid \cap Held) \cup {new}
                /\ cookie' = [cookie EXCEPT ![g] = new]
          /\ UNCHANGED executed
    /\ UNCHANGED <<hurt, bounds>>

Unauthorized(g) ==
    /\ uri[g] = "api"
    /\ sent[g] \notin valid
    /\ Answered(g, "401")
    /\ UNCHANGED <<valid, cookie, history, bounds>>

(* The CSRF check fails.                                                   *)
Forbidden(g) ==
    /\ uri[g] = "api" /\ sent[g] \in valid
    /\ call[g] = "write" /\ g \in mixed
    /\ Answered(g, "error")
    /\ UNCHANGED <<valid, cookie, history, bounds>>

Reset(g) ==
    /\ resets < MaxResets /\ resets' = resets + 1
    /\ Answered(g, "419")
    /\ UNCHANGED <<valid, cookie, history, expiries, failures>>

(* No answer, a lost one, or one that reports an error.                    *)
RequestFails(g) ==
    /\ failures < MaxFailures /\ failures' = failures + 1
    /\ Answered(g, "error")
    /\ hurt' = hurt \cup {g}
    /\ UNCHANGED executed \/ (uri[g] = "api" /\ sent[g] \in valid /\ Execute(g))
    /\ UNCHANGED <<valid, cookie, expiries, resets>>

Do(g) ==
    /\ pc[g] = "do"
    /\ Accept(g) \/ Unauthorized(g) \/ Forbidden(g) \/ Reset(g) \/ RequestFails(g)
    /\ sent' = [sent EXCEPT ![g] = NoSession]
    /\ UNCHANGED <<phase, sessionid, uri, call, mixed, result>>

-----------------------------------------------------------------------------
(* rest_request: the answer is dealt with.                                 *)

(* The token is new: whoever is between its two reads gets both.           *)
StoreToken(g) ==
    /\ pc[g] = "token"
    /\ mixed' = mixed \cup {h \in Goroutines : pc[h] = "cookies"}
    /\ Goto(g, IF cookie[g] # NoSession THEN "sessionid" ELSE "decide")
    /\ UNCHANGED <<session, uri, call, sent, code, cookie, result, history,
                   bounds>>

StoreSession(g) ==
    /\ pc[g] = "sessionid"
    /\ sessionid' = cookie[g]
    /\ cookie' = [cookie EXCEPT ![g] = NoSession]
    /\ Goto(g, "decide")
    /\ UNCHANGED <<phase, valid, uri, call, mixed, sent, code, result, history,
                   bounds>>

(* The next request of the call, or the same once more.                    *)
Request(g, u) ==
    /\ uri' = [uri EXCEPT ![g] = u]
    /\ Goto(g, "header")
    /\ UNCHANGED <<phase, result, history, call>>

(* The call returns.  An error in Init ends the process (main.go:72-75).   *)
Return(g, r) ==
    /\ uri' = [uri EXCEPT ![g] = "api"]
    /\ call' = [call EXCEPT ![g] = "none"]
    /\ result' = [result EXCEPT ![g] = r]
    /\ executed' = [executed EXCEPT ![g] = 0]
    /\ hurt' = hurt \ {g}
    /\ Goto(g, "idle")
    /\ phase' = CASE phase = "running" -> "running"
                  [] r = "ok"          -> "running"
                  [] OTHER             -> "exited"

(* Planted bug: every error is taken for one that can be repeated.         *)
Repeats_AnyError(g) ==
    code[g] = "419" \/ (code[g] = "error" /\ uri[g] = "api")

(* Planted bug: an expired session is treated like one that was reset.     *)
Repeats_Expired(g) == code[g] \in {"419", "401"}

Repeats(g) == code[g] = "419"

(* Planted bug: an expired session is an error.                            *)
Expired_NoLogin(g) == FALSE

(* 401 to a request other than the log-in, while there is a session.       *)
Expired(g) == code[g] = "401" /\ sessionid # NoSession /\ uri[g] # "login"

(* InitAviSession returns the error of the log-in, rest_request drops it.  *)
LogInFailed(g) == call[g] = "init" /\ code[g] # "2xx"

(* Planted bug: the request is not repeated after the log-in.              *)
AfterLogIn_NoRepeat(g) == Return(g, "ok")

(* InitiateSession returns: GetCloudRef follows in Init, otherwise the     *)
(* request that had found the session expired is repeated.                 *)
AfterLogIn(g) ==
    /\ uri' = [uri EXCEPT ![g] = "api"]
    /\ call' = [call EXCEPT ![g] = IF @ = "init" THEN "cloud" ELSE @]
    /\ Goto(g, "header")
    /\ UNCHANGED <<phase, result, history>>

(* InitiateSession drops the error of "GET /".                             *)
Decide(g) ==
    /\ pc[g] = "decide"
    /\ \/ Repeats(g) /\ Request(g, uri[g])
       \/ ~Repeats(g) /\ Expired(g) /\ Request(g, "root")
       \/ ~Repeats(g) /\ uri[g] = "root" /\ Request(g, "login")
       \/ /\ ~Repeats(g) /\ uri[g] = "login"
          /\ IF LogInFailed(g) THEN Return(g, "error") ELSE AfterLogIn(g)
       \/ /\ ~Repeats(g) /\ ~Expired(g) /\ uri[g] = "api"
          /\ Return(g, IF code[g] = "2xx" THEN "ok" ELSE "error")
    /\ code' = [code EXCEPT ![g] = "none"]
    /\ mixed' = mixed \ {g}
    /\ UNCHANGED <<sessionid, valid, sent, cookie, bounds>>

-----------------------------------------------------------------------------
(* The world around the process.                                           *)

Expire ==
    /\ expiries < MaxExpiries /\ expiries' = expiries + 1
    /\ \E s \in valid : valid' = valid \ {s}
    /\ UNCHANGED <<phase, sessionid, pc, locals, history, resets, failures>>

(* The process dies with all its goroutines, and is restarted.             *)
Crash ==
    /\ phase # "exited"
    /\ failures < MaxFailures /\ failures' = failures + 1
    /\ Started
    /\ UNCHANGED <<valid, expiries, resets>>

Step(g) ==
    \/ SetHeader(g) \/ AddTokenCookie(g) \/ AddSessionCookie(g)
    \/ Do(g)
    \/ StoreToken(g) \/ StoreSession(g) \/ Decide(g)

Next ==
    \/ Start \/ Expire \/ Crash
    \/ \E g \in Goroutines : Begin(g) \/ Step(g)

Spec == Init /\ [][Next]_vars

(* Goroutines are scheduled, and requests answered, be it by an error.     *)
FairSpec == Spec /\ WF_vars(Start) /\ \A g \in Goroutines : WF_vars(Step(g))

-----------------------------------------------------------------------------
(* Properties.                                                             *)

Returns(g) == pc[g] # "idle" /\ pc'[g] = "idle" /\ result'[g] # "none"

(* A request of the provider has its effect once at most, however often    *)
(* its session expires or is reset and however its call ends               *)
(* (avisession.go:209-228).                                                *)
AtMostOnce == \A g \in Goroutines : executed[g] <= 1

(* A call that returns without an error had its request executed, after    *)
(* whatever repetitions (avisession.go:214-236).                           *)
OkIsExecuted ==
    [][\A g \in Goroutines :
          Returns(g) /\ result'[g] = "ok" => executed[g] = 1]_vars

(* The controller's ending a session never makes a call fail, also when    *)
(* both goroutines find it ended and log in (avisession.go:214-218).  The  *)
(* exceptions: a request failed on its own, or another goroutine stored a  *)
(* token between the two reads of lines 168 and 169.                       *)
ExpiryIsMasked ==
    [][\A g \in Goroutines :
          Returns(g) /\ result'[g] = "error"
             => g \in hurt \/ (call[g] = "write" /\ g \in mixed)]_vars

(* A process that runs has a session id, be it of an expired session:      *)
(* without one a 401 would be an error for ever (avisession.go:214).       *)
NeverWithoutSession == phase = "running" => sessionid # NoSession

(* No call repeats its requests for ever once the controller stops ending  *)
(* sessions and failing: the log-in whose error is dropped at line 216 is  *)
(* retried, and stale session ids one goroutine stores over the other's    *)
(* are replaced.                                                           *)
CallsReturn == \A g \in Goroutines : pc[g] # "idle" ~> pc[g] = "idle"

=============================================================================
