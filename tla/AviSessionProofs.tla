-------------------------- MODULE AviSessionProofs --------------------------
(***************************************************************************)
(* Proofs about AviSession, for any number of goroutines, sessions,        *)
(* expiries, resets and failures.  AtMostOnce and NeverWithoutSession are  *)
(* not inductive: the first rests on where a goroutine can be when its     *)
(* request has been executed (Executions), the second on the way of a      *)
(* session id from the controller's answer to the shared field (Logins).   *)
(* ExpiryIsMasked rests on the cause of every error (Faults) and on Logins.*)
(***************************************************************************)
EXTENDS AviSession, TLAPS

Stages == {"idle", "header", "cookies", "session", "do", "token",
           "sessionid", "decide"}

(* A request that was executed is about to return, and one that is about   *)
(* to return without an error was executed.                                *)
Executions ==
    \A g \in Goroutines :
       /\ executed[g] <= 1
       /\ executed[g] # 0 =>
             pc[g] = "decide" /\ uri[g] = "api" /\ code[g] \in {"2xx", "error"}
       /\ pc[g] = "decide" /\ uri[g] = "api" /\ code[g] = "2xx" => executed[g] = 1
       /\ pc[g] \in {"token", "sessionid"} => uri[g] # "api"

(* Who is past a log-in has left a session id behind, and Init is past one *)
(* before its first request.                                               *)
Logins ==
    /\ phase = "running" => sessionid # NoSession
    /\ \A g \in Goroutines :
          /\ call[g] = "cloud" => sessionid # NoSession
          /\ call[g] = "init" => uri[g] # "api"
          /\ pc[g] = "sessionid" => cookie[g] # NoSession
          /\ pc[g] = "token" /\ uri[g] = "login" => cookie[g] # NoSession
          /\ pc[g] = "decide" /\ uri[g] = "login" /\ code[g] = "2xx"
                => sessionid # NoSession

(* An error that reaches the end of a call has one of two causes, and only *)
(* the call's own request is answered by 401.                              *)
Faults ==
    \A g \in Goroutines :
       /\ pc[g] = "decide" => code[g] # "none"
       /\ pc[g] \in {"token", "sessionid"} => code[g] = "2xx"
       /\ pc[g] = "decide" /\ code[g] = "401" => uri[g] = "api"
       /\ pc[g] = "decide" /\ code[g] = "error" =>
             g \in hurt \/ (uri[g] = "api" /\ call[g] = "write" /\ g \in mixed)

IInv == TypeOK /\ Executions /\ Logins /\ Faults

-----------------------------------------------------------------------------
(* The steps.                                                              *)

LEMMA InitInv == Init => IInv
  BY SessionAssumption
     DEF Init, IInv, TypeOK, Executions, Logins, Faults, Goroutines

(* A new session id is one the code can tell from the empty string.        *)
LEMMA NewSession ==
    ASSUME Sessions \ Held # {}
    PROVE  (CHOOSE s \in Sessions \ Held : TRUE) \in Sessions
  OBVIOUS

(* What an answer does, however the request was answered.                  *)
LEMMA AnswerEffect ==
    ASSUME NEW g \in Goroutines, TypeOK, Do(g)
    PROVE  /\ pc[g] = "do"
           /\ \E c \in {"2xx", "401", "419", "error"} :
                 /\ code' = [code EXCEPT ![g] = c]
                 /\ pc' = [pc EXCEPT ![g] = IF c = "2xx" /\ uri[g] # "api"
                                           THEN "token" ELSE "decide"]
                 /\ executed' = executed \/ executed' = [executed EXCEPT ![g] = @ + 1]
                 /\ executed' # executed => uri[g] = "api" /\ c \in {"2xx", "error"}
                 /\ c = "2xx" /\ uri[g] = "api" =>
                       executed' = [executed EXCEPT ![g] = @ + 1]
                 /\ cookie' = cookie \/ \E s \in Sessions : cookie' = [cookie EXCEPT ![g] = s]
                 /\ c = "2xx" /\ uri[g] = "login" =>
                       \E s \in Sessions : cookie' = [cookie EXCEPT ![g] = s]
                 /\ c = "401" => uri[g] = "api"
                 /\ c = "error" =>
                       \/ g \in hurt'
                       \/ (uri[g] = "api" /\ call[g] = "write" /\ g \in mixed)
                 /\ hurt \subseteq hurt'
           /\ valid' \subseteq Sessions
           /\ hurt' \subseteq Goroutines
           /\ resets' \in 0..MaxResets /\ failures' \in 0..MaxFailures
           /\ UNCHANGED <<phase, sessionid, uri, call, mixed, result, expiries>>
           /\ sent' = [sent EXCEPT ![g] = NoSession]
  <1>1. CASE Accept(g)
    <2>1. uri[g] \in {"api", "root", "login"}
      BY DEF TypeOK
    <2>2. CASE uri[g] = "login"
      BY <1>1, <2>2, NewSession
         DEF Accept, Answered, Goto, Execute, Do, TypeOK, bounds
    <2>3. CASE uri[g] # "login"
      BY <1>1, <2>1, <2>3 DEF Accept, Answered, Goto, Execute, Do, TypeOK, bounds
    <2> QED
      BY <2>2, <2>3
  <1>2. CASE Unauthorized(g) \/ Forbidden(g)
    BY <1>2 DEF Unauthorized, Forbidden, Answered, Goto, Do, TypeOK, bounds, history
  <1>3. CASE Reset(g)
    BY <1>3, SessionAssumption DEF Reset, Answered, Goto, Do, TypeOK, history
  <1>4. CASE RequestFails(g)
    <2>1. hurt \subseteq hurt' /\ g \in hurt' /\ hurt' \subseteq Goroutines
      BY <1>4 DEF RequestFails, TypeOK
    <2>2. failures' \in 0..MaxFailures /\ resets' \in 0..MaxResets
      BY <1>4, SessionAssumption DEF RequestFails, TypeOK
    <2> QED
      BY <1>4, <2>1, <2>2 DEF RequestFails, Answered, Goto, Execute, Do, TypeOK
  <1> QED
    BY <1>1, <1>2, <1>3, <1>4 DEF Do

(* What dealing with an answer does in every case.                         *)
LEMMA DecideEffect ==
    ASSUME NEW g \in Goroutines, Decide(g)
    PROVE  /\ pc[g] = "decide"
           /\ code' = [code EXCEPT ![g] = "none"]
           /\ mixed' = mixed \ {g}
           /\ UNCHANGED <<sessionid, valid, sent, cookie, bounds>>
  BY DEF Decide

(* Where the answer leads: a request is repeated only if it was not        *)
(* executed, and the call's own request is not put off but by a log-in.    *)
LEMMA DecideCases ==
    ASSUME NEW g \in Goroutines, TypeOK, Decide(g)
    PROVE  \/ \E u \in {"api", "root", "login"} :
                 /\ Request(g, u)
                 /\ u = "api" => uri[g] = "api"
                 /\ uri[g] = "api" => code[g] \in {"401", "419"}
           \/ uri[g] = "login" /\ ~LogInFailed(g) /\ AfterLogIn(g)
           \/ uri[g] = "login" /\ Return(g, "error")
           \/ uri[g] = "api" /\ code[g] = "2xx" /\ Return(g, "ok")
           \/ uri[g] = "api" /\ Return(g, "error")
  <1>1. uri[g] \in {"api", "root", "login"}
    BY DEF TypeOK
  <1> QED
    BY <1>1 DEF Decide, Repeats, Expired

(* Every variable keeps its type.                                          *)
LEMMA TypeStep ==
    ASSUME TypeOK, Executions, [Next]_vars
    PROVE  TypeOK'
  <1>1. CASE Start \/ Crash
    BY <1>1, SessionAssumption
       DEF Start, Crash, Started, bounds, TypeOK, Goroutines
  <1>2. CASE Expire
    BY <1>2, SessionAssumption DEF Expire, TypeOK, locals, history
  <1>3. ASSUME NEW g \in Goroutines, Begin(g) PROVE TypeOK'
    BY <1>3 DEF Begin, Goto, TypeOK, session, history, bounds
  <1>4. ASSUME NEW g \in Goroutines, SetHeader(g) \/ AddTokenCookie(g)
        PROVE  TypeOK'
    BY <1>4 DEF SetHeader, AddTokenCookie, Goto, TypeOK, session, locals,
                history, bounds
  <1>5. ASSUME NEW g \in Goroutines, AddSessionCookie(g) PROVE TypeOK'
    BY <1>5 DEF AddSessionCookie, Goto, TypeOK, session, history, bounds
  <1>6. ASSUME NEW g \in Goroutines, Do(g) PROVE TypeOK'
    <2>1. executed[g] = 0
      BY <1>6, AnswerEffect DEF Executions, TypeOK
    <2> QED
      BY <1>6, <2>1, AnswerEffect DEF TypeOK
  <1>7. ASSUME NEW g \in Goroutines, StoreToken(g) \/ StoreSession(g)
        PROVE  TypeOK'
    BY <1>7 DEF StoreToken, StoreSession, Goto, TypeOK, session, history, bounds
  <1>8. ASSUME NEW g \in Goroutines, Decide(g) PROVE TypeOK'
    <2>1. \A h \in Goroutines : hurt \ {h} \subseteq Goroutines
      BY DEF TypeOK
    <2>2. CASE \E u \in {"api", "root", "login"} : Request(g, u)
      BY <1>8, <2>2, DecideEffect DEF Request, Goto, TypeOK, history, bounds
    <2>3. CASE AfterLogIn(g)
      BY <1>8, <2>3, DecideEffect DEF AfterLogIn, Goto, TypeOK, history, bounds
    <2>4. CASE Return(g, "ok") \/ Return(g, "error")
      BY <1>8, <2>1, <2>4, DecideEffect DEF Return, Goto, TypeOK, bounds
    <2> QED
      BY <1>8, <2>2, <2>3, <2>4, DecideCases
  <1>9. CASE UNCHANGED vars
    BY <1>9 DEF vars, session, locals, history, bounds, TypeOK
  <1> QED
    BY <1>1, <1>2, <1>3, <1>4, <1>5, <1>6, <1>7, <1>8, <1>9 DEF Next, Step

(* A request that was executed stays about to return until it does.        *)
LEMMA ExecutionsStep ==
    ASSUME TypeOK, Executions, [Next]_vars
    PROVE  Executions'
  <1>1. CASE Start \/ Crash
    BY <1>1 DEF Start, Crash, Started, Executions
  <1>2. CASE Expire
    BY <1>2 DEF Expire, Executions, locals, history
  <1>3. ASSUME NEW g \in Goroutines, Begin(g) PROVE Executions'
    BY <1>3 DEF Begin, Goto, Executions, TypeOK, history
  <1>4. ASSUME NEW g \in Goroutines, SetHeader(g) \/ AddTokenCookie(g)
        PROVE  Executions'
    BY <1>4 DEF SetHeader, AddTokenCookie, Goto, Executions, TypeOK, locals, history
  <1>5. ASSUME NEW g \in Goroutines, AddSessionCookie(g) PROVE Executions'
    BY <1>5 DEF AddSessionCookie, Goto, Executions, TypeOK, history
  <1>6. ASSUME NEW g \in Goroutines, Do(g) PROVE Executions'
    <2>1. executed[g] = 0
      BY <1>6, AnswerEffect DEF Executions, TypeOK
    <2> QED
      BY <1>6, <2>1, AnswerEffect DEF Executions, TypeOK
  <1>7. ASSUME NEW g \in Goroutines, StoreToken(g) \/ StoreSession(g)
        PROVE  Executions'
    BY <1>7 DEF StoreToken, StoreSession, Goto, Executions, TypeOK, history
  <1>8. ASSUME NEW g \in Goroutines, Decide(g) PROVE Executions'
    <2>1. CASE \E u \in {"api", "root", "login"} :
                  Request(g, u) /\ (uri[g] = "api" => code[g] \in {"401", "419"})
      BY <1>8, <2>1, DecideEffect DEF Request, Goto, Executions, TypeOK, history
    <2>2. CASE uri[g] = "login" /\ AfterLogIn(g)
      BY <1>8, <2>2, DecideEffect DEF AfterLogIn, Goto, Executions, TypeOK, history
    <2>3. CASE Return(g, "ok") \/ Return(g, "error")
      BY <1>8, <2>3, DecideEffect DEF Return, Goto, Executions, TypeOK
    <2> QED
      BY <1>8, <2>1, <2>2, <2>3, DecideCases
  <1>9. CASE UNCHANGED vars
    BY <1>9 DEF vars, locals, history, Executions
  <1> QED
    BY <1>1, <1>2, <1>3, <1>4, <1>5, <1>6, <1>7, <1>8, <1>9 DEF Next, Step

(* Once stored, a session id is replaced, never dropped.                   *)
LEMMA LoginsStep ==
    ASSUME TypeOK, Logins, [Next]_vars
    PROVE  Logins'
  <1>1. CASE Start \/ Crash
    BY <1>1 DEF Start, Crash, Started, Logins
  <1>2. CASE Expire
    BY <1>2 DEF Expire, Logins, locals
  <1>3. ASSUME NEW g \in Goroutines, Begin(g) PROVE Logins'
    BY <1>3 DEF Begin, Goto, Logins, TypeOK, session
  <1>4. ASSUME NEW g \in Goroutines, SetHeader(g) \/ AddTokenCookie(g)
        PROVE  Logins'
    BY <1>4 DEF SetHeader, AddTokenCookie, Goto, Logins, TypeOK, session, locals
  <1>5. ASSUME NEW g \in Goroutines, AddSessionCookie(g) PROVE Logins'
    BY <1>5 DEF AddSessionCookie, Goto, Logins, TypeOK, session
  <1>6. ASSUME NEW g \in Goroutines, Do(g) PROVE Logins'
    BY <1>6, AnswerEffect, SessionAssumption DEF Logins, TypeOK
  <1>7. ASSUME NEW g \in Goroutines, StoreToken(g) PROVE Logins'
    BY <1>7 DEF StoreToken, Goto, Logins, TypeOK, session
  <1>8. ASSUME NEW g \in Goroutines, StoreSession(g) PROVE Logins'
    BY <1>8 DEF StoreSession, Goto, Logins, TypeOK
  <1>9. ASSUME NEW g \in Goroutines, Decide(g) PROVE Logins'
    <2>1. CASE \E u \in {"api", "root", "login"} :
                  Request(g, u) /\ (u = "api" => uri[g] = "api")
      BY <1>9, <2>1, DecideEffect DEF Request, Goto, Logins, TypeOK
    <2>2. CASE uri[g] = "login" /\ ~LogInFailed(g) /\ AfterLogIn(g)
      BY <1>9, <2>2, DecideEffect DEF AfterLogIn, LogInFailed, Goto, Logins, TypeOK
    <2>3. CASE Return(g, "error")
      BY <1>9, <2>3, DecideEffect DEF Return, Goto, Logins, TypeOK
    <2>4. CASE uri[g] = "api" /\ Return(g, "ok")
      <3>1. phase # "running" => call[g] = "cloud"
        BY <1>9, <2>4, DecideEffect DEF Logins, TypeOK
      <3> QED
        BY <1>9, <2>4, <3>1, DecideEffect DEF Return, Goto, Logins, TypeOK
    <2> QED
      BY <1>9, <2>1, <2>2, <2>3, <2>4, DecideCases
  <1>10. CASE UNCHANGED vars
    BY <1>10 DEF vars, session, locals, Logins
  <1> QED
    BY <1>1, <1>2, <1>3, <1>4, <1>5, <1>6, <1>7, <1>8, <1>9, <1>10 DEF Next, Step

(* The cause of an error is remembered until the call returns.             *)
LEMMA FaultsStep ==
    ASSUME TypeOK, Faults, [Next]_vars
    PROVE  Faults'
  <1>1. CASE Start \/ Crash
    BY <1>1 DEF Start, Crash, Started, Faults
  <1>2. CASE Expire
    BY <1>2 DEF Expire, Faults, locals, history
  <1>3. ASSUME NEW g \in Goroutines, Begin(g) PROVE Faults'
    BY <1>3 DEF Begin, Goto, Faults, TypeOK, history
  <1>4. ASSUME NEW g \in Goroutines, SetHeader(g) \/ AddTokenCookie(g)
        PROVE  Faults'
    BY <1>4 DEF SetHeader, AddTokenCookie, Goto, Faults, TypeOK, locals, history
  <1>5. ASSUME NEW g \in Goroutines, AddSessionCookie(g) PROVE Faults'
    BY <1>5 DEF AddSessionCookie, Goto, Faults, TypeOK, history
  <1>6. ASSUME NEW g \in Goroutines, Do(g) PROVE Faults'
    BY <1>6, AnswerEffect DEF Faults, TypeOK
  <1>7. ASSUME NEW g \in Goroutines, StoreToken(g) PROVE Faults'
    <2>1. mixed \subseteq mixed'
      BY <1>7 DEF StoreToken
    <2> QED
      BY <1>7, <2>1 DEF StoreToken, Goto, Faults, TypeOK, history
  <1>8. ASSUME NEW g \in Goroutines, StoreSession(g) PROVE Faults'
    BY <1>8 DEF StoreSession, Goto, Faults, TypeOK, history
  <1>9. ASSUME NEW g \in Goroutines, Decide(g) PROVE Faults'
    <2>1. CASE \E u \in {"api", "root", "login"} : Request(g, u)
      BY <1>9, <2>1, DecideEffect DEF Request, Goto, Faults, TypeOK, history
    <2>2. CASE AfterLogIn(g)
      BY <1>9, <2>2, DecideEffect DEF AfterLogIn, Goto, Faults, TypeOK, history
    <2>3. CASE Return(g, "ok") \/ Return(g, "error")
      BY <1>9, <2>3, DecideEffect DEF Return, Goto, Faults, TypeOK
    <2> QED
      BY <1>9, <2>1, <2>2, <2>3, DecideCases
  <1>10. CASE UNCHANGED vars
    BY <1>10 DEF vars, locals, history, Faults
  <1> QED
    BY <1>1, <1>2, <1>3, <1>4, <1>5, <1>6, <1>7, <1>8, <1>9, <1>10 DEF Next, Step

(* A call returns from Decide only.                                        *)
LEMMA OnlyDecideReturns ==
    ASSUME IInv, [Next]_vars, NEW g \in Goroutines, Returns(g)
    PROVE  Decide(g)
  <1>1. ASSUME NEW h \in Goroutines, Step(h), h # g PROVE FALSE
    <2>1. CASE Do(h)
      BY <1>1, <2>1, AnswerEffect DEF IInv, TypeOK, Returns
    <2>2. CASE Decide(h)
      BY <1>1, <2>2, DecideEffect, DecideCases
         DEF IInv, TypeOK, Returns, Request, AfterLogIn, Return, Goto
    <2> QED
      BY <1>1, <2>1, <2>2
         DEF Step, SetHeader, AddTokenCookie, AddSessionCookie, StoreToken,
             StoreSession, Goto, IInv, TypeOK, Returns
  <1>2. ASSUME NEW h \in Goroutines, Begin(h) PROVE FALSE
    BY <1>2 DEF Begin, Goto, IInv, TypeOK, Returns
  <1>3. CASE Start \/ Crash
    BY <1>3 DEF Start, Crash, Started, Returns
  <1>4. CASE Expire \/ UNCHANGED vars
    BY <1>4 DEF Expire, vars, locals, Returns
  <1>5. CASE Step(g) /\ ~Decide(g)
    <2>1. CASE Do(g)
      BY <2>1, AnswerEffect DEF IInv, TypeOK, Returns
    <2> QED
      BY <1>5, <2>1
         DEF Step, SetHeader, AddTokenCookie, AddSessionCookie, StoreToken,
             StoreSession, Goto, IInv, TypeOK, Returns
  <1> QED
    BY <1>1, <1>2, <1>3, <1>4, <1>5 DEF Next

-----------------------------------------------------------------------------
(* The theorems.                                                           *)

(* IInv holds in every reachable state.                                    *)
THEOREM InductiveInvariant == Spec => []IInv
  <1>1. ASSUME IInv, [Next]_vars PROVE IInv'
    BY <1>1, TypeStep, ExecutionsStep, LoginsStep, FaultsStep DEF IInv
  <1> QED
    BY <1>1, InitInv, PTL DEF Spec

(* Every variable keeps its type: until Init has returned, nobody is in a  *)
(* call but those of Init (main.go:87-89).                                 *)
THEOREM TypeCorrect == Spec => []TypeOK
  <1>1. IInv => TypeOK
    BY DEF IInv
  <1> QED
    BY <1>1, InductiveInvariant, PTL

(* No request of the provider has its effect twice, however often its      *)
(* session expires or is reset and however many goroutines log in          *)
(* (avisession.go:209-228).                                                *)
THEOREM ExecutedAtMostOnce == Spec => []AtMostOnce
  <1>1. IInv => AtMostOnce
    BY DEF IInv, Executions, AtMostOnce
  <1> QED
    BY <1>1, InductiveInvariant, PTL

(* A process that runs always has a session id (avisession.go:196-214).    *)
THEOREM RunsWithSession == Spec => []NeverWithoutSession
  <1>1. IInv => NeverWithoutSession
    BY DEF IInv, Logins, NeverWithoutSession
  <1> QED
    BY <1>1, InductiveInvariant, PTL

(* A call that returns without an error had its request executed           *)
(* (avisession.go:214-236).                                                *)
THEOREM SuccessIsExecuted == Spec => OkIsExecuted
  <1>1. ASSUME IInv, [Next]_vars,
               NEW g \in Goroutines, Returns(g), result'[g] = "ok"
        PROVE  executed[g] = 1
    <2>1. Decide(g)
      BY <1>1, OnlyDecideReturns
    <2> QED
      BY <1>1, <2>1, DecideEffect, DecideCases
         DEF IInv, TypeOK, Executions, Returns, Request, AfterLogIn, Return, Goto
  <1>2. ASSUME IInv, [Next]_vars
        PROVE  [\A g \in Goroutines :
                  Returns(g) /\ result'[g] = "ok" => executed[g] = 1]_vars
    BY <1>1, <1>2
  <1> QED
    BY <1>2, InductiveInvariant, PTL DEF Spec, OkIsExecuted

(* The controller's ending a session makes no call fail                    *)
(* (avisession.go:214-218).                                                *)
THEOREM ExpiriesAreMasked == Spec => ExpiryIsMasked
  <1>1. ASSUME IInv, [Next]_vars,
               NEW g \in Goroutines, Returns(g), result'[g] = "error"
        PROVE  g \in hurt \/ (call[g] = "write" /\ g \in mixed)
    <2>1. Decide(g)
      BY <1>1, OnlyDecideReturns
    <2>2. pc[g] = "decide" /\ code[g] # "none"
      BY <2>1, <1>1, DecideEffect DEF IInv, Faults
    <2>3. CASE code[g] = "error"
      BY <1>1, <2>2, <2>3 DEF IInv, Faults
    <2>4. CASE code[g] = "419"
      BY <1>1, <2>1, <2>4 DEF Decide, Repeats, Request, Goto, IInv, TypeOK, Returns
    <2>5. CASE code[g] = "401"
      <3>1. uri[g] = "api"
        BY <1>1, <2>2, <2>5 DEF IInv, Faults
      <3>2. sessionid # NoSession
        BY <1>1, <2>2, <3>1 DEF IInv, TypeOK, Logins
      <3> QED
        BY <1>1, <2>1, <2>5, <3>1, <3>2
           DEF Decide, Repeats, Expired, Request, Goto, IInv, TypeOK, Returns
    <2>6. CASE code[g] = "2xx"
      BY <1>1, <2>1, <2>6
         DEF Decide, Repeats, Expired, LogInFailed, Request, AfterLogIn, Return,
             Goto, IInv, TypeOK, Returns, Logins
    <2> QED
      BY <1>1, <2>3, <2>2, <2>4, <2>5, <2>6 DEF IInv, TypeOK
  <1>2. ASSUME IInv, [Next]_vars
        PROVE  [\A g \in Goroutines :
                  Returns(g) /\ result'[g] = "error"
                     => g \in hurt \/ (call[g] = "write" /\ g \in mixed)]_vars
    BY <1>1, <1>2
  <1> QED
    BY <1>2, InductiveInvariant, PTL DEF Spec, ExpiryIsMasked

=============================================================================
