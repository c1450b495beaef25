----------------------------- MODULE LBProvider -----------------------------
(***************************************************************************)
(* What the reconciliation loop relies on when it calls a provider         *)
(* (providers.Provider), as a specification of its own: one call at a time *)
(* is in flight and concerns one endpoint; while it is, the configuration  *)
(* that its balancer carries moves within Halfway; a call that returns     *)
(* without an error has left what it was asked for, unless somebody else   *)
(* edited the balancer meanwhile.  ExternalLB takes a call for one step    *)
(* with these outcomes; the modules of the providers refine this one       *)
(* request by request.  Which balancers a listing reports, and under which *)
(* names, the interface leaves to each provider: their modules say it.     *)
(***************************************************************************)
EXTENDS LBConfig

CONSTANTS
    Endpoints,  \* endpoints a call may be about
    LBs,        \* those that exist at the provider
    NoCall

VARIABLES
    lb,         \* the configuration each balancer carries: what its
                \* bookkeeping and its backends at the provider say
    call,       \* the call in flight
    outcome     \* how the last call returned

vars == <<lb, call, outcome>>

Reports == Carried \cup {NoConfig}

(* AddLBConfig and UpdateLBConfig lead to Carry(c), RemoveLBConfig to none.*)
Goals == {Carry(c) : c \in Configs} \cup {NoConfig}

Calls == [endpoint : Endpoints, new : Goals, disturbed : BOOLEAN]

TypeOK ==
    /\ lb \in [LBs -> Reports]
    /\ call \in Calls \cup {NoCall}
    /\ outcome \in {"none", "ok", "error"}

Init ==
    /\ lb \in [LBs -> Reports]
    /\ call = NoCall
    /\ outcome = "none"

-----------------------------------------------------------------------------

Begin ==
    /\ call = NoCall
    /\ \E e \in Endpoints, n \in Goals :
          call' = [endpoint |-> e, new |-> n, disturbed |-> FALSE]
    /\ outcome' = "none"
    /\ UNCHANGED lb

(* Of the balancers, only e changes, to carry one of the reports.          *)
ChangesTo(e, reports) ==
    /\ lb'[e] \in reports
    /\ lb' = [lb EXCEPT ![e] = lb'[e]]

(* A request of the call in flight takes effect, or has none.              *)
Effect ==
    \/ UNCHANGED lb
    \/ /\ call.endpoint \in LBs
       /\ ChangesTo(call.endpoint, Halfway(lb[call.endpoint], call.new))

Work ==
    /\ call # NoCall
    /\ Effect
    /\ UNCHANGED <<call, outcome>>

Return ==
    /\ call # NoCall
    /\ Effect
    /\ call.endpoint \in LBs
    /\ call.disturbed \/ lb'[call.endpoint] = call.new
    /\ call' = NoCall
    /\ outcome' = "ok"

Fail ==
    /\ call # NoCall
    /\ Effect
    /\ call' = NoCall
    /\ outcome' = "error"

(* GetLBConfigs is called, or returns, and changes nothing.                *)
List ==
    /\ call = NoCall
    /\ outcome' \in {"none", "ok", "error"}
    /\ UNCHANGED <<lb, call>>

(* An operator edits a balancer.                                           *)
Drift ==
    /\ \E e \in LBs :
          /\ ChangesTo(e, Reports)
          /\ call' = IF call # NoCall /\ call.endpoint = e
                     THEN [call EXCEPT !.disturbed = TRUE] ELSE call
    /\ UNCHANGED outcome

Next == Begin \/ Work \/ Return \/ Fail \/ List \/ Drift

Spec == Init /\ [][Next]_vars

=============================================================================
