---------------------------- MODULE MCAuditIngest -----------------------------
(***************************************************************************)
(* Small instances of AuditIngest.  The events leave occurred_at to the    *)
(* clock, so that two runs of one event build different rows.              *)
(***************************************************************************)
EXTENDS AuditIngest, TLC

CONSTANTS event, copy, rival, call, wrong, i1, f1, f2, t1, t2, b1, b2, n1, n2

BaseRequest ==
    [id |-> i1, tenant |-> t1, body |-> b1, at |-> NoTime, complete |-> TRUE,
     json |-> TRUE, app |-> FALSE, caller |-> "service", callerTenant |-> NoTenant]

\* event: an event of tenant t1; copy: the same event published twice;
\* rival: another tenant's call with the same id and its own content;
\* call: a user's call that leaves the id to the service and names an application;
\* wrong: a call for a tenant that is not the user's.
AllRequests ==
    (event :> BaseRequest) @@ (copy :> BaseRequest)
    @@ (rival :> [BaseRequest EXCEPT !.tenant = t2, !.body = b2])
    @@ (call :> [BaseRequest EXCEPT !.id = NoId, !.body = b2, !.app = TRUE,
                     !.caller = "user", !.callerTenant = t1])
    @@ (wrong :> [BaseRequest EXCEPT !.body = b2, !.caller = "user", !.callerTenant = t2])

MCReq == [m \in Message |-> AllRequests[m]]

Symmetric == Permutations(Worker) \cup Permutations(FreshId) \cup Permutations(Time)
===============================================================================
