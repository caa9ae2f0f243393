------------------------------- MODULE AuditLog -------------------------------
(***************************************************************************)
(* What the audit store promises to whoever records an event: a log that   *)
(* only grows, holds at most one row per record id, and answers a request  *)
(* only with a row that is in the log, belongs to the tenant that asked    *)
(* and carries the id that was asked for.                                  *)
(*                                                                         *)
(* AuditIngest, the delivery, retry and transaction machinery of the       *)
(* service, is shown to implement this specification.                      *)
(***************************************************************************)
CONSTANTS Message,      \* requests to record something
          Row,          \* rows of audit_records
          Answers       \* the pairs <<m, r>> where row r answers request m

VARIABLES records,      \* the set of committed rows
          answered      \* <<m, r>>: request m was told that r is recorded

vars == <<records, answered>>

Init ==
    /\ records = {}
    /\ answered = {}

\* A row becomes part of the log; its id was not there before.
Append(r) ==
    /\ \A q \in records : q.id # r.id
    /\ records' = records \cup {r}
    /\ UNCHANGED answered

\* A caller is told which row of the log holds its request.
Reply(m, r) ==
    /\ r \in records
    /\ <<m, r>> \in Answers
    /\ answered' = answered \cup {<<m, r>>}
    /\ UNCHANGED records

Next ==
    \/ \E r \in Row : Append(r)
    \/ \E m \in Message, r \in Row : Reply(m, r)

Spec == Init /\ [][Next]_vars

===============================================================================
