------------------------------ MODULE MCOutbound ------------------------------
(* Two callers of one client, of either transport. *)
EXTENDS Outbound

CONSTANTS c1, c2

MCCaller == {c1, c2}

Client(kind, guarded, tries, limit) ==
    [transport |-> kind, breaker |-> guarded, attempts |-> tries, threshold |-> limit]

MCConfigs ==
    {Client("http", TRUE, 2, 2), Client("http", FALSE, 3, 1),
     Client("grpc", TRUE, 2, 2)}

CallOf(safe, keyed) == [valid |-> TRUE, safe |-> safe, keyed |-> keyed]

MCCalls ==
    {CallOf(TRUE, FALSE), CallOf(FALSE, FALSE), CallOf(FALSE, TRUE),
     [CallOf(FALSE, FALSE) EXCEPT !.valid = FALSE]}
===============================================================================
