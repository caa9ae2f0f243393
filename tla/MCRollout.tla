------------------------------ MODULE MCRollout -------------------------------
(* Two replicas, and setups that load and that must not. *)
EXTENDS Rollout

CONSTANTS r1, r2, a, b, c, g

MCReplica == {r1, r2}

\* The second release drops a route and adds another.
MCRoutes ==
    [n \in 1..2 |-> [p \in {"grpc", "http"} |->
       IF p = "grpc" THEN {g} ELSE IF n = 1 THEN {a, b} ELSE {a, c}]]

Says(on, off) == [on |-> on, off |-> off]
Silent == Says({}, {})
Absent == [exists |-> FALSE, says |-> Silent]
File(says) == [exists |-> TRUE, says |-> says]

\* flag, APP_ENV, environment, name in the file, file, production file
MCSetup(flag, name, environ, written, base, production) ==
    [flag |-> flag,
     environ |-> [name |-> name, says |-> environ],
     base |-> [exists |-> TRUE, name |-> written, says |-> base],
     profiles |-> [p \in Profile |-> IF p = "production" THEN production ELSE Absent]]

Guard == {"grpcTLS", "jwks", "authorization", "authorizationUpstream"}
Data == {"database", "redis", "eventBus", "autoUp", "createSchema", "applicationUpstream"}
Hardened == File(Says(Guard, {"reflection", "swagger"}))

MCGood == MCSetup("", "production", Says(Data, {}), "", Silent, Hardened)

Others ==
    {\* the flag chooses production, for which there is no file
     MCSetup("Production ", "development", Silent, "", Silent, Absent),
     \* a file for production that the environment undoes
     MCSetup("production", "", Says({}, {"authorization"}), "", Silent, Hardened),
     \* development without a database, jobs and gRPC
     MCSetup("", "", Says({}, {"grpc", "cron"}), "development", Silent, Absent),
     \* valid, and not able to start: authorization without a database, and an
     \* HTTP upstream with credentials in the clear; the latter with a schema
     \* that someone else has to create
     MCSetup("", "", Says(Guard, {}), "", Silent, Absent),
     MCSetup("", "", Says(Data \ {"createSchema"}, {}), "",
             Says({"httpUpstream", "credentials", "allowInsecure"}, {}), Absent)}

\* One of the replicas is at times started with something else.
MCSetups == [r \in MCReplica |-> {MCGood} \cup (IF r = r1 THEN Others ELSE {})]
===============================================================================
