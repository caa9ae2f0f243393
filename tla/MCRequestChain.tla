---------------------------- MODULE MCRequestChain ----------------------------
(* Every kind of request under five configurations. *)
EXTENDS RequestChain

\* No stage tells a valid key from none.
OfKind(kinds, tracked, creds, origins, medias) ==
    [kind : kinds, tracked : tracked, cred : creds,
     key : {"valid", "invalid"}, origin : origins, media : medias]

Creds == {"none", "bearer", "psk", "invalid"}
Origins == {"none", "allowed", "foreign"}

MCShapes ==
    OfKind({"business"}, BOOLEAN, Creds, Origins, {"json", "other"})
    \cup OfKind({"live", "ready", "options"}, {FALSE}, {"none"}, Origins, {"json", "other"})
    \cup OfKind({"call"}, BOOLEAN, Creds, {"none"}, {"json"})
    \cup OfKind({"health", "stream"}, {FALSE}, Creds, {"none"}, {"json"})

Cfg(cors, limiter, failOpen, authorization, recorder, psk, deps) ==
    [cors |-> cors, limiter |-> limiter, failOpen |-> failOpen,
     authorization |-> authorization, recorder |-> recorder, psk |-> psk, deps |-> deps]

Both == {"database", "redis"}

MCConfigs ==
    {Cfg(TRUE, TRUE, FALSE, TRUE, TRUE, TRUE, Both),
     Cfg(TRUE, TRUE, TRUE, TRUE, TRUE, FALSE, Both),
     Cfg(TRUE, TRUE, FALSE, FALSE, TRUE, TRUE, Both),
     Cfg(FALSE, FALSE, FALSE, TRUE, FALSE, FALSE, {"database"}),
     Cfg(FALSE, FALSE, FALSE, TRUE, TRUE, TRUE, {"database"})}
===============================================================================
