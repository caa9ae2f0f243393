---------------------------- MODULE Configuration -----------------------------
(***************************************************************************)
(* How the configuration of a process comes about: defaults, a file, the   *)
(* file of the profile and the environment are laid over each other, and   *)
(* the result is validated (config.LoadWithProfile).                       *)
(*                                                                         *)
(* A configuration is the set of its switches that are on.  The checks of  *)
(* single values (addresses, patterns, durations, sizes), and those that   *)
(* what is enabled has its values and secrets, are one switch, "malformed".*)
(* All upstreams have the same credentials and TLS switches, since each is *)
(* put to the same checks.                                                 *)
(***************************************************************************)

Switch ==
    {"grpc", "grpcTLS", "reflection", "swagger", "swaggerAuth", "jwks", "cron",
     "database", "redis", "eventBus", "operationLog", "authorization",
     "rateLimit", "idempotency", "autoUp", "createSchema",
     "applicationUpstream", "authorizationUpstream", "httpUpstream",
     "credentials", "clientTLS", "allowInsecure", "malformed"}

\* Names of profiles as they are written, and the name each of them means
\* after it is trimmed and lowered.  "" is no name and "a b" not a valid one.
Meaning ==
    [s \in {"", " ", "development", "production", "Production ", "a b"} |->
       CASE s \in {"", " "} -> ""
         [] s \in {"production", "Production "} -> "production"
         [] OTHER -> s]

Spelling == DOMAIN Meaning
Profile == {"development", "production"}

\* What a file or the environment says: the switches it turns on and off.
Layer == [on : SUBSET Switch, off : SUBSET Switch]

\* What a process is started with: the flag -env, the environment, the file and
\* the files of profiles, as far as they exist.  A profile is said with name.
Setup ==
    [flag : Spelling,
     environ : [name : Spelling, says : Layer],
     base : [exists : BOOLEAN, name : Spelling, says : Layer],
     profiles : [Profile -> [exists : BOOLEAN, says : Layer]]]

\* setDefaults.
Defaults == {"grpc", "reflection", "swagger", "cron"}

Overlay(on, layer) == (on \ layer.off) \cup layer.on

\* The flag, else APP_ENV, else the file, else the default.  The flag is
\* trimmed before it is looked at, the others after one was chosen.
ProfileOf(s) ==
    IF Meaning[s.flag] # "" THEN Meaning[s.flag]
    ELSE IF s.environ.name # "" THEN Meaning[s.environ.name]
    ELSE IF s.base.name # "" THEN Meaning[s.base.name] ELSE "development"

\* validateClientPolicy.
ClientPolicyValid(on, production) ==
    /\ "credentials" \in on => on \cap {"clientTLS", "allowInsecure"} # {}
    /\ ~ {"clientTLS", "allowInsecure"} \subseteq on
    /\ production => ~ {"credentials", "allowInsecure"} \subseteq on

\* Config.Validate, in an environment.
Validate(env, on) ==
    LET Requires(x, y) == x \in on => y \in on
        production == env = "production"
    IN
    /\ "malformed" \notin on
    /\ production => /\ Requires("grpc", "grpcTLS")
                     /\ "reflection" \notin on
                     /\ Requires("swagger", "swaggerAuth")
                     /\ "jwks" \in on
                     /\ "authorization" \in on
    /\ Requires("database", "applicationUpstream")
    /\ Requires("autoUp", "database")
    /\ Requires("rateLimit", "redis")
    /\ Requires("authorization", "authorizationUpstream")
    /\ Requires("idempotency", "redis")
    /\ Requires("operationLog", "eventBus")
    /\ on \cap {"applicationUpstream", "authorizationUpstream", "httpUpstream"} # {} =>
         ClientPolicyValid(on, production)

\* What the layers add up to.  A file for the profile need not exist, and the
\* environment comes last.
Layered(s, profile) ==
    LET extra == s.profiles[profile]
        files == Overlay(Defaults, s.base.says)
    IN Overlay(IF extra.exists THEN Overlay(files, extra.says) ELSE files, s.environ.says)

\* Mutant of CheckedAs: the environment to validate is the one a file or
\* APP_ENV names, although a flag chose the profile.
CheckedAsWritten(s) ==
    IF s.environ.name # "" THEN Meaning[s.environ.name]
    ELSE IF s.base.name # "" THEN Meaning[s.base.name] ELSE "development"

\* app.env is set to the chosen profile before the configuration is validated.
CheckedAs(s) == ProfileOf(s)

\* LoadWithProfile: whether it succeeds, and with what.
Loads(s) ==
    /\ s.base.exists
    /\ ProfileOf(s) \in Profile
    /\ Validate(CheckedAs(s), Layered(s, ProfileOf(s)))

Load(s) == [profile |-> ProfileOf(s), on |-> Layered(s, ProfileOf(s))]
===============================================================================
