----------------------------- MODULE ConfigLoad ------------------------------
(***************************************************************************)
(* How the config file becomes the configuration: the start of the process  *)
(* (main.go, utils.ReadFile) and the reload (models/safe_config.go), with   *)
(* the expansion of references and password files (utils/env.go) and the    *)
(* rules of models/config.go.  Module Server takes the result as given.     *)
(*                                                                          *)
(* A text is a literal word or one reference ${VAR} or ${VAR:-fallback}.     *)
(* Words, durations and endpoints are members of small sets that tell apart *)
(* what the rules tell apart.  A decoded file is a record with the fields   *)
(* of models.Config; a field that is not in the file has its zero value.    *)
(***************************************************************************)
EXTENDS Integers, Sequences

CONSTANTS Var,       \* environment variables
          Word,      \* words without a reference, "" among them
          Setting,   \* what a field can hold that is not expanded
          File,      \* the decoded contents the config file can have
          Bad,       \* a file that is absent or cannot be decoded
          MaxEdits   \* bound on the edits of the config and password files

VARIABLES env,      \* the environment of the process
          file,     \* what the config file holds
          secret,   \* what the password file holds, or Missing
          edits,    \* how often either was edited
          phase,    \* "start", "read", "valid", "running" or "failed"
          cfg,      \* the configuration being loaded, then SafeConfig.C
          changed,  \* the last reload reported a changed cluster set
          touched   \* history: a file was edited since cfg was read

vars == <<env, file, secret, edits, phase, cfg, changed, touched>>

-----------------------------------------------------------------------------
(* Texts and their expansion (utils/env.go).                                *)

Literal(w) == [kind |-> "literal", word |-> w]
Reference(v, f) == [kind |-> "reference", var |-> v, fallback |-> f]
Empty == Literal("")
Unset == [kind |-> "unset"]
Missing == [kind |-> "missing"]

IsReference(t) == t.kind = "reference"

\* What a function that can fail returns: a sequence with its value, or none.
Returns(t) == <<t>>
Fails == <<>>

\* ExpandEnv with the environment e.  What replaces a reference is not scanned
\* again by this call.  A fallback is a set of at most one word.
ExpandEnv(e, t) ==
    IF ~IsReference(t) THEN Returns(t)
    ELSE IF e[t.var] \notin {Unset, Empty} THEN Returns(e[t.var])
    ELSE IF t.fallback # {} THEN Returns(Literal(CHOOSE w \in t.fallback : TRUE))
    ELSE IF e[t.var] = Empty THEN Returns(Empty)
    ELSE Fails

ExpandEnvSecret_Lax(e, t) == ExpandEnv(e, t)

\* A credential written as a reference must not come out empty.
ExpandEnvSecret(e, t) ==
    IF IsReference(t) /\ ExpandEnv(e, t) = Returns(Empty) THEN Fails ELSE ExpandEnv(e, t)

\* EnvBool: the text as written, if it was a string, and the value.
ResolveBool(e, b) ==
    IF b.raw = Empty THEN Returns(b)
    ELSE LET x == ExpandEnv(e, b.raw)
         IN IF x = Fails THEN Fails
            ELSE IF Head(x) \in {Empty, Literal("false")} THEN Returns([b EXCEPT !.val = FALSE])
            ELSE IF Head(x) = Literal("true") THEN Returns([b EXCEPT !.val = TRUE])
            ELSE Fails

\* The password file is read only while there is no password, and its contents
\* are not expanded by this call.
ResolvePassword(e, s, cl) ==
    IF cl.password = Empty /\ cl.passwordFile
    THEN IF s = Missing THEN Fails ELSE Returns(s)
    ELSE ExpandEnvSecret(e, cl.password)

ResolveCluster(e, s, cl) ==
    LET skip     == ResolveBool(e, cl.skip)
        endpoint == ExpandEnvSecret(e, cl.endpoint)
        username == ExpandEnvSecret(e, cl.username)
        password == ResolvePassword(e, s, cl)
    IN IF Fails \in {skip, endpoint, username, password} THEN Fails
       ELSE Returns([cl EXCEPT !.skip = Head(skip), !.endpoint = Head(endpoint),
                               !.username = Head(username), !.password = Head(password)])

\* ResolveSecrets: the first cluster that fails fails them all.
ResolveSecrets(e, s, c) ==
    LET resolved == [i \in DOMAIN c.clusters |-> ResolveCluster(e, s, c.clusters[i])]
    IN IF \E i \in DOMAIN resolved : resolved[i] = Fails THEN Fails
       ELSE Returns([c EXCEPT !.clusters = [i \in DOMAIN resolved |-> Head(resolved[i])]])

-----------------------------------------------------------------------------
(* Configurations.                                                          *)

Value == {Literal(w) : w \in Word} \cup {Reference(v, {}) : v \in Var}
Text == Value \cup {Reference(v, {w}) : v \in Var, w \in Word}
EnvValue == Value \cup {Unset}
SecretValue == Value \cup {Missing}

Bool == [raw : Text, val : BOOLEAN]

\* passwordFile: the entry names one; all entries that do name the same file.
Cluster == [name : Setting, endpoint : Text, port : Int, username : Text,
            password : Text, passwordFile : BOOLEAN, skip : Bool]

\* The sampling rate is in percent.
Config == [host : Setting, port : Int, uri : Setting, interval : Setting, timeout : Setting,
           push : [enabled : BOOLEAN, endpoint : Setting, interval : Setting],
           tracing : [enabled : BOOLEAN, endpoint : Setting, rate : Int],
           clusters : Seq(Cluster)]

NoConfig == [kind |-> "none"]

ASSUME ConfigLoadAssumption ==
    /\ "" \in Word
    /\ {"0.0.0.0", "/metrics", "10s", "8s"} \subseteq Setting
    /\ File \subseteq Config /\ Bad \notin File
    /\ MaxEdits \in Nat

-----------------------------------------------------------------------------
(* The rules (models/config.go).                                            *)

OrDefault(x, default) == IF x = "" THEN default ELSE x

NoPort == 0
IsPort(p) == p \in 1..65535

\* The defaults of a cluster entry.
DefaultPorts(cls) ==
    [i \in DOMAIN cls |-> [cls[i] EXCEPT !.port = IF @ = NoPort THEN 8080 ELSE @]]

SetDefaults(c) ==
    LET interval == OrDefault(c.interval, "10s")
    IN [c EXCEPT !.host = OrDefault(@, "0.0.0.0"),
                 !.port = IF @ = NoPort THEN 9444 ELSE @,
                 !.uri = OrDefault(@, "/metrics"),
                 !.interval = interval,
                 !.timeout = OrDefault(@, "8s"),
                 !.push.interval = OrDefault(@, interval),
                 !.clusters = DefaultPorts(@)]

\* time.ParseDuration accepts it; a period that is not positive is accepted.
IsDuration(d) == d \notin {"", "bad"}

ServerRules(c) == c.host # "" /\ IsPort(c.port) /\ c.uri # ""
CollectionRules(c) == IsDuration(c.interval) /\ IsDuration(c.timeout)

ClusterRules(cl) ==
    /\ cl.name # ""
    /\ cl.endpoint # Empty
    /\ IsPort(cl.port)
    /\ cl.username # Empty
    /\ cl.password # Empty \/ cl.passwordFile

ClustersRules(c) ==
    /\ c.clusters # <<>>
    /\ \A i \in DOMAIN c.clusters : ClusterRules(c.clusters[i])
    /\ \A i, j \in DOMAIN c.clusters : i # j => c.clusters[i].name # c.clusters[j].name

\* An endpoint is "" or "bad" when it is not host:port with a valid port.
OTelRules(c) ==
    /\ c.push.enabled => c.push.endpoint \notin {"", "bad"} /\ IsDuration(c.push.interval)
    /\ c.tracing.enabled => c.tracing.endpoint \notin {"", "bad"} /\ c.tracing.rate \in 0..100

\* Validate: the defaults, then the rules.
Validate(c) ==
    LET d == SetDefaults(c)
    IN IF ServerRules(d) /\ CollectionRules(d) /\ ClustersRules(d) /\ OTelRules(d)
       THEN Returns(d) ELSE Fails

-----------------------------------------------------------------------------
(* The load of a reload; that of the start is three steps of main.          *)

\* SafeConfig.ReloadConfig: resolve, then validate.
ReloadLoad(e, s, f) ==
    IF f = Bad THEN Fails
    ELSE LET r == ResolveSecrets(e, s, f)
         IN IF r = Fails THEN Fails ELSE Validate(Head(r))

-----------------------------------------------------------------------------
Init ==
    /\ env \in [Var -> EnvValue]
    /\ file \in File \cup {Bad}
    /\ secret \in SecretValue
    /\ edits = 0
    /\ phase = "start"
    /\ cfg = NoConfig
    /\ changed = FALSE
    /\ touched = FALSE

\* A step of main before the server exists: it goes on or the process ends.
StartStep(from, x, to) ==
    /\ phase = from
    /\ \/ x = Fails /\ phase' = "failed" /\ cfg' = NoConfig
       \/ x # Fails /\ phase' = to /\ cfg' = Head(x)
    /\ UNCHANGED <<env, file, secret, edits, changed>>

\* validateConfig: utils.ReadFile ...
StartReads ==
    /\ StartStep("start", IF file = Bad THEN Fails ELSE ResolveSecrets(env, secret, file), "read")
    /\ touched' = FALSE

\* ... and Validate.
StartValidates == StartStep("read", Validate(cfg), "valid") /\ UNCHANGED touched

\* utils.ResolveSecrets(cfg), once more.
StartResolvesAgain ==
    StartStep("valid", ResolveSecrets(env, secret, cfg), "running") /\ UNCHANGED touched

Reload_AssignsFirst ==
    /\ phase = "running"
    /\ LET x == ReloadLoad(env, secret, file)
       IN /\ changed' = FALSE
          /\ cfg' = IF x = Fails THEN NoConfig ELSE Head(x)
          /\ touched' = FALSE
    /\ UNCHANGED <<env, file, secret, edits, phase>>

Reload_ComparesUnresolved ==
    /\ phase = "running"
    /\ LET x == ReloadLoad(env, secret, file)
       IN \/ /\ x = Fails
             /\ changed' = FALSE
             /\ UNCHANGED <<cfg, touched>>
          \/ /\ x # Fails
             /\ changed' = (file.clusters # cfg.clusters)
             /\ cfg' = Head(x)
             /\ touched' = FALSE
    /\ UNCHANGED <<env, file, secret, edits, phase>>

\* ReloadConfig: a file that cannot be loaded leaves everything as it is.
Reload ==
    /\ phase = "running"
    /\ LET x == ReloadLoad(env, secret, file)
       IN \/ /\ x = Fails
             /\ changed' = FALSE
             /\ UNCHANGED <<cfg, touched>>
          \/ /\ x # Fails
             /\ changed' = (Head(x).clusters # cfg.clusters)
             /\ cfg' = Head(x)
             /\ touched' = FALSE
    /\ UNCHANGED <<env, file, secret, edits, phase>>

\* An edit of the config file, or the rotation of the password.
Edit ==
    /\ edits < MaxEdits
    /\ edits' = edits + 1
    /\ \/ file' \in (File \cup {Bad}) \ {file} /\ UNCHANGED secret
       \/ secret' \in SecretValue \ {secret} /\ UNCHANGED file
    /\ touched' = TRUE
    /\ UNCHANGED <<env, phase, cfg, changed>>

\* A process that could not start is gone.
Failed == phase = "failed" /\ UNCHANGED vars

Next == StartReads \/ StartValidates \/ StartResolvesAgain \/ Reload \/ Edit \/ Failed

Spec == Init /\ [][Next]_vars

-----------------------------------------------------------------------------
(* Properties.                                                              *)

\* The type of the state: there is a configuration from the first step that
\* succeeds on, and no reload takes it away.
TypeOK ==
    /\ env \in [Var -> EnvValue]
    /\ file \in File \cup {Bad}
    /\ secret \in SecretValue
    /\ edits \in 0..MaxEdits
    /\ phase \in {"start", "read", "valid", "running", "failed"}
    /\ changed \in BOOLEAN /\ touched \in BOOLEAN
    /\ IF phase \in {"start", "failed"} THEN cfg = NoConfig ELSE cfg \in Config

\* What the exporter runs with is usable, although main resolves once more after
\* it has validated: the clusters can be told apart and be connected to, and
\* none has an empty credential unless its password file is empty.
AdoptedIsUsable ==
    phase = "running" =>
        /\ cfg.clusters # <<>>
        /\ \A i \in DOMAIN cfg.clusters :
              LET cl == cfg.clusters[i]
              IN /\ cl.port >= 1 /\ cl.port <= 65535
                 /\ Empty \notin {cl.endpoint, cl.username}
                 /\ cl.password = Empty => cl.passwordFile
                 /\ \A j \in DOMAIN cfg.clusters : cfg.clusters[j].name = cl.name => i = j

\* No value that comes from outside the config file holds a reference.
PlainValues == /\ \A v \in Var : ~IsReference(env[v])
               /\ ~IsReference(secret)

\* The two ways to load a file agree: a reload of files that nobody has touched
\* since the start or since the last reload changes nothing and rebuilds no
\* client pool, as long as no value from outside holds a reference.
SteadyReload ==
    [][phase = "running" /\ ~touched /\ PlainValues /\ Reload
         => cfg' = cfg /\ ~changed']_vars

-----------------------------------------------------------------------------
(* What the repository says and the code does not do.                       *)

\* The value of a referenced variable "is inserted verbatim and never re-scanned"
\* (docs/getting-started/configuration.md:147).
EnvValueVerbatim ==
    phase = "running" /\ ~touched => \A i \in DOMAIN file.clusters :
        LET t == file.clusters[i].password
        IN IsReference(t) => env[t.var] \in {Unset, Empty, cfg.clusters[i].password}
=============================================================================
